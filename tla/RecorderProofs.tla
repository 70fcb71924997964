--------------------------- MODULE RecorderProofs ---------------------------
(***************************************************************************)
(* Proofs about Recorder, for every set of payloads and every bound: what  *)
(* is in the file, and what a click on the UI thread still lets the Decode *)
(* threads write.                                                          *)
(*                                                                         *)
(* What is in the file rests on the loop of the writer, which is recursive *)
(* over the NAL units of a payload: that it drops, doubles and moves       *)
(* nothing is proved by induction over the payload (LoopKeepsAll).         *)
(*                                                                         *)
(* The thread reads closeWriter and acts on it one step later, so none of  *)
(* the properties of the click is inductive.  What carries them is that a  *)
(* thread about to write read the flag before the click, that a thread     *)
(* about to close read it after, and that the flag never comes down again. *)
(***************************************************************************)
EXTENDS Recorder, SequenceTheorems, WellFoundedInduction, TLAPS

----------------------------------------------------------------------------
(* Induction, and functions defined by recursion. *)

Less == {pair \in Nat \X Nat : pair[1] < pair[2]}

\* Induction, with the numbers that have the property as a set.
LEMMA Induction ==
  ASSUME NEW S, 0 \in S, \A n \in Nat : n \in S => n + 1 \in S
  PROVE  Nat \subseteq S
<1>. SUFFICES ASSUME Nat \ S # {} PROVE FALSE
  OBVIOUS
<1>1. IsWellFoundedOn(Less, Nat)
  <2>1. IsWellFoundedOn({pair \in Nat \X Nat : pair[1] < pair[2]}, Nat)
    BY NatLessThanWellFounded DEF OpToRel
  <2>. QED  BY <2>1 DEF Less
<1>2. PICK least \in Nat \ S : \A n \in Nat \ S : <<n, least>> \notin Less
  <2>. DEFINE T == Nat \ S
  <2>1. T \subseteq Nat /\ T # {}
    OBVIOUS
  <2>. HIDE DEF T
  <2>2. \E x \in T : \A y \in T : ~(<<y, x>> \in Less)
    BY <1>1, <2>1, WFMin
  <2>. QED  BY <2>2 DEF T
<1>3. least - 1 \in Nat /\ <<least - 1, least>> \in Less
  BY DEF Less
<1>. QED  BY <1>2, <1>3

\* The same for sequences built by Append.
LEMMA SequenceInduction ==
  ASSUME NEW S, NEW T, <<>> \in T, \A s \in Seq(S), e \in S : s \in T => Append(s, e) \in T
  PROVE  Seq(S) \subseteq T
<1>. DEFINE N == {n \in Nat : \A s \in Seq(S) : Len(s) = n => s \in T}
<1>1. 0 \in N
  BY EmptySeq
<1>2. ASSUME NEW n \in Nat, n \in N PROVE n + 1 \in N
  <2>. SUFFICES ASSUME NEW s \in Seq(S), Len(s) = n + 1 PROVE s \in T
    OBVIOUS
  <2>1. s # <<>>
    BY EmptySeq
  <2>2. PICK t \in Seq(S), e \in S : s = Append(t, e)
    BY <2>1, SequenceEmptyOrAppend
  <2>3. Len(t) = n
    BY <2>2, AppendProperties, LenProperties
  <2>. QED  BY <1>2, <2>2, <2>3
<1>. HIDE DEF N
<1>3. Nat \subseteq N
  BY <1>1, <1>2, Induction
<1>. QED  BY <1>3, LenProperties DEF N

\* f is the function that starts from base and goes on by step.
Follows(f, X, N, base, step) ==
  f \in [0..N -> X] /\ f[0] = base /\ \A n \in 1..N : f[n] = step[n][f[n - 1]]

\* A function defined step by step exists.
LEMMA Recursion ==
  ASSUME NEW X, NEW N \in Nat, NEW base \in X, NEW step \in [1..N -> [X -> X]]
  PROVE  \E f : Follows(f, X, N, base, step)
<1>. DEFINE Up(m, f) == Follows(f, X, m, base, step)
            S == {m \in Nat : m <= N => \E f : Up(m, f)}
<1>1. 0 \in S
  <2>1. Up(0, [n \in 0..0 |-> base])
    BY DEF Follows
  <2>. QED  BY <2>1
<1>2. ASSUME NEW m \in Nat, m \in S PROVE m + 1 \in S
  <2>. SUFFICES ASSUME m + 1 <= N PROVE \E f : Up(m + 1, f)
    OBVIOUS
  <2>1. PICK f : Up(m, f)
    BY <1>2
  <2>. DEFINE g == [n \in 0..(m + 1) |-> IF n = m + 1 THEN step[n][f[m]] ELSE f[n]]
  <2>2. step[m + 1][f[m]] \in X
    BY <2>1 DEF Follows
  <2>3. g \in [0..(m + 1) -> X] /\ g[m + 1] = step[m + 1][f[m]] /\ \A n \in 0..m : g[n] = f[n]
    BY <2>1, <2>2 DEF Follows
  <2>. HIDE DEF g
  <2>4. \A n \in 1..(m + 1) : n - 1 \in 0..m /\ (n = m + 1 \/ n \in 1..m)
    OBVIOUS
  <2>5. Up(m + 1, g)
    BY <2>1, <2>3, <2>4 DEF Follows
  <2>. QED  BY <2>5
<1>3. Nat \subseteq S
  <2>. HIDE DEF S
  <2>. QED  BY <1>1, <1>2, Induction
<1>. QED  BY <1>3

\* Two functions that follow each other step by step.
Agree(f, g, N) == \A n \in 0..N : f[n] = g[n]

\* And there is only one.
LEMMA Unique ==
  ASSUME NEW f, NEW g, NEW N \in Nat, f[0] = g[0],
         \A n \in 1..N : f[n - 1] = g[n - 1] => f[n] = g[n]
  PROVE  Agree(f, g, N)
<1>. DEFINE S == {n \in Nat : n <= N => f[n] = g[n]}
<1>1. 0 \in S
  OBVIOUS
<1>2. ASSUME NEW n \in Nat, n \in S PROVE n + 1 \in S
  <2>1. n + 1 <= N => n + 1 \in 1..N /\ (n + 1) - 1 = n
    OBVIOUS
  <2>. QED  BY <1>2, <2>1
<1>. HIDE DEF S
<1>3. Nat \subseteq S
  BY <1>1, <1>2, Induction
<1>. QED  BY <1>3 DEF S, Agree

----------------------------------------------------------------------------
(* Only, which picks members of a sequence, and FlattenSeq, which joins. *)

\* The first n members of s done, f[n] has those of them that are in the set.
OnlyStep(f, s, kept) ==
  \A n \in 1..Len(s) : f[n] = IF s[n] \in kept THEN Append(f[n - 1], s[n]) ELSE f[n - 1]

\* Only takes one member after the other.
LEMMA OnlySteps ==
  ASSUME NEW S, NEW s \in Seq(S), NEW kept
  PROVE  \E f \in [0..Len(s) -> Seq(S)] :
           f[0] = <<>> /\ OnlyStep(f, s, kept) /\ Only(s, kept) = f[Len(s)]
<1>. DEFINE only == CHOOSE f : f = [n \in 0..Len(s) |->
                      IF n = 0 THEN <<>>
                      ELSE IF s[n] \in kept THEN Append(f[n - 1], s[n]) ELSE f[n - 1]]
            step == [n \in 1..Len(s) |-> [x \in Seq(S) |-> IF s[n] \in kept THEN Append(x, s[n]) ELSE x]]
<1>1. Len(s) \in Nat /\ \A n \in 1..Len(s) : s[n] \in S
  BY LenProperties, ElementOfSeq
<1>2. step \in [1..Len(s) -> [Seq(S) -> Seq(S)]] /\ <<>> \in Seq(S)
  BY <1>1, AppendProperties, EmptySeq
<1>3. PICK f : Follows(f, Seq(S), Len(s), <<>>, step)
  <2>. HIDE DEF step
  <2>. QED  BY <1>1, <1>2, Recursion
<1>4. \A n \in 1..Len(s) : n - 1 \in 0..Len(s)
  BY <1>1
<1>5. f = [n \in 0..Len(s) |-> IF n = 0 THEN <<>>
                      ELSE IF s[n] \in kept THEN Append(f[n - 1], s[n]) ELSE f[n - 1]]
  <2>1. \A n \in 0..Len(s) : n = 0 \/ n \in 1..Len(s)
    BY <1>1
  <2>. QED  BY <1>3, <1>4, <2>1 DEF Follows
<1>6. only = [n \in 0..Len(s) |-> IF n = 0 THEN <<>>
                      ELSE IF s[n] \in kept THEN Append(only[n - 1], s[n]) ELSE only[n - 1]]
  BY <1>5, Zenon
<1>7. Only(s, kept) = only[Len(s)]
  BY DEF Only
<1>. HIDE DEF only, step
<1>8. only[0] = f[0] /\ \A n \in 1..Len(s) : only[n - 1] = f[n - 1] => only[n] = f[n]
  <2>1. \A n \in 0..Len(s) : f[n] = IF n = 0 THEN <<>>
                      ELSE IF s[n] \in kept THEN Append(f[n - 1], s[n]) ELSE f[n - 1]
    BY <1>5, Zenon
  <2>2. \A n \in 0..Len(s) : only[n] = IF n = 0 THEN <<>>
                      ELSE IF s[n] \in kept THEN Append(only[n - 1], s[n]) ELSE only[n - 1]
    BY <1>6, Zenon
  <2>3. 0 \in 0..Len(s) /\ \A n \in 1..Len(s) : n \in 0..Len(s) /\ n # 0
    BY <1>1
  <2>. QED  BY <2>1, <2>2, <2>3, Zenon
<1>9. only[Len(s)] = f[Len(s)]
  <2>1. Agree(only, f, Len(s))
    BY <1>1, <1>8, Unique
  <2>. QED  BY <1>1, <2>1 DEF Agree
<1>. QED  BY <1>3, <1>4, <1>7, <1>9 DEF step, OnlyStep, Follows

\* Only of nothing, and what is picked are members.
LEMMA OnlyEmpty == ASSUME NEW kept PROVE Only(<<>>, kept) = <<>>
  BY OnlySteps, EmptySeq

LEMMA OnlyIn ==
  ASSUME NEW S, NEW s \in Seq(S), NEW kept
  PROVE  Only(s, kept) \in Seq(S)
<1>1. Len(s) \in Nat
  BY LenProperties
<1>. QED  BY <1>1, OnlySteps

\* Only, one member at a time ...
LEMMA OnlyAppend ==
  ASSUME NEW S, NEW s \in Seq(S), NEW e \in S, NEW kept
  PROVE  /\ Only(s, kept) \in Seq(S)
         /\ Only(Append(s, e), kept) = IF e \in kept THEN Append(Only(s, kept), e) ELSE Only(s, kept)
<1>. DEFINE t == Append(s, e)
<1>1. t \in Seq(S) /\ Len(t) = Len(s) + 1 /\ Len(s) \in Nat /\ t[Len(s) + 1] = e
      /\ \A i \in 1..Len(s) : t[i] = s[i]
  BY AppendProperties, LenProperties
<1>. HIDE DEF t
<1>2. PICK f \in [0..Len(s) -> Seq(S)] :
        f[0] = <<>> /\ OnlyStep(f, s, kept) /\ Only(s, kept) = f[Len(s)]
  BY OnlySteps
<1>3. PICK g \in [0..Len(t) -> Seq(S)] :
        g[0] = <<>> /\ OnlyStep(g, t, kept) /\ Only(t, kept) = g[Len(t)]
  BY <1>1, OnlySteps
<1>4. \A n \in 1..Len(s) : f[n - 1] = g[n - 1] => f[n] = g[n]
  <2>1. \A n \in 1..Len(s) : n \in 1..Len(t) /\ t[n] = s[n]
    BY <1>1
  <2>2. \A n \in 1..Len(s) : f[n] = IF s[n] \in kept THEN Append(f[n - 1], s[n]) ELSE f[n - 1]
    BY <1>2 DEF OnlyStep
  <2>3. \A n \in 1..Len(s) : g[n] = IF s[n] \in kept THEN Append(g[n - 1], s[n]) ELSE g[n - 1]
    BY <1>3, <2>1 DEF OnlyStep
  <2>. QED  BY <2>2, <2>3
<1>5. f[Len(s)] = g[Len(s)]
  <2>1. Len(s) \in Nat /\ f[0] = g[0]
    BY <1>1, <1>2, <1>3
  <2>2. Agree(f, g, Len(s))
    BY <2>1, <1>4, Unique
  <2>. QED  BY <2>1, <2>2 DEF Agree
<1>6. g[Len(t)] = IF e \in kept THEN Append(g[Len(s)], e) ELSE g[Len(s)]
  BY <1>1, <1>3 DEF OnlyStep
<1>. QED  BY <1>2, <1>3, <1>5, <1>6, <1>1 DEF t

\* ... and of two sequences one after the other.
LEMMA OnlyConcat ==
  ASSUME NEW S, NEW s \in Seq(S), NEW t \in Seq(S), NEW kept
  PROVE  Only(s \o t, kept) = Only(s, kept) \o Only(t, kept)
<1>. DEFINE T == {u \in Seq(S) : Only(s \o u, kept) = Only(s, kept) \o Only(u, kept)}
<1>0. \A u \in Seq(S) : Only(u, kept) \in Seq(S)
  BY OnlyIn
<1>1. <<>> \in T
  BY <1>0, OnlyEmpty, ConcatEmptySeq, EmptySeq
<1>2. ASSUME NEW u \in Seq(S), NEW e \in S, u \in T PROVE Append(u, e) \in T
  <2>1. s \o Append(u, e) = Append(s \o u, e) /\ s \o u \in Seq(S) /\ Append(u, e) \in Seq(S)
    BY ConcatProperties, AppendProperties
  <2>2. Only(Append(s \o u, e), kept) = IF e \in kept THEN Append(Only(s \o u, kept), e) ELSE Only(s \o u, kept)
    <3>. DEFINE v == s \o u
    <3>1. v \in Seq(S)
      BY <2>1
    <3>. HIDE DEF v
    <3>2. Only(Append(v, e), kept) = IF e \in kept THEN Append(Only(v, kept), e) ELSE Only(v, kept)
      BY <3>1, OnlyAppend, SMTT(40)
    <3>. QED  BY <3>2 DEF v
  <2>3. Only(Append(u, e), kept) = IF e \in kept THEN Append(Only(u, kept), e) ELSE Only(u, kept)
    BY OnlyAppend
  <2>4. Append(Only(s, kept) \o Only(u, kept), e) = Only(s, kept) \o Append(Only(u, kept), e)
    <3>. DEFINE a == Only(s, kept)
                b == Only(u, kept)
    <3>1. a \in Seq(S) /\ b \in Seq(S)
      BY <1>0
    <3>. HIDE DEF a, b
    <3>2. Append(a \o b, e) = a \o Append(b, e)
      <4>1. Append(b, e) = b \o <<e>> /\ Append(a \o b, e) = (a \o b) \o <<e>> /\ <<e>> \in Seq(S)
        BY <3>1, AppendIsConcat, ConcatProperties
      <4>. QED  BY <3>1, <4>1, ConcatAssociative, SMTT(40)
    <3>. QED  BY <3>2 DEF a, b
  <2>. QED  BY <1>2, <2>1, <2>2, <2>3, <2>4
<1>. HIDE DEF T
<1>3. Seq(S) \subseteq T
  BY <1>1, <1>2, SequenceInduction
<1>. QED  BY <1>3 DEF T

\* The first n sequences joined are f[n].
FlattenStep(f, ss) ==
  f[0] = <<>> /\ \A n \in 1..Len(ss) : f[n] = IF n = 1 THEN ss[n] ELSE f[n - 1] \o ss[n]

\* FlattenSeq joins one sequence after the other.
LEMMA FlattenSteps ==
  ASSUME NEW S, NEW ss \in Seq(Seq(S)), Len(ss) # 0
  PROVE  \E f \in [0..Len(ss) -> Seq(S)] : FlattenStep(f, ss) /\ FlattenSeq(ss) = f[Len(ss)]
<1>. DEFINE flatten == CHOOSE f : f = [i \in 1..Len(ss) |-> IF i = 1 THEN ss[i] ELSE f[i - 1] \o ss[i]]
            step == [n \in 1..Len(ss) |-> [x \in Seq(S) |-> IF n = 1 THEN ss[n] ELSE x \o ss[n]]]
<1>1. Len(ss) \in Nat /\ \A n \in 1..Len(ss) : ss[n] \in Seq(S)
  BY LenProperties, ElementOfSeq
<1>2. step \in [1..Len(ss) -> [Seq(S) -> Seq(S)]] /\ <<>> \in Seq(S)
  BY <1>1, ConcatProperties, EmptySeq
<1>3. PICK f : Follows(f, Seq(S), Len(ss), <<>>, step)
  <2>. HIDE DEF step
  <2>. QED  BY <1>1, <1>2, Recursion
<1>4. f \in [0..Len(ss) -> Seq(S)] /\ FlattenStep(f, ss)
  <2>1. f \in [0..Len(ss) -> Seq(S)] /\ f[0] = <<>> /\ \A n \in 1..Len(ss) : f[n] = step[n][f[n - 1]]
    BY <1>3 DEF Follows
  <2>2. \A n \in 1..Len(ss) : n - 1 \in 0..Len(ss)
    BY <1>1
  <2>3. \A n \in 1..Len(ss) : f[n - 1] \in Seq(S)
    BY <2>1, <2>2
  <2>4. \A n \in 1..Len(ss) : f[n] = IF n = 1 THEN ss[n] ELSE f[n - 1] \o ss[n]
    BY <2>1, <2>3
  <2>. QED  BY <2>1, <2>4 DEF FlattenStep
<1>. HIDE DEF step
<1>. DEFINE g == [n \in 1..Len(ss) |-> f[n]]
<1>5. g = [i \in 1..Len(ss) |-> IF i = 1 THEN ss[i] ELSE g[i - 1] \o ss[i]]
  <2>1. \A n \in 1..Len(ss) : n # 1 => n - 1 \in 1..Len(ss)
    BY <1>1
  <2>2. \A n \in 1..Len(ss) : g[n] = f[n]
    OBVIOUS
  <2>. HIDE DEF g
  <2>3. \A n \in 1..Len(ss) : g[n] = IF n = 1 THEN ss[n] ELSE g[n - 1] \o ss[n]
    BY <1>4, <2>1, <2>2 DEF FlattenStep
  <2>4. g = [n \in 1..Len(ss) |-> g[n]]
    BY DEF g
  <2>. QED  BY <2>3, <2>4
<1>. HIDE DEF g
<1>6. flatten = [i \in 1..Len(ss) |-> IF i = 1 THEN ss[i] ELSE flatten[i - 1] \o ss[i]]
  BY <1>5, Zenon
<1>7. FlattenSeq(ss) = flatten[Len(ss)]
  BY DEF FlattenSeq
<1>. HIDE DEF flatten
<1>8. \A n \in 1..Len(ss) : flatten[n] = IF n = 1 THEN ss[n] ELSE flatten[n - 1] \o ss[n]
  BY <1>6, Zenon
<1>. DEFINE h == [n \in 0..Len(ss) |-> IF n = 0 THEN <<>> ELSE flatten[n]]
<1>9. h[0] = f[0] /\ \A n \in 1..Len(ss) : h[n] = flatten[n] /\ (n # 1 => h[n - 1] = flatten[n - 1])
  BY <1>1, <1>4 DEF FlattenStep
<1>. HIDE DEF h
<1>10. \A n \in 1..Len(ss) : h[n - 1] = f[n - 1] => h[n] = f[n]
  BY <1>4, <1>8, <1>9 DEF FlattenStep
<1>11. Agree(h, f, Len(ss))
  BY <1>1, <1>9, <1>10, Unique
<1>12. Len(ss) \in 1..Len(ss) /\ Len(ss) \in 0..Len(ss)
  BY <1>1
<1>13. FlattenSeq(ss) = f[Len(ss)]
  BY <1>7, <1>9, <1>11, <1>12 DEF Agree
<1>. QED  BY <1>4, <1>13

\* FlattenSeq of nothing, of one sequence more, and of two lists of them.
LEMMA FlattenEmpty == FlattenSeq(<<>>) = <<>>
  BY DEF FlattenSeq

LEMMA FlattenAppend ==
  ASSUME NEW S, NEW ss \in Seq(Seq(S)), NEW e \in Seq(S)
  PROVE  /\ FlattenSeq(ss) \in Seq(S)
         /\ FlattenSeq(Append(ss, e)) = FlattenSeq(ss) \o e
<1>. DEFINE tt == Append(ss, e)
<1>1. tt \in Seq(Seq(S)) /\ Len(tt) = Len(ss) + 1 /\ Len(ss) \in Nat /\ tt[Len(ss) + 1] = e
      /\ \A i \in 1..Len(ss) : tt[i] = ss[i]
  BY AppendProperties, LenProperties
<1>. HIDE DEF tt
<1>2. PICK g \in [0..Len(tt) -> Seq(S)] : FlattenStep(g, tt) /\ FlattenSeq(tt) = g[Len(tt)]
  <2>1. Len(tt) # 0
    BY <1>1
  <2>. QED  BY <1>1, <2>1, FlattenSteps
<1>3. CASE Len(ss) = 0
  <2>1. ss = <<>>
    BY <1>3, EmptySeq
  <2>2. FlattenSeq(ss) = <<>> /\ FlattenSeq(tt) = e
    BY <1>1, <1>2, <1>3, <2>1, FlattenEmpty DEF FlattenStep
  <2>. QED  BY <2>2, EmptySeq, ConcatEmptySeq DEF tt
<1>4. CASE Len(ss) # 0
  <2>1. PICK f \in [0..Len(ss) -> Seq(S)] : FlattenStep(f, ss) /\ FlattenSeq(ss) = f[Len(ss)]
    BY <1>4, FlattenSteps
  <2>2. \A n \in 1..Len(ss) : n \in 1..Len(tt) /\ tt[n] = ss[n] /\ tt[1] = ss[1]
    BY <1>1, <1>4
  <2>3. \A n \in 1..Len(ss) : f[n - 1] = g[n - 1] => f[n] = g[n]
    BY <1>2, <2>1, <2>2 DEF FlattenStep
  <2>4. f[Len(ss)] = g[Len(ss)]
    <3>1. Len(ss) \in Nat /\ f[0] = g[0]
      BY <1>1, <1>2, <2>1 DEF FlattenStep
    <3>2. Agree(f, g, Len(ss))
      BY <3>1, <2>3, Unique
    <3>. QED  BY <3>1, <3>2 DEF Agree
  <2>5. g[Len(tt)] = g[Len(ss)] \o e
    <3>1. Len(tt) \in 1..Len(tt) /\ Len(tt) # 1 /\ Len(tt) - 1 = Len(ss) /\ tt[Len(tt)] = e
      BY <1>1, <1>4
    <3>. QED  BY <3>1, <1>2 DEF FlattenStep
  <2>6. f[Len(ss)] \in Seq(S)
    <3>1. Len(ss) \in 0..Len(ss)
      BY <1>1
    <3>. QED  BY <3>1, <2>1
  <2>. QED  BY <1>2, <2>1, <2>4, <2>5, <2>6 DEF tt
<1>. QED  BY <1>3, <1>4

LEMMA FlattenConcat ==
  ASSUME NEW S, NEW ss \in Seq(Seq(S)), NEW tt \in Seq(Seq(S))
  PROVE  FlattenSeq(ss \o tt) = FlattenSeq(ss) \o FlattenSeq(tt)
<1>. DEFINE T == {uu \in Seq(Seq(S)) : FlattenSeq(ss \o uu) = FlattenSeq(ss) \o FlattenSeq(uu)}
<1>0. \A uu \in Seq(Seq(S)) : FlattenSeq(uu) \in Seq(S)
  BY FlattenAppend, EmptySeq
<1>1. <<>> \in T
  BY <1>0, FlattenEmpty, ConcatEmptySeq, EmptySeq
<1>2. ASSUME NEW uu \in Seq(Seq(S)), NEW e \in Seq(S), uu \in T PROVE Append(uu, e) \in T
  <2>. DEFINE vv == ss \o uu
  <2>1. ss \o Append(uu, e) = Append(vv, e) /\ vv \in Seq(Seq(S)) /\ Append(uu, e) \in Seq(Seq(S))
    BY ConcatProperties, AppendProperties
  <2>2. FlattenSeq(vv) = FlattenSeq(ss) \o FlattenSeq(uu)
    BY <1>2
  <2>. HIDE DEF vv
  <2>3. FlattenSeq(Append(vv, e)) = FlattenSeq(vv) \o e /\ FlattenSeq(Append(uu, e)) = FlattenSeq(uu) \o e
    BY <2>1, FlattenAppend
  <2>4. (FlattenSeq(ss) \o FlattenSeq(uu)) \o e = FlattenSeq(ss) \o (FlattenSeq(uu) \o e)
    <3>. DEFINE a == FlattenSeq(ss)
                b == FlattenSeq(uu)
    <3>1. a \in Seq(S) /\ b \in Seq(S)
      BY <1>0
    <3>. HIDE DEF a, b
    <3>2. (a \o b) \o e = a \o (b \o e)
      BY <3>1, ConcatAssociative
    <3>. QED  BY <3>2 DEF a, b
  <2>. QED  BY <2>1, <2>2, <2>3, <2>4
<1>. HIDE DEF T
<1>3. Seq(Seq(S)) \subseteq T
  BY <1>1, <1>2, SequenceInduction
<1>. QED  BY <1>3 DEF T

----------------------------------------------------------------------------
(* The loop of WriteEncodedVideoFrame (mp4_writer.cpp, lines 109-157). *)

\* The values of the loop over a payload of members of S.
Loop(S) == [written : Seq(Seq(S)), buffer : Seq(S)]

\* What the loop does with one more NAL unit.
Unit(before, u, waits) ==
  LET units == Append(before.buffer, u)
  IN  IF u \in waits THEN [written |-> before.written, buffer |-> units]
      ELSE [written |-> Append(before.written, units), buffer |-> <<>>]

\* The recursive function in Split exists: it starts with nothing written and
\* takes one NAL unit after the other.
LEMMA SplitSteps ==
  ASSUME NEW S, NEW p \in Seq(S), NEW waits
  PROVE  /\ Split(p, waits) \in [0..Len(p) -> Loop(S)]
         /\ Split(p, waits)[0] = [written |-> <<>>, buffer |-> <<>>]
         /\ \A n \in 1..Len(p) : Split(p, waits)[n] = Unit(Split(p, waits)[n - 1], p[n], waits)
<1>. DEFINE start == [written |-> <<>>, buffer |-> <<>>]
            step == [n \in 1..Len(p) |-> [x \in Loop(S) |-> Unit(x, p[n], waits)]]
<1>1. Len(p) \in Nat /\ \A n \in 1..Len(p) : p[n] \in S
  BY LenProperties, ElementOfSeq
<1>2. step \in [1..Len(p) -> [Loop(S) -> Loop(S)]] /\ start \in Loop(S)
  <2>1. start \in Loop(S)
    BY EmptySeq DEF Loop
  <2>2. ASSUME NEW x \in Loop(S), NEW u \in S PROVE Unit(x, u, waits) \in Loop(S)
    <3>1. Append(x.buffer, u) \in Seq(S) /\ x.written \in Seq(Seq(S)) /\ <<>> \in Seq(S)
      BY AppendProperties, EmptySeq DEF Loop
    <3>. QED  BY <3>1, AppendProperties DEF Loop, Unit
  <2>. QED  BY <1>1, <2>1, <2>2
<1>. HIDE DEF start
<1>3. PICK f : Follows(f, Loop(S), Len(p), start, step)
  <2>. HIDE DEF step
  <2>. QED  BY <1>1, <1>2, Recursion
<1>4. /\ f \in [0..Len(p) -> Loop(S)] /\ f[0] = start
      /\ \A n \in 1..Len(p) : n - 1 \in 0..Len(p) /\ f[n] = Unit(f[n - 1], p[n], waits)
  BY <1>1, <1>3 DEF Follows
<1>. HIDE DEF step
<1>5. f = [n \in 0..Len(p) |-> IF n = 0 THEN start ELSE Unit(f[n - 1], p[n], waits)]
  <2>1. \A n \in 0..Len(p) : n = 0 \/ n \in 1..Len(p)
    BY <1>1
  <2>. QED  BY <1>4, <2>1
<1>. DEFINE split == CHOOSE g : g = [n \in 0..Len(p) |-> IF n = 0 THEN start ELSE Unit(g[n - 1], p[n], waits)]
<1>6. split = [n \in 0..Len(p) |-> IF n = 0 THEN start ELSE Unit(split[n - 1], p[n], waits)]
  BY <1>5, Zenon
<1>7. Split(p, waits) = split
  BY DEF Split, Unit, start
<1>. HIDE DEF split
<1>8. \A n \in 0..Len(p) : split[n] = IF n = 0 THEN start ELSE Unit(split[n - 1], p[n], waits)
  BY <1>6, Zenon
<1>9. split[0] = start /\ \A n \in 1..Len(p) : split[n] = Unit(split[n - 1], p[n], waits)
  BY <1>1, <1>8
<1>10. Agree(split, f, Len(p))
  <2>1. \A n \in 1..Len(p) : split[n - 1] = f[n - 1] => split[n] = f[n]
    BY <1>4, <1>9
  <2>. QED  BY <1>1, <1>4, <1>9, <2>1, Unique
<1>11. split \in [0..Len(p) -> Loop(S)]
  BY <1>4, <1>6, <1>10 DEF Agree
<1>. QED  BY <1>7, <1>9, <1>11 DEF start

\* The loop at the end of a payload.
End(p, waits) == Split(p, waits)[Len(p)]

\* The loop over no payload, and over one that is a NAL unit longer.
LEMMA EndEmpty ==
  ASSUME NEW waits
  PROVE  End(<<>>, waits) = [written |-> <<>>, buffer |-> <<>>]
  BY SplitSteps, EmptySeq DEF End

LEMMA EndAppend ==
  ASSUME NEW S, NEW p \in Seq(S), NEW u \in S, NEW waits
  PROVE  End(p, waits) \in Loop(S) /\ End(Append(p, u), waits) = Unit(End(p, waits), u, waits)
<1>. DEFINE q == Append(p, u)
            f == Split(p, waits)
            g == Split(q, waits)
<1>1. q \in Seq(S) /\ Len(q) = Len(p) + 1 /\ Len(p) \in Nat /\ q[Len(q)] = u
      /\ \A i \in 1..Len(p) : q[i] = p[i]
  BY AppendProperties, LenProperties
<1>. HIDE DEF q
<1>2. f \in [0..Len(p) -> Loop(S)] /\ f[0] = g[0] /\ \A n \in 1..Len(p) : f[n] = Unit(f[n - 1], p[n], waits)
  BY <1>1, SplitSteps
<1>3. \A n \in 1..Len(q) : g[n] = Unit(g[n - 1], q[n], waits)
  BY <1>1, SplitSteps
<1>. HIDE DEF f, g
<1>4. \A n \in 1..Len(p) : f[n - 1] = g[n - 1] => f[n] = g[n]
  BY <1>1, <1>2, <1>3
<1>5. Agree(f, g, Len(p))
  BY <1>1, <1>2, <1>4, Unique
<1>6. g[Len(q)] = Unit(f[Len(p)], u, waits)
  <2>1. Len(q) \in 1..Len(q) /\ Len(q) - 1 = Len(p) /\ Len(p) \in 0..Len(p)
    BY <1>1
  <2>. QED  BY <1>1, <1>3, <1>5, <2>1 DEF Agree
<1>. QED  BY <1>1, <1>2, <1>6 DEF End, f, g, q

\* What counts as recorded: all but SEI.
Picture == Kind \ {"SEI"}

\* The only NAL units that wait in video_payload_data are slices.
LEMMA OnlySlicesWait ==
  /\ Waiting \subseteq Picture /\ Picture \subseteq Kind
  /\ \A k \in Kind : k \in Waiting <=> k = "SLICE"
  BY DEF Waiting, Picture, Kind, SpsKinds, PpsKinds

\* Only leaves a sequence alone whose members are all in the set.
LEMMA OnlyAll ==
  ASSUME NEW kept, NEW s \in Seq(kept)
  PROVE  Only(s, kept) = s
<1>. DEFINE T == {t \in Seq(kept) : Only(t, kept) = t}
<1>1. <<>> \in T
  BY OnlyEmpty, EmptySeq
<1>2. ASSUME NEW t \in Seq(kept), NEW e \in kept, t \in T PROVE Append(t, e) \in T
  BY <1>2, OnlyAppend, AppendProperties
<1>. HIDE DEF T
<1>3. Seq(kept) \subseteq T
  BY <1>1, <1>2, SequenceInduction
<1>. QED  BY <1>3 DEF T

\* The NAL units that are in the file once some groups have been written.
InFile(groups) == Only(FlattenSeq(Only(groups, Sample)), Picture)

\* One more group: WriteH264Frame takes all of it or, if it starts with SEI, none.
LEMMA InFileAppend ==
  ASSUME NEW groups \in Seq(Seq(Kind)), NEW g \in Seq(Kind)
  PROVE  /\ InFile(groups) \in Seq(Kind)
         /\ InFile(Append(groups, g)) = IF g \in Sample THEN InFile(groups) \o Only(g, Picture)
                                        ELSE InFile(groups)
<1>1. Only(groups, Sample) \in Seq(Seq(Kind))
  BY OnlyIn
<1>. DEFINE a == Only(groups, Sample)
            b == FlattenSeq(a)
<1>2. b \in Seq(Kind) /\ FlattenSeq(Append(a, g)) = b \o g
  BY <1>1, FlattenAppend
<1>3. Only(Append(groups, g), Sample) = IF g \in Sample THEN Append(a, g) ELSE a
  BY OnlyAppend
<1>. HIDE DEF a, b
<1>4. Only(b \o g, Picture) = Only(b, Picture) \o Only(g, Picture)
  BY <1>2, OnlyConcat
<1>5. Only(b, Picture) \in Seq(Kind)
  BY <1>2, OnlyIn
<1>. QED  BY <1>2, <1>3, <1>4, <1>5 DEF InFile, a, b

\* The file and the buffer hold what came, but for SEI.  Only slices wait.
Keeps(x, p) ==
  /\ x.written \in Seq(Seq(Kind))
  /\ x.buffer \in Seq(Waiting)
  /\ InFile(x.written) \o x.buffer = Only(p, Picture)

\* At every NAL unit of the payload the loop has written, or still holds, all
\* that came before in its order, SEI apart.
LEMMA LoopKeepsAll ==
  ASSUME NEW p \in Seq(Kind)
  PROVE  Keeps(End(p, Waiting), p)
<1>. DEFINE T == {q \in Seq(Kind) : Keeps(End(q, Waiting), q)}
<1>1. <<>> \in T
  <2>1. End(<<>>, Waiting) = [written |-> <<>>, buffer |-> <<>>]
    BY EndEmpty
  <2>2. InFile(<<>>) = <<>>
    BY OnlyEmpty, FlattenEmpty DEF InFile
  <2>3. Keeps([written |-> <<>>, buffer |-> <<>>], <<>>)
    BY <2>2, OnlyEmpty, EmptySeq, ConcatEmptySeq DEF Keeps
  <2>. QED  BY <2>1, <2>3, EmptySeq
<1>2. ASSUME NEW q \in Seq(Kind), NEW k \in Kind, q \in T PROVE Append(q, k) \in T
  <2>. DEFINE w == End(q, Waiting).written
              b == End(q, Waiting).buffer
              units == Append(b, k)
              x == InFile(w)
  <2>1. w \in Seq(Seq(Kind)) /\ b \in Seq(Kind) /\ b \in Seq(Waiting) /\ x \o b = Only(q, Picture)
    <3>1. End(q, Waiting) \in Loop(Kind)
      BY EndAppend
    <3>. QED  BY <1>2, <3>1 DEF Keeps, Loop
  <2>2. /\ End(Append(q, k), Waiting) = IF k = "SLICE" THEN [written |-> w, buffer |-> units]
                               ELSE [written |-> Append(w, units), buffer |-> <<>>]
        /\ Append(q, k) \in Seq(Kind)
    <3>1. End(Append(q, k), Waiting) = Unit(End(q, Waiting), k, Waiting)
      BY EndAppend
    <3>2. k \in Waiting <=> k = "SLICE"
      BY OnlySlicesWait
    <3>. QED  BY <3>1, <3>2, AppendProperties DEF Unit
  <2>3. Only(Append(q, k), Picture) = IF k \in Picture THEN Append(x \o b, k) ELSE x \o b
    <3>1. Only(Append(q, k), Picture) = IF k \in Picture THEN Append(Only(q, Picture), k) ELSE Only(q, Picture)
      BY OnlyAppend
    <3>. HIDE DEF x, b
    <3>. QED  BY <2>1, <3>1
  <2>4. x \in Seq(Kind) /\ units \in Seq(Kind) /\ Append(w, units) \in Seq(Seq(Kind))
    BY <2>1, InFileAppend, AppendProperties
  <2>5. Only(b, Picture) = b
    <3>1. b \in Seq(Picture)
      BY <2>1, SeqMonotonic, OnlySlicesWait
    <3>. QED  BY <3>1, OnlyAll
  <2>6. Only(units, Picture) = IF k \in Picture THEN units ELSE b
    <3>. HIDE DEF b
    <3>1. Only(Append(b, k), Picture) = IF k \in Picture THEN Append(Only(b, Picture), k) ELSE Only(b, Picture)
      <4>1. b \in Seq(Kind) /\ k \in Kind
        BY <2>1
      <4>. QED  BY <4>1, OnlyAppend
    <3>. QED  BY <2>5, <3>1
  <2>7. Append(x \o b, k) = x \o units
    <3>. HIDE DEF x, b
    <3>1. Append(x \o b, k) = (x \o b) \o <<k>> /\ Append(b, k) = b \o <<k>> /\ <<k>> \in Seq(Kind)
      BY <2>1, <2>4, AppendIsConcat, ConcatProperties
    <3>. QED  BY <3>1, <2>1, <2>4, ConcatAssociative
  <2>8. InFile(Append(w, units)) = IF units \in Sample THEN x \o Only(units, Picture) ELSE x
    BY <2>1, <2>4, InFileAppend
  <2>9. CASE k = "SLICE"
    <3>1. units \in Seq(Waiting) /\ k \in Picture
      BY <2>9, <2>1, AppendProperties, OnlySlicesWait
    <3>. HIDE DEF x, w, b, units
    <3>2. Keeps([written |-> w, buffer |-> units], Append(q, k))
      BY <2>1, <2>3, <2>7, <3>1 DEF Keeps, x
    <3>. QED  BY <2>2, <2>9, <3>2
  <2>10. CASE k # "SLICE"
    <3>1. units \notin Sample => k = "SEI" /\ b = <<>>
      <4>1. CASE b = <<>>
        BY <4>1, <2>4 DEF Sample
      <4>2. CASE b # <<>>
        <5>1. units[1] = "SLICE"
          BY <4>2, <2>1, EmptySeq, AppendProperties, ElementOfSeq, OnlySlicesWait
        <5>. QED  BY <5>1, <2>4 DEF Sample
      <4>. QED  BY <4>1, <4>2
    <3>2. k \notin Picture <=> k = "SEI"
      BY DEF Picture
    <3>. DEFINE y == InFile(Append(w, units))
    <3>3. y = Only(Append(q, k), Picture) /\ y \in Seq(Kind)
      <4>. HIDE DEF x, w, b, units
      <4>1. CASE units \in Sample
        BY <4>1, <2>1, <2>3, <2>4, <2>6, <2>7, <2>8, ConcatProperties
      <4>2. CASE units \notin Sample
        BY <4>2, <3>1, <3>2, <2>1, <2>3, <2>4, <2>8, ConcatEmptySeq
      <4>. QED  BY <4>1, <4>2
    <3>. HIDE DEF x, w, b, units
    <3>4. End(Append(q, k), Waiting) = [written |-> Append(w, units), buffer |-> <<>>]
      BY <2>2, <2>10
    <3>5. y \o <<>> = y /\ <<>> \in Seq(Waiting) /\ <<>> \in Seq(Kind)
      BY <3>3, ConcatEmptySeq, EmptySeq
    <3>. HIDE DEF y
    <3>6. Keeps([written |-> Append(w, units), buffer |-> <<>>], Append(q, k))
      BY <2>4, <3>3, <3>5 DEF Keeps, y
    <3>. QED  BY <2>2, <3>4, <3>6
  <2>. QED  BY <2>9, <2>10
<1>. HIDE DEF T
<1>3. Seq(Kind) \subseteq T
  BY <1>1, <1>2, SequenceInduction
<1>. QED  BY <1>3 DEF T

\* A whole payload: what the groups put into the file is the payload but for SEI.
LEMMA GroupsAre ==
  ASSUME NEW p \in Seq(Kind)
  PROVE  Groups(p, Waiting) \in Seq(Seq(Kind)) /\ InFile(Groups(p, Waiting)) = Only(p, Picture)
<1>. DEFINE w == End(p, Waiting).written
            b == End(p, Waiting).buffer
<1>1. /\ w \in Seq(Seq(Kind)) /\ b \in Seq(Waiting)
      /\ InFile(w) \o b = Only(p, Picture)
  BY LoopKeepsAll DEF Keeps
<1>2. Groups(p, Waiting) = IF b = <<>> THEN w ELSE Append(w, b)
  BY DEF Groups, End
<1>. HIDE DEF w, b
<1>3. b \in Seq(Kind) /\ b \in Seq(Picture) /\ InFile(w) \in Seq(Kind)
  BY <1>1, SeqMonotonic, InFileAppend, OnlySlicesWait
<1>4. CASE b = <<>>
  BY <1>1, <1>2, <1>3, <1>4, ConcatEmptySeq
<1>5. CASE b # <<>>
  <2>1. b[1] = "SLICE"
    <3>1. b[1] \in Waiting /\ b[1] \in Kind
      BY <1>1, <1>3, <1>5, EmptySeq, ElementOfSeq
    <3>. QED  BY <3>1, OnlySlicesWait
  <2>2. b \in Sample
    BY <1>3, <2>1 DEF Sample
  <2>3. Only(b, Picture) = b
    BY <1>3, OnlyAll
  <2>4. InFile(Append(w, b)) = InFile(w) \o b
    BY <1>1, <1>3, <2>2, <2>3, InFileAppend
  <2>. QED  BY <1>1, <1>2, <1>3, <1>5, <2>4, AppendProperties
<1>. QED  BY <1>4, <1>5

\* The first member of a sequence, once there is one, stays the first.
LEMMA AppendFirst ==
  ASSUME NEW S, NEW s \in Seq(S), NEW e \in S
  PROVE  Append(s, e) \in Seq(S) /\ Append(s, e) # <<>> /\ Append(s, e)[1] = IF s = <<>> THEN e ELSE s[1]
<1>1. s # <<>> => 1 \in 1..Len(s)
  BY EmptySeq
<1>2. s = <<>> => Len(s) + 1 = 1
  BY EmptySeq
<1>. QED  BY <1>1, <1>2, AppendProperties

\* The first group starts with the first NAL unit of the payload.
Starts(x, k) ==
  IF x.written = <<>> THEN x.buffer # <<>> /\ x.buffer[1] = k ELSE x.written[1][1] = k

\* A payload that starts with a parameter set has a group that starts with it.
LEMMA FirstGroup ==
  ASSUME NEW p \in Seq(Kind), p # <<>>
  PROVE  Groups(p, Waiting) # <<>> /\ Groups(p, Waiting)[1][1] = p[1]
<1>. DEFINE T == {q \in Seq(Kind) : q # <<>> => Starts(End(q, Waiting), q[1])}
<1>1. <<>> \in T
  BY EmptySeq
<1>2. ASSUME NEW q \in Seq(Kind), NEW k \in Kind, q \in T PROVE Append(q, k) \in T
  <2>. DEFINE r == Append(q, k)
              w == End(q, Waiting).written
              b == End(q, Waiting).buffer
              units == Append(b, k)
  <2>1. w \in Seq(Seq(Kind)) /\ b \in Seq(Kind)
    BY EndAppend DEF Loop
  <2>2. End(r, Waiting) = IF k = "SLICE" THEN [written |-> w, buffer |-> units]
                 ELSE [written |-> Append(w, units), buffer |-> <<>>]
    <3>1. End(Append(q, k), Waiting) = Unit(End(q, Waiting), k, Waiting)
      BY EndAppend
    <3>2. k \in Waiting <=> k = "SLICE"
      BY OnlySlicesWait
    <3>. QED  BY <3>1, <3>2 DEF Unit, r
  <2>3. r \in Seq(Kind) /\ r[1] = IF q = <<>> THEN k ELSE q[1]
    BY AppendFirst
  <2>4. q = <<>> => w = <<>> /\ b = <<>>
    BY EndEmpty
  <2>5. q # <<>> => IF w = <<>> THEN b # <<>> /\ b[1] = q[1] ELSE w[1][1] = q[1]
    BY <1>2 DEF Starts
  <2>6. units \in Seq(Kind) /\ units # <<>> /\ units[1] = IF b = <<>> THEN k ELSE b[1]
    <3>. HIDE DEF b
    <3>. QED  BY <2>1, AppendFirst
  <2>7. Append(w, units) # <<>> /\ Append(w, units)[1] = IF w = <<>> THEN units ELSE w[1]
    <3>. HIDE DEF w, units
    <3>. QED  BY <2>1, <2>6, AppendFirst
  <2>. HIDE DEF r, w, b, units
  <2>8. Starts(End(r, Waiting), r[1])
    BY <2>2, <2>3, <2>4, <2>5, <2>6, <2>7 DEF Starts
  <2>. QED  BY <2>3, <2>8 DEF r
<1>. HIDE DEF T
<1>3. Seq(Kind) \subseteq T
  BY <1>1, <1>2, SequenceInduction
<1>4. Starts(End(p, Waiting), p[1]) /\ End(p, Waiting).written \in Seq(Seq(Kind)) /\ End(p, Waiting).buffer \in Seq(Kind)
  BY <1>3, EndAppend DEF T, Loop
<1>. DEFINE w == End(p, Waiting).written
            b == End(p, Waiting).buffer
<1>5. Groups(p, Waiting) = IF b = <<>> THEN w ELSE Append(w, b)
  BY DEF Groups, End
<1>6. w \in Seq(Seq(Kind)) /\ b \in Seq(Kind)
  BY <1>4
<1>. HIDE DEF w, b
<1>7. Append(w, b) # <<>> /\ Append(w, b)[1] = IF w = <<>> THEN b ELSE w[1]
  BY <1>6, AppendFirst
<1>. QED  BY <1>4, <1>5, <1>7 DEF Starts, w, b

----------------------------------------------------------------------------
(* The click: the inductive invariant. *)

\* The variables are functions on the sessions; the flags and counters in them
\* have their types.
Shape ==
  /\ sessions \in 0..MaxSessions
  /\ closeWriter \in BOOLEAN
  /\ writer = [s \in Session |-> writer[s]]
  /\ pc = [s \in Session |-> pc[s]]
  /\ given = [s \in Session |-> given[s]]
  /\ late \in [Session -> Nat]
  /\ stale = [s \in Session |-> stale[s]]

\* A thread about to write has written nothing since the click.
Counted ==
  \A s \in Session :
    /\ late[s] <= 1
    /\ (~closeWriter \/ pc[s] = "write") => late[s] = 0

\* A session made after the click never gets to write.
Silent ==
  \A s \in Session : stale[s] => closeWriter /\ Len(given[s]) = 2 /\ pc[s] # "write"

\* A thread closes only what it has seen the flag for.
Closing ==
  \A s \in Session :
    /\ pc[s] = "close" => closeWriter
    /\ s > sessions => writer[s].handle = "none" /\ pc[s] = "off"
    /\ writer[s].handle = "closed" => closeWriter /\ pc[s] # "write"

\* A writer is a record with a handle.
Records == \A s \in Session : writer[s] = [f \in DOMAIN NewWriter |-> writer[s][f]]

IInv == Shape /\ Records /\ Counted /\ Silent /\ Closing

\* Whatever a payload holds, writing it leaves the handle of the writer alone.
LEMMA WriteKeepsHandle ==
  ASSUME NEW w, NEW p, NEW full, w = [f \in DOMAIN NewWriter |-> w[f]]
  PROVE  LET v == WriteEncodedVideoFrame(w, p, full)
         IN  v.handle = w.handle /\ v = [f \in DOMAIN NewWriter |-> v[f]]
<1>1. CASE MayStart(w, p) /\ w.handle = "open"
  <2>1. PICK a, b, c : WriteEncodedVideoFrame(w, p, full) =
                       [w EXCEPT !.first = FALSE, !.sps = a, !.pps = b, !.samples = c]
    BY <1>1, Zenon DEF WriteEncodedVideoFrame
  <2>2. QED
    BY <2>1 DEF NewWriter
<1>2. CASE ~(MayStart(w, p) /\ w.handle = "open")
  BY <1>2 DEF WriteEncodedVideoFrame
<1>3. QED
  BY <1>1, <1>2

\* Opening leaves a writer without a handle or with an open one.
LEMMA OpenedHandle ==
  ASSUME NEW created
  PROVE  LET v == DoStartRecord(NewWriter, created)
         IN  v.handle \in {"none", "open"} /\ v = [f \in DOMAIN NewWriter |-> v[f]]
  BY DEF DoStartRecord, NewWriter

\* Closing changes an open handle only.
LEMMA StopHandle ==
  ASSUME NEW w, w = [f \in DOMAIN NewWriter |-> w[f]]
  PROVE  LET v == DoStopRecord(w)
         IN  /\ v.handle = (IF w.handle = "open" THEN "closed" ELSE w.handle)
             /\ v = [f \in DOMAIN NewWriter |-> v[f]]
             /\ w.handle # "open" => v = w
  BY DEF DoStopRecord, NewWriter

\* The invariant holds at the start.
LEMMA InitInv == Init => IInv
<1> SUFFICES ASSUME Init PROVE IInv
  OBVIOUS
<1>1. Shape
  <2>1. sessions \in 0..MaxSessions /\ late \in [Session -> Nat]
    BY PayloadsAssumption DEF Init, PayloadsAssumption
  <2>2. closeWriter \in BOOLEAN
    BY DEF Init
  <2>3. /\ writer = [s \in Session |-> writer[s]] /\ pc = [s \in Session |-> pc[s]]
        /\ given = [s \in Session |-> given[s]] /\ stale = [s \in Session |-> stale[s]]
    BY DEF Init
  <2>4. QED
    BY <2>1, <2>2, <2>3 DEF Shape
<1>2. Records /\ Counted /\ Silent /\ Closing
  BY DEF Init, Records, Counted, Silent, Closing, NewWriter, Session
<1>3. QED
  BY <1>1, <1>2 DEF IInv

\* A new session: its writer is made, and only its writer.
LEMMA SurfaceCreatedInv == IInv /\ SurfaceCreated => IInv'
<1> SUFFICES ASSUME IInv, SurfaceCreated PROVE IInv'
  OBVIOUS
<1> DEFINE new == sessions + 1
<1> USE DEF IInv
<1>1. /\ new \in Session /\ sessions' = new
      /\ pc' = [pc EXCEPT ![new] = "check"]
      /\ stale' = [stale EXCEPT ![new] = closeWriter]
      /\ UNCHANGED <<closeWriter, payload, diskFull, late>>
  BY PayloadsAssumption DEF SurfaceCreated, Shape, Session, PayloadsAssumption
<1>2. PICK created \in BOOLEAN, sps \in SpsPayload, pps \in PpsPayload :
        /\ writer' = [writer EXCEPT ![new] = WriteEncodedVideoFrame(
             WriteEncodedVideoFrame(DoStartRecord(NewWriter, created), sps, diskFull),
             pps, diskFull)]
        /\ given' = [given EXCEPT ![new] = <<sps, pps>>]
  BY Zenon DEF SurfaceCreated
<1>3. writer'[new].handle \in {"none", "open"}
      /\ writer'[new] = [f \in DOMAIN NewWriter |-> writer'[new][f]]
  <2> DEFINE opened == DoStartRecord(NewWriter, created)
             half   == WriteEncodedVideoFrame(opened, sps, diskFull)
             full   == WriteEncodedVideoFrame(half, pps, diskFull)
  <2>1. opened.handle \in {"none", "open"} /\ opened = [f \in DOMAIN NewWriter |-> opened[f]]
    BY OpenedHandle
  <2> HIDE DEF opened
  <2>2. half.handle = opened.handle /\ half = [f \in DOMAIN NewWriter |-> half[f]]
    BY <2>1, WriteKeepsHandle
  <2> HIDE DEF half
  <2>3. full.handle = half.handle /\ full = [f \in DOMAIN NewWriter |-> full[f]]
    BY <2>2, WriteKeepsHandle
  <2> HIDE DEF full
  <2>4. writer' = [writer EXCEPT ![new] = full]
    BY <1>2 DEF opened, half, full
  <2>5. writer'[new] = full
    BY <2>4, <1>1 DEF Shape
  <2>6. QED
    BY <2>1, <2>2, <2>3, <2>5
<1>4. \A s \in Session : s # new => writer'[s] = writer[s] /\ pc'[s] = pc[s]
                                    /\ given'[s] = given[s] /\ stale'[s] = stale[s]
  BY <1>1, <1>2 DEF Shape
<1>5. /\ pc'[new] = "check" /\ stale'[new] = closeWriter /\ Len(given'[new]) = 2
  BY <1>1, <1>2 DEF Shape
<1>6. Shape'
  <2>1. sessions' \in 0..MaxSessions
    BY <1>1, PayloadsAssumption DEF Session, PayloadsAssumption
  <2>2. closeWriter' \in BOOLEAN /\ late' \in [Session -> Nat]
    BY <1>1 DEF Shape
  <2>3. /\ writer' = [s \in Session |-> writer'[s]] /\ given' = [s \in Session |-> given'[s]]
    BY <1>2 DEF Shape
  <2>4. /\ pc' = [s \in Session |-> pc'[s]] /\ stale' = [s \in Session |-> stale'[s]]
    BY <1>1 DEF Shape
  <2>5. QED
    BY <2>1, <2>2, <2>3, <2>4 DEF Shape
<1>7. Records'
  BY <1>3, <1>4 DEF Records
<1>8. Counted'
  BY <1>1, <1>4, <1>5 DEF Counted
<1>9. Silent'
  BY <1>1, <1>4, <1>5 DEF Silent
<1>10. Closing'
  BY <1>1, <1>3, <1>4, <1>5 DEF Closing, Shape, Session
<1>11. QED
  BY <1>6, <1>7, <1>8, <1>9, <1>10

\* A click, and the disk filling up: no thread moves.
LEMMA ClickInv == IInv /\ (Click \/ DiskFills) => IInv'
<1> SUFFICES ASSUME IInv, Click \/ DiskFills PROVE IInv'
  OBVIOUS
<1>1. Shape' /\ Records'
  BY DEF IInv, Click, DiskFills, Shape, Records
<1>2. Counted' /\ Silent' /\ Closing'
  BY DEF IInv, Click, DiskFills, Counted, Silent, Closing
<1>3. QED
  BY <1>1, <1>2 DEF IInv

\* The steps of one Decode thread.
LEMMA RecordInv == ASSUME IInv, NEW s \in Session, Record(s) PROVE IInv'
<1> USE DEF IInv
<1>1. CASE CheckFlag(s)
  <2>1. Shape' /\ Records'
    BY <1>1 DEF CheckFlag, Shape, Records
  <2>2. Counted'
    BY <1>1 DEF CheckFlag, Shape, Counted
  <2>3. Silent' /\ Closing'
    BY <1>1 DEF CheckFlag, Shape, Silent, Closing
  <2>4. QED
    BY <2>1, <2>2, <2>3
<1>2. CASE WriteFrame(s)
  <2>1. /\ writer'[s].handle = writer[s].handle
        /\ writer'[s] = [f \in DOMAIN NewWriter |-> writer'[s][f]]
    <3>1. writer'[s] = WriteEncodedVideoFrame(writer[s], payload[s], diskFull)
      BY <1>2 DEF WriteFrame, Shape
    <3> DEFINE w == writer[s]
    <3>2. w = [f \in DOMAIN NewWriter |-> w[f]]
      BY DEF Records
    <3> HIDE DEF w
    <3>3. LET v == WriteEncodedVideoFrame(w, payload[s], diskFull)
          IN  v.handle = w.handle /\ v = [f \in DOMAIN NewWriter |-> v[f]]
      BY <3>2, WriteKeepsHandle
    <3>4. QED
      BY <3>1, <3>3 DEF w
  <2>2. Shape'
    <3>1. late' \in [Session -> Nat]
      BY <1>2 DEF WriteFrame, Shape
    <3>2. sessions' \in 0..MaxSessions /\ closeWriter' \in BOOLEAN
      BY <1>2 DEF WriteFrame, Shape
    <3>3. /\ writer' = [t \in Session |-> writer'[t]] /\ given' = [t \in Session |-> given'[t]]
          /\ pc' = [t \in Session |-> pc'[t]] /\ stale' = [t \in Session |-> stale'[t]]
      BY <1>2 DEF WriteFrame, Shape
    <3>4. QED
      BY <3>1, <3>2, <3>3 DEF Shape
  <2>3. Records'
    BY <1>2, <2>1 DEF WriteFrame, Shape, Records
  <2>4. Counted'
    BY <1>2 DEF WriteFrame, Shape, Counted
  <2>5. Silent' /\ Closing'
    BY <1>2, <2>1 DEF WriteFrame, Shape, Silent, Closing
  <2>6. QED
    BY <2>2, <2>3, <2>4, <2>5
<1>3. CASE Close(s) \/ SourceEnds(s)
  <2>1. /\ writer'[s] = writer[s] \/ (closeWriter /\ writer'[s] = DoStopRecord(writer[s]))
        /\ writer' = [writer EXCEPT ![s] = writer'[s]]
    BY <1>3 DEF Close, SourceEnds, Shape, Closing
  <2>2. /\ writer'[s] = [f \in DOMAIN NewWriter |-> writer'[s][f]]
        /\ writer'[s].handle = "none" \/ writer'[s].handle = writer[s].handle \/ closeWriter
        /\ writer[s].handle = "none" => writer'[s].handle = "none"
    BY <2>1, StopHandle DEF Records
  <2>3. Shape' /\ Records'
    BY <1>3, <2>1, <2>2 DEF Close, SourceEnds, Shape, Records
  <2>4. Counted'
    BY <1>3 DEF Close, SourceEnds, Shape, Counted
  <2>5. Silent' /\ Closing'
    BY <1>3, <2>1, <2>2 DEF Close, SourceEnds, Shape, Silent, Closing
  <2>6. QED
    BY <2>3, <2>4, <2>5
<1>4. QED
  BY <1>1, <1>2, <1>3 DEF Record

\* Every step keeps the invariant.
LEMMA NextInv == IInv /\ [Next]_vars => IInv'
<1> SUFFICES ASSUME IInv, [Next]_vars PROVE IInv'
  OBVIOUS
<1>1. CASE UNCHANGED vars
  <2>1. Shape' /\ Records'
    BY <1>1 DEF IInv, vars, Shape, Records
  <2>2. Counted' /\ Silent' /\ Closing'
    BY <1>1 DEF IInv, vars, Counted, Silent, Closing
  <2>3. QED
    BY <2>1, <2>2 DEF IInv
<1>2. CASE Next
  BY <1>2, SurfaceCreatedInv, ClickInv, RecordInv DEF Next
<1>3. QED
  BY <1>1, <1>2

\* The strengthened invariant holds of every behaviour.
THEOREM Invariance == Spec => []IInv
  BY InitInv, NextInv, PTL DEF Spec

\* After a click a Decode thread writes at most the one payload for which it
\* had read closeWriter before (StreamCodec.java, lines 289-293).
THEOREM OneAfterClick == Spec => []AtMostOneAfterClick
<1>1. IInv => AtMostOneAfterClick
  BY DEF IInv, Counted, AtMostOneAfterClick
<1>2. QED
  BY <1>1, Invariance, PTL

\* closeWriter is static and stays set: a session made after a click hands its
\* writer the two parameter sets of initMediaCodec and nothing else.
THEOREM StaleSessionSilent == Spec => []OldClickRecordsNothing
<1>1. IInv => OldClickRecordsNothing
  <2> SUFFICES ASSUME IInv, NEW s \in 1..sessions, stale[s] PROVE Len(given[s]) = 2
    BY DEF OldClickRecordsNothing
  <2>1. s \in Session
    BY PayloadsAssumption DEF IInv, Shape, Session, PayloadsAssumption
  <2>2. QED
    BY <2>1 DEF IInv, Silent
<1>2. QED
  BY <1>1, Invariance, PTL

\* A file that has been closed stays as it is, however often the Decode thread
\* closes it again.
THEOREM ClosedStaysClosed == Spec => FinalIsFinal
<1>1. ASSUME IInv, [Next]_vars
      PROVE  [\A s \in Session : writer[s].handle = "closed" => writer'[s] = writer[s]]_writer
  <2> SUFFICES ASSUME NEW s \in Session, writer[s].handle = "closed"
               PROVE  writer'[s] = writer[s]
    OBVIOUS
  <2>1. /\ closeWriter /\ pc[s] # "write" /\ s <= sessions
        /\ DoStopRecord(writer[s]) = writer[s]
    <3>1. closeWriter /\ pc[s] # "write"
      BY <1>1 DEF IInv, Closing
    <3>2. s <= sessions
      BY <1>1, PayloadsAssumption DEF IInv, Closing, Shape, Session, PayloadsAssumption
    <3>3. DoStopRecord(writer[s]) = writer[s]
      BY <1>1, StopHandle DEF IInv, Records
    <3>4. QED
      BY <3>1, <3>2, <3>3
  <2>2. CASE SurfaceCreated
    <3>1. s # sessions + 1
      BY <2>1, <1>1 DEF IInv, Shape, Session
    <3>2. PICK v : writer' = [writer EXCEPT ![sessions + 1] = v]
      BY <2>2, Zenon DEF SurfaceCreated
    <3>3. QED
      BY <3>1, <3>2, <1>1 DEF IInv, Shape
  <2>3. CASE Click \/ DiskFills \/ UNCHANGED vars
    BY <2>3 DEF Click, DiskFills, vars
  <2>4. ASSUME NEW t \in Session, Record(t) PROVE writer'[s] = writer[s]
    <3>1. CASE CheckFlag(t)
      BY <3>1 DEF CheckFlag
    <3>2. CASE WriteFrame(t)
      BY <3>2, <2>1, <1>1 DEF WriteFrame, IInv, Shape
    <3>3. CASE Close(t) \/ SourceEnds(t)
      BY <3>3, <2>1, <1>1 DEF Close, SourceEnds, IInv, Shape
    <3>4. QED
      BY <2>4, <3>1, <3>2, <3>3 DEF Record
  <2>5. QED
    BY <1>1, <2>2, <2>3, <2>4 DEF Next
<1>2. QED
  BY <1>1, Invariance, PTL DEF Spec, FinalIsFinal

----------------------------------------------------------------------------
(* What the file holds. *)

\* A thread about to write has a payload of the stream in hand.
Typed ==
  /\ TypeOK
  /\ \A s \in Session : pc[s] = "write" => payload[s] \in Payloads

\* Without a handle nothing has been written.  With one the file holds all
\* pictures while the disk has room, and the parameter sets that came first.
Sound(w, g, full) ==
  /\ Len(g) >= 2
  /\ w.handle = "none" => w.samples = <<>>
  /\ w.handle # "none" =>
       /\ ~w.first
       /\ Head(g[1]) = "SPS" => w.sps
       /\ Head(g[2]) = "PPS" => w.pps
       /\ IF full THEN IsPrefix(Pictures(w.samples), Pictures(g))
                  ELSE Pictures(w.samples) = Pictures(g)

Recording == \A s \in 1..sessions : Sound(writer[s], given[s], diskFull)

\* All of it together is inductive.
FileInv == IInv /\ Typed /\ Recording

\* Prefixes: of everything, of oneself, and of what grows at the end.
LEMMA PrefixFacts ==
  ASSUME NEW S, NEW a \in Seq(S), NEW b \in Seq(S), NEW c \in Seq(S)
  PROVE  IsPrefix(<<>>, a) /\ IsPrefix(a, a) /\ (IsPrefix(a, b) => IsPrefix(a, b \o c))
<1>1. Len(a) \in Nat /\ Len(b) \in Nat /\ Len(<<>>) = 0 /\ Len(b \o c) = Len(b) + Len(c) /\ Len(c) \in Nat
  BY ConcatProperties, LenProperties, EmptySeq
<1>2. IsPrefix(<<>>, a)
  BY <1>1, SubSeqEmpty DEF IsPrefix
<1>3. IsPrefix(a, a)
  BY <1>1 DEF IsPrefix
<1>4. ASSUME IsPrefix(a, b) PROVE IsPrefix(a, b \o c)
  <2>1. CASE Len(a) = 0
    BY <1>1, <2>1, SubSeqEmpty DEF IsPrefix
  <2>2. CASE Len(a) # 0
    <3>1. 1 \in 1..Len(b) /\ Len(a) \in 1..Len(b)
      BY <1>1, <1>4, <2>2 DEF IsPrefix
    <3>2. SubSeq(b \o c, 1, Len(a)) = SubSeq(b, 1, Len(a))
      BY <3>1, SubSeqOfConcat1
    <3>. QED  BY <1>1, <1>4, <3>2 DEF IsPrefix
  <2>. QED  BY <2>1, <2>2
<1>. QED  BY <1>2, <1>3, <1>4

\* What has been handed over, and what a payload adds to the file.
LEMMA PicturesGrow ==
  ASSUME NEW ss \in Seq(Seq(Kind)), NEW p \in Seq(Kind)
  PROVE  /\ Pictures(ss) \in Seq(Kind) /\ Only(p, Picture) \in Seq(Kind)
         /\ Pictures(Append(ss, p)) = Pictures(ss) \o Only(p, Picture)
         /\ Pictures(ss \o Only(Groups(p, Waiting), Sample)) = Pictures(ss) \o Only(p, Picture)
<1>. DEFINE a == FlattenSeq(ss)
            more == Only(Groups(p, Waiting), Sample)
            b == FlattenSeq(more)
<1>1. Groups(p, Waiting) \in Seq(Seq(Kind)) /\ Only(b, Picture) = Only(p, Picture)
  BY GroupsAre DEF InFile
<1>2. more \in Seq(Seq(Kind))
  BY <1>1, OnlyIn
<1>3. a \in Seq(Kind) /\ FlattenSeq(Append(ss, p)) = a \o p
  BY FlattenAppend
<1>. HIDE DEF more
<1>4. b \in Seq(Kind) /\ FlattenSeq(ss \o more) = a \o b
  BY <1>2, FlattenAppend, FlattenConcat
<1>. HIDE DEF a, b
<1>5. Only(a, Picture) \in Seq(Kind) /\ Only(p, Picture) \in Seq(Kind)
  BY <1>3, OnlyIn
<1>6. Only(a \o p, Picture) = Only(a, Picture) \o Only(p, Picture)
  BY <1>3, OnlyConcat
<1>7. Only(a \o b, Picture) = Only(a, Picture) \o Only(b, Picture)
  BY <1>3, <1>4, OnlyConcat
<1>8. \A xs : Pictures(xs) = Only(FlattenSeq(xs), Picture)
  BY DEF Pictures, Picture
<1>. QED  BY <1>1, <1>3, <1>4, <1>5, <1>6, <1>7, <1>8 DEF a, more

\* A parameter set at the start of a payload reaches the configuration.
LEMMA FirstConfigures ==
  ASSUME NEW p \in Seq(Kind), p # <<>>
  PROVE  Configures(Groups(p, Waiting), p[1])
<1>1. Groups(p, Waiting) \in Seq(Seq(Kind)) /\ Groups(p, Waiting) # <<>> /\ Groups(p, Waiting)[1][1] = p[1]
  BY GroupsAre, FirstGroup
<1>2. 1 \in DOMAIN Groups(p, Waiting)
  BY <1>1, EmptySeq, LenProperties
<1>. QED  BY <1>1, <1>2 DEF Configures

\* Writing a payload, as far as the properties look at it.
LEMMA Writes ==
  ASSUME NEW w \in Writer, NEW p \in Payloads, NEW full \in BOOLEAN
  PROVE  LET v == WriteEncodedVideoFrame(w, p, full)
         IN  /\ v \in Writer
             /\ v.handle = w.handle
             /\ w.handle # "open" => v = w
             /\ w.handle = "open" /\ (w.first => Head(p) \in SpsKinds) =>
                  /\ ~v.first
                  /\ w.sps \/ Head(p) = "SPS" => v.sps
                  /\ w.pps \/ Head(p) = "PPS" => v.pps
                  /\ Pictures(v.samples) = IF full THEN Pictures(w.samples)
                                           ELSE Pictures(w.samples) \o Only(p, Picture)
<1>. DEFINE groups == Groups(p, Waiting)
            more == Only(groups, Sample)
            samples == IF full THEN w.samples ELSE w.samples \o more
            v == WriteEncodedVideoFrame(w, p, full)
<1>1. p \in Seq(Kind) /\ p # <<>> /\ Head(p) = p[1]
  BY PayloadsAssumption DEF PayloadsAssumption
<1>2. groups \in Seq(Seq(Kind)) /\ Configures(groups, p[1])
  BY <1>1, GroupsAre, FirstConfigures
<1>3. w.samples \in Seq(Seq(Kind)) /\ w.first \in BOOLEAN /\ w.sps \in BOOLEAN /\ w.pps \in BOOLEAN
  BY DEF Writer
<1>4. v = IF MayStart(w, p) /\ w.handle = "open"
            THEN [w EXCEPT !.first = FALSE, !.sps = @ \/ Configures(groups, "SPS"),
                           !.pps = @ \/ Configures(groups, "PPS"), !.samples = samples]
            ELSE w
  BY DEF WriteEncodedVideoFrame
<1>5. Pictures(w.samples \o more) = Pictures(w.samples) \o Only(p, Picture)
  BY <1>1, <1>3, PicturesGrow
<1>. HIDE DEF groups
<1>6. more \in Seq(Seq(Kind))
  BY <1>2, OnlyIn
<1>. HIDE DEF more, v
<1>7. samples \in Seq(Seq(Kind))
  BY <1>3, <1>6, ConcatProperties
<1>8. \A k : Configures(groups, k) \in BOOLEAN
  BY DEF Configures
<1>9. w = [f \in {"handle", "first", "sps", "pps", "samples"} |-> w[f]]
  BY DEF Writer
<1>10. Pictures(samples) = IF full THEN Pictures(w.samples)
                           ELSE Pictures(w.samples) \o Only(p, Picture)
  BY <1>5
<1>. HIDE DEF samples
<1>11. CASE MayStart(w, p) /\ w.handle = "open"
  <2>1. v = [w EXCEPT !.first = FALSE, !.sps = @ \/ Configures(groups, "SPS"),
                      !.pps = @ \/ Configures(groups, "PPS"), !.samples = samples]
    BY <1>4, <1>11
  <2>2. /\ v.handle = w.handle /\ v.first = FALSE /\ v.samples = samples
        /\ v.sps = (w.sps \/ Configures(groups, "SPS"))
        /\ v.pps = (w.pps \/ Configures(groups, "PPS"))
        /\ v = [f \in {"handle", "first", "sps", "pps", "samples"} |-> v[f]]
    BY <1>9, <2>1, Zenon
  <2>3. v \in Writer
    BY <1>3, <1>7, <1>8, <2>2 DEF Writer
  <2>. QED  BY <1>1, <1>2, <1>10, <1>11, <2>2, <2>3 DEF v
<1>12. CASE ~(MayStart(w, p) /\ w.handle = "open")
  <2>1. v = w
    BY <1>4, <1>12
  <2>2. ~(w.handle = "open" /\ (w.first => Head(p) \in SpsKinds))
    BY <1>1, <1>12 DEF MayStart
  <2>. QED  BY <2>1, <2>2 DEF v
<1>. QED  BY <1>11, <1>12

\* Nothing recorded shows nothing.
LEMMA PicturesEmpty == Pictures(<<>>) = <<>>
  BY FlattenEmpty, OnlyEmpty DEF Pictures

\* What was handed over are sequences of NAL units.
LEMMA GivenAre == \A g \in Seq(Payloads) : g \in Seq(Seq(Kind))
<1>1. Payloads \subseteq Seq(Kind)
  BY PayloadsAssumption DEF PayloadsAssumption
<1>. QED  BY <1>1, SeqMonotonic

\* Sound stays true when the disk fills up ...
LEMMA SoundFull ==
  ASSUME NEW w \in Writer, NEW g \in Seq(Payloads), Sound(w, g, FALSE)
  PROVE  Sound(w, g, TRUE)
<1>1. Pictures(g) \in Seq(Kind)
  BY GivenAre, PicturesGrow, EmptySeq
<1>2. IsPrefix(Pictures(g), Pictures(g))
  BY <1>1, PrefixFacts
<1>. QED  BY <1>2 DEF Sound

\* ... when a file that is not closed gets another payload ...
LEMMA SoundWrite ==
  ASSUME NEW w \in Writer, NEW g \in Seq(Payloads), NEW p \in Payloads, NEW full \in BOOLEAN,
         w.handle # "closed", Sound(w, g, full)
  PROVE  LET v == WriteEncodedVideoFrame(w, p, full)
         IN  v \in Writer /\ Sound(v, Append(g, p), full)
<1>. DEFINE v == WriteEncodedVideoFrame(w, p, full)
            h == Append(g, p)
<1>1. /\ v \in Writer
      /\ v.handle = w.handle
      /\ w.handle # "open" => v = w
      /\ w.handle = "open" /\ (w.first => Head(p) \in SpsKinds) =>
           /\ ~v.first
           /\ w.sps \/ Head(p) = "SPS" => v.sps
           /\ w.pps \/ Head(p) = "PPS" => v.pps
           /\ Pictures(v.samples) = IF full THEN Pictures(w.samples)
                                    ELSE Pictures(w.samples) \o Only(p, Picture)
  BY Writes
<1>. HIDE DEF v
<1>2. g \in Seq(Seq(Kind)) /\ p \in Seq(Kind) /\ w.samples \in Seq(Seq(Kind))
  BY GivenAre, PayloadsAssumption DEF PayloadsAssumption, Writer
<1>3. /\ Pictures(g) \in Seq(Kind) /\ Only(p, Picture) \in Seq(Kind)
      /\ Pictures(h) = Pictures(g) \o Only(p, Picture)
  BY <1>2, PicturesGrow
<1>4. Pictures(w.samples) \in Seq(Kind)
  BY <1>2, PicturesGrow
<1>5. Len(h) >= 2 /\ h[1] = g[1] /\ h[2] = g[2]
  <2>1. Len(g) >= 2 /\ Len(g) \in Nat
    BY LenProperties DEF Sound
  <2>2. 1 \in 1..Len(g) /\ 2 \in 1..Len(g)
    BY <2>1
  <2>. QED  BY <2>1, <2>2, AppendProperties
<1>6. w.handle \in {"none", "open"}
  BY DEF Writer
<1>. HIDE DEF h
<1>. SUFFICES Sound(v, h, full)
  BY <1>1 DEF v, h
<1>7. CASE w.handle = "none"
  BY <1>1, <1>5, <1>7 DEF Sound
<1>8. CASE w.handle = "open"
  <2>1. /\ ~v.first
        /\ Head(h[1]) = "SPS" => v.sps
        /\ Head(h[2]) = "PPS" => v.pps
        /\ Pictures(v.samples) = IF full THEN Pictures(w.samples)
                                 ELSE Pictures(w.samples) \o Only(p, Picture)
    BY <1>1, <1>5, <1>8 DEF Sound
  <2>2. CASE full
    <3>1. IsPrefix(Pictures(w.samples), Pictures(g))
      BY <1>8, <2>2 DEF Sound
    <3>2. IsPrefix(Pictures(v.samples), Pictures(h))
      BY <1>3, <1>4, <2>1, <2>2, <3>1, PrefixFacts
    <3>. QED  BY <1>1, <1>5, <1>8, <2>1, <2>2, <3>2 DEF Sound
  <2>3. CASE ~full
    <3>1. Pictures(v.samples) = Pictures(h)
      BY <1>3, <1>8, <2>1, <2>3 DEF Sound
    <3>. QED  BY <1>1, <1>5, <1>8, <2>1, <2>3, <3>1 DEF Sound
  <2>. QED  BY <2>2, <2>3
<1>. QED  BY <1>6, <1>7, <1>8

\* ... and when a file is closed.
LEMMA SoundStop ==
  ASSUME NEW w \in Writer, NEW g, NEW full
  PROVE  DoStopRecord(w) \in Writer /\ (Sound(w, g, full) => Sound(DoStopRecord(w), g, full))
<1>. DEFINE v == DoStopRecord(w)
<1>1. w = [f \in {"handle", "first", "sps", "pps", "samples"} |-> w[f]]
  BY DEF Writer
<1>2. v = [w EXCEPT !.handle = IF w.handle = "open" THEN "closed" ELSE w.handle]
  BY DEF DoStopRecord
<1>. HIDE DEF v
<1>3. /\ v.handle = IF w.handle = "open" THEN "closed" ELSE w.handle
      /\ v.first = w.first /\ v.sps = w.sps /\ v.pps = w.pps /\ v.samples = w.samples
      /\ v = [f \in {"handle", "first", "sps", "pps", "samples"} |-> v[f]]
  BY <1>1, <1>2, Zenon
<1>4. v \in Writer
  BY <1>3 DEF Writer
<1>. QED  BY <1>3, <1>4 DEF v, Sound

\* Pairs are built by Append.
LEMMA AppendSecond ==
  ASSUME NEW S, NEW a \in S, NEW b \in S
  PROVE  <<a>> \in Seq(S) /\ Append(<<>>, a) = <<a>> /\ Append(<<a>>, b) = <<a, b>>
<1>. DEFINE s == Append(<<a>>, b)
            t == <<a, b>>
<1>1. <<a>> \in Seq(S) /\ Len(<<a>>) = 1 /\ <<a>>[1] = a
  OBVIOUS
<1>2. t \in Seq(S) /\ Len(t) = 2 /\ t[1] = a /\ t[2] = b
  OBVIOUS
<1>3. s \in Seq(S) /\ Len(s) = 2 /\ s[1] = a /\ s[2] = b
  BY <1>1, AppendProperties
<1>. HIDE DEF s, t
<1>4. \A i \in 1..Len(s) : s[i] = t[i]
  BY <1>2, <1>3
<1>5. s = t
  BY <1>2, <1>3, <1>4, SeqEqual
<1>6. Append(<<>>, a) = <<a>>
  OBVIOUS
<1>. QED  BY <1>1, <1>5, <1>6 DEF s, t

\* A new recording holds its parameter sets.
LEMMA SoundOpened ==
  ASSUME NEW created \in BOOLEAN, NEW sps \in SpsPayload, NEW pps \in PpsPayload,
         NEW full \in BOOLEAN
  PROVE  LET w == WriteEncodedVideoFrame(
                    WriteEncodedVideoFrame(DoStartRecord(NewWriter, created), sps, full), pps, full)
         IN  w \in Writer /\ Sound(w, <<sps, pps>>, full)
<1>. DEFINE u == DoStartRecord(NewWriter, created)
            v == WriteEncodedVideoFrame(u, sps, full)
            w == WriteEncodedVideoFrame(v, pps, full)
<1>1. sps \in Payloads /\ pps \in Payloads /\ Head(sps) \in SpsKinds
  BY DEF SpsPayload, PpsPayload
<1>2. sps \in Seq(Kind) /\ pps \in Seq(Kind)
  BY <1>1, PayloadsAssumption DEF PayloadsAssumption
<1>3. u \in Writer /\ u.samples = <<>> /\ u.handle \in {"none", "open"}
  BY EmptySeq DEF DoStartRecord, NewWriter, Writer
<1>. HIDE DEF u
<1>4. /\ v \in Writer /\ v.handle = u.handle /\ (u.handle # "open" => v = u)
      /\ u.handle = "open" =>
           /\ ~v.first
           /\ Head(sps) = "SPS" => v.sps
           /\ Pictures(v.samples) = IF full THEN <<>> ELSE <<>> \o Only(sps, Picture)
  <2>1. u.handle = "open" /\ (u.first => Head(sps) \in SpsKinds) =>
           /\ ~v.first
           /\ Head(sps) = "SPS" => v.sps
           /\ Pictures(v.samples) = IF full THEN Pictures(u.samples)
                                    ELSE Pictures(u.samples) \o Only(sps, Picture)
    BY <1>1, <1>3, Writes
  <2>2. v \in Writer /\ v.handle = u.handle /\ (u.handle # "open" => v = u)
    BY <1>1, <1>3, Writes
  <2>3. Pictures(u.samples) = <<>>
    BY <1>3, PicturesEmpty
  <2>. HIDE DEF v
  <2>. QED  BY <1>1, <2>1, <2>2, <2>3
<1>. HIDE DEF v
<1>5. /\ w \in Writer /\ w.handle = v.handle /\ (v.handle # "open" => w = v)
      /\ v.handle = "open" /\ ~v.first =>
           /\ ~w.first
           /\ v.sps => w.sps
           /\ Head(pps) = "PPS" => w.pps
           /\ Pictures(w.samples) = IF full THEN Pictures(v.samples)
                                    ELSE Pictures(v.samples) \o Only(pps, Picture)
  BY <1>1, <1>4, Writes
<1>. HIDE DEF w
<1>6. /\ Only(sps, Picture) \in Seq(Kind) /\ Only(pps, Picture) \in Seq(Kind)
      /\ <<>> \o Only(sps, Picture) = Only(sps, Picture)
  BY <1>2, OnlyIn, ConcatEmptySeq
<1>7. Pictures(<<sps, pps>>) = Only(sps, Picture) \o Only(pps, Picture)
  <2>1. /\ <<>> \in Seq(Seq(Kind)) /\ <<sps>> \in Seq(Seq(Kind))
        /\ Append(<<>>, sps) = <<sps>> /\ Append(<<sps>>, pps) = <<sps, pps>>
    BY <1>2, EmptySeq, AppendSecond
  <2>2. Pictures(<<sps>>) = Pictures(<<>>) \o Only(sps, Picture)
    BY <1>2, <2>1, PicturesGrow
  <2>3. Pictures(<<sps, pps>>) = Pictures(<<sps>>) \o Only(pps, Picture)
    BY <1>2, <2>1, PicturesGrow
  <2>. QED  BY <1>6, <2>2, <2>3, PicturesEmpty
<1>8. Len(<<sps, pps>>) = 2 /\ <<sps, pps>>[1] = sps /\ <<sps, pps>>[2] = pps
  OBVIOUS
<1>9. Only(sps, Picture) \o Only(pps, Picture) \in Seq(Kind)
  BY <1>6, ConcatProperties
<1>. DEFINE g == <<sps, pps>>
<1>. HIDE DEF g
<1>. SUFFICES Sound(w, g, full)
  BY <1>5 DEF w, v, u, g
<1>10. CASE u.handle = "none"
  BY <1>3, <1>4, <1>5, <1>8, <1>10 DEF Sound, g
<1>11. CASE u.handle = "open"
  <2>1. /\ ~w.first /\ w.handle = "open"
        /\ Head(sps) = "SPS" => w.sps
        /\ Head(pps) = "PPS" => w.pps
    BY <1>4, <1>5, <1>11
  <2>2. IF full THEN Pictures(w.samples) = <<>> ELSE Pictures(w.samples) = Pictures(<<sps, pps>>)
    BY <1>4, <1>5, <1>6, <1>7, <1>11
  <2>3. IsPrefix(<<>>, Pictures(<<sps, pps>>))
    BY <1>7, <1>9, PrefixFacts
  <2>. QED  BY <1>8, <2>1, <2>2, <2>3 DEF Sound, g
<1>. QED  BY <1>3, <1>10, <1>11

\* At the start there is no recording.
LEMMA FileInit == Init => Typed /\ Recording
<1>. SUFFICES ASSUME Init PROVE Typed /\ Recording
  OBVIOUS
<1>1. NewWriter \in Writer
  BY EmptySeq DEF NewWriter, Writer
<1>2. TypeOK
  <2>1. /\ writer \in [Session -> Writer]
        /\ payload \in [Session -> Seq(Kind)] /\ given \in [Session -> Seq(Payloads)]
    BY <1>1, EmptySeq DEF Init
  <2>2. /\ closeWriter \in BOOLEAN /\ diskFull \in BOOLEAN /\ sessions \in 0..MaxSessions
        /\ pc \in [Session -> {"off", "check", "write", "close", "ended"}]
        /\ late \in [Session -> Nat] /\ stale \in [Session -> BOOLEAN]
    <3>1. sessions \in 0..MaxSessions
      BY PayloadsAssumption DEF Init, PayloadsAssumption
    <3>2. /\ pc \in [Session -> {"off", "check", "write", "close", "ended"}]
          /\ late \in [Session -> Nat] /\ stale \in [Session -> BOOLEAN]
      BY DEF Init
    <3>. QED  BY <3>1, <3>2 DEF Init
  <2>. QED  BY <2>1, <2>2 DEF TypeOK
<1>3. Typed
  BY <1>2 DEF Typed, Init
<1>4. Recording
  BY DEF Recording, Init
<1>. QED  BY <1>3, <1>4

\* surfaceCreated adds a recording with its parameter sets and leaves the others.
LEMMA SurfaceCreatedFile == FileInv /\ SurfaceCreated => Typed' /\ Recording'
<1>. SUFFICES ASSUME FileInv, SurfaceCreated PROVE Typed' /\ Recording'
  OBVIOUS
<1>. DEFINE new == sessions + 1
<1>1. TypeOK /\ Recording /\ \A s \in Session : pc[s] = "write" => payload[s] \in Payloads
  BY DEF FileInv, Typed
<1>2. /\ new \in Session /\ sessions \in Nat /\ sessions' = new /\ new \in 0..MaxSessions
      /\ pc' = [pc EXCEPT ![new] = "check"]
      /\ stale' = [stale EXCEPT ![new] = closeWriter]
      /\ UNCHANGED <<closeWriter, payload, diskFull, late>>
  BY <1>1, PayloadsAssumption DEF SurfaceCreated, TypeOK, Session, PayloadsAssumption
<1>3. PICK created \in BOOLEAN, sps \in SpsPayload, pps \in PpsPayload :
        /\ writer' = [writer EXCEPT ![new] = WriteEncodedVideoFrame(
             WriteEncodedVideoFrame(DoStartRecord(NewWriter, created), sps, diskFull),
             pps, diskFull)]
        /\ given' = [given EXCEPT ![new] = <<sps, pps>>]
  BY Zenon DEF SurfaceCreated
<1>. DEFINE w == WriteEncodedVideoFrame(
                   WriteEncodedVideoFrame(DoStartRecord(NewWriter, created), sps, diskFull),
                   pps, diskFull)
            g == <<sps, pps>>
<1>4. w \in Writer /\ Sound(w, g, diskFull)
  BY <1>1, SoundOpened DEF TypeOK
<1>5. g \in Seq(Payloads)
  BY DEF SpsPayload, PpsPayload
<1>6. writer' = [writer EXCEPT ![new] = w] /\ given' = [given EXCEPT ![new] = g]
  BY <1>3
<1>. HIDE DEF w, g, new
<1>7. Typed'
  <2>1. /\ closeWriter' \in BOOLEAN /\ diskFull' \in BOOLEAN /\ sessions' \in 0..MaxSessions
        /\ pc' \in [Session -> {"off", "check", "write", "close", "ended"}]
        /\ late' \in [Session -> Nat] /\ stale' \in [Session -> BOOLEAN]
        /\ payload' \in [Session -> Seq(Kind)]
    BY <1>1, <1>2 DEF TypeOK
  <2>2. writer' \in [Session -> Writer] /\ given' \in [Session -> Seq(Payloads)]
    BY <1>1, <1>2, <1>4, <1>5, <1>6 DEF TypeOK
  <2>3. \A s \in Session : pc'[s] = "write" => payload'[s] \in Payloads
    BY <1>1, <1>2 DEF TypeOK
  <2>. QED  BY <2>1, <2>2, <2>3 DEF Typed, TypeOK
<1>8. Recording'
  <2>. SUFFICES ASSUME NEW s \in 1..sessions' PROVE Sound(writer'[s], given'[s], diskFull')
    BY DEF Recording
  <2>1. s \in Session /\ (s = new \/ (s # new /\ s \in 1..sessions))
    <3>1. s \in 1..(sessions + 1) /\ sessions + 1 \in 1..MaxSessions /\ MaxSessions \in Nat
      BY <1>2, PayloadsAssumption DEF new, Session, PayloadsAssumption
    <3>. QED  BY <1>2, <3>1 DEF new, Session
  <2>2. CASE s = new
    BY <2>1, <2>2, <1>1, <1>2, <1>4, <1>6 DEF TypeOK
  <2>3. CASE s # new /\ s \in 1..sessions
    <3>1. writer'[s] = writer[s] /\ given'[s] = given[s]
      BY <2>1, <2>3, <1>1, <1>6 DEF TypeOK
    <3>. QED  BY <2>3, <3>1, <1>1, <1>2 DEF Recording
  <2>. QED  BY <2>1, <2>2, <2>3
<1>. QED  BY <1>7, <1>8

\* A click touches no file, a full disk none that exists.
LEMMA OthersFile == FileInv /\ (Click \/ DiskFills \/ UNCHANGED vars) => Typed' /\ Recording'
<1>. SUFFICES ASSUME FileInv, Click \/ DiskFills \/ UNCHANGED vars PROVE Typed' /\ Recording'
  OBVIOUS
<1>1. TypeOK /\ Typed /\ Recording
  BY DEF FileInv, Typed
<1>2. UNCHANGED <<sessions, writer, pc, payload, given, late, stale>>
      /\ closeWriter' \in BOOLEAN /\ diskFull' \in {TRUE, diskFull}
  BY <1>1 DEF Click, DiskFills, vars, TypeOK
<1>3. Typed'
  BY <1>1, <1>2 DEF Typed, TypeOK
<1>4. Recording'
  <2>. SUFFICES ASSUME NEW s \in 1..sessions PROVE Sound(writer[s], given[s], diskFull')
    BY <1>2 DEF Recording
  <2>1. s \in Session /\ Sound(writer[s], given[s], diskFull)
    BY <1>1, PayloadsAssumption DEF Recording, TypeOK, Session, PayloadsAssumption
  <2>2. writer[s] \in Writer /\ given[s] \in Seq(Payloads) /\ diskFull \in BOOLEAN
    BY <1>1, <2>1 DEF TypeOK
  <2>3. CASE diskFull
    BY <1>2, <2>1, <2>2, <2>3
  <2>4. CASE ~diskFull
    <3>1. diskFull = FALSE
      BY <2>2, <2>4
    <3>. QED  BY <1>2, <2>1, <2>2, <3>1, SoundFull
  <2>. QED  BY <2>3, <2>4
<1>. QED  BY <1>3, <1>4

\* The steps of one Decode thread: nothing, a payload more, or the close.
LEMMA RecordFile == ASSUME FileInv, NEW s \in Session, Record(s) PROVE Typed' /\ Recording'
<1>1. /\ TypeOK /\ Recording /\ \A t \in Session : pc[t] = "write" => payload[t] \in Payloads
      /\ s > sessions => pc[s] = "off"
      /\ writer[s].handle = "closed" => pc[s] # "write"
  BY DEF FileInv, Typed, IInv, Closing
<1>2. sessions \in Nat /\ s \in Nat /\ s >= 1 /\ UNCHANGED <<closeWriter, sessions, diskFull, stale>>
  BY <1>1 DEF Record, CheckFlag, WriteFrame, Close, SourceEnds, Session, TypeOK
<1>3. s \in 1..sessions
  BY <1>1, <1>2 DEF Record, CheckFlag, WriteFrame, Close, SourceEnds
<1>4. writer[s] \in Writer /\ given[s] \in Seq(Payloads) /\ diskFull \in BOOLEAN
      /\ Sound(writer[s], given[s], diskFull)
  BY <1>1, <1>3 DEF TypeOK, Recording
<1>5. CASE CheckFlag(s)
  <2>1. UNCHANGED <<writer, given, late>>
    BY <1>5 DEF CheckFlag
  <2>2. /\ pc' \in [Session -> {"off", "check", "write", "close", "ended"}]
        /\ payload' \in [Session -> Seq(Kind)]
        /\ \A t \in Session : pc'[t] = "write" => payload'[t] \in Payloads
    <3>1. Payloads \subseteq Seq(Kind)
      BY PayloadsAssumption DEF PayloadsAssumption
    <3>2. CASE closeWriter
      BY <1>1, <1>5, <3>2 DEF CheckFlag, TypeOK
    <3>3. CASE ~closeWriter
      <4>1. PICK p \in Payloads : payload' = [payload EXCEPT ![s] = p]
        BY <1>5, <3>3 DEF CheckFlag
      <4>2. pc' = [pc EXCEPT ![s] = "write"]
        BY <1>5, <3>3 DEF CheckFlag
      <4>. QED  BY <1>1, <3>1, <4>1, <4>2 DEF TypeOK
    <3>. QED  BY <3>2, <3>3
  <2>3. Typed'
    BY <1>1, <1>2, <2>1, <2>2 DEF Typed, TypeOK
  <2>. QED  BY <1>1, <1>2, <2>1, <2>3 DEF Recording
<1>6. CASE WriteFrame(s)
  <2>. DEFINE v == WriteEncodedVideoFrame(writer[s], payload[s], diskFull)
              h == Append(given[s], payload[s])
  <2>1. payload[s] \in Payloads /\ writer[s].handle # "closed"
    BY <1>1, <1>6 DEF WriteFrame
  <2>2. v \in Writer /\ Sound(v, h, diskFull)
    BY <1>4, <2>1, SoundWrite
  <2>3. h \in Seq(Payloads)
    BY <1>4, <2>1, AppendProperties
  <2>4. /\ writer' = [writer EXCEPT ![s] = v] /\ given' = [given EXCEPT ![s] = h]
        /\ pc' = [pc EXCEPT ![s] = "check"] /\ payload' = [payload EXCEPT ![s] = <<>>]
    BY <1>6 DEF WriteFrame
  <2>5. late' \in [Session -> Nat]
    BY <1>1, <1>6 DEF WriteFrame, TypeOK
  <2>. HIDE DEF v, h
  <2>6. Typed'
    <3>1. writer' \in [Session -> Writer] /\ given' \in [Session -> Seq(Payloads)]
      BY <1>1, <2>2, <2>3, <2>4 DEF TypeOK
    <3>2. /\ pc' \in [Session -> {"off", "check", "write", "close", "ended"}]
          /\ payload' \in [Session -> Seq(Kind)]
          /\ \A t \in Session : pc'[t] = "write" => payload'[t] \in Payloads
      BY <1>1, <2>4, EmptySeq DEF TypeOK
    <3>. QED  BY <1>1, <1>2, <2>5, <3>1, <3>2 DEF Typed, TypeOK
  <2>7. Recording'
    <3>. SUFFICES ASSUME NEW t \in 1..sessions PROVE Sound(writer'[t], given'[t], diskFull)
      BY <1>2 DEF Recording
    <3>1. CASE t = s
      BY <1>1, <2>2, <2>4, <3>1 DEF TypeOK
    <3>2. CASE t # s
      <4>1. writer'[t] = writer[t] /\ given'[t] = given[t]
        BY <1>1, <2>4, <3>2 DEF TypeOK
      <4>. QED  BY <1>1, <4>1 DEF Recording
    <3>. QED  BY <3>1, <3>2
  <2>. QED  BY <2>6, <2>7
<1>7. CASE Close(s) \/ SourceEnds(s)
  <2>1. PICK v : /\ v = writer[s] \/ v = DoStopRecord(writer[s])
                 /\ writer' = [writer EXCEPT ![s] = v]
    BY <1>7, Zenon DEF Close, SourceEnds
  <2>2. v \in Writer /\ Sound(v, given[s], diskFull)
    BY <1>4, <2>1, SoundStop
  <2>3. /\ UNCHANGED <<payload, given, late>>
        /\ pc' = [pc EXCEPT ![s] = "check"] \/ pc' = [pc EXCEPT ![s] = "ended"]
    BY <1>7 DEF Close, SourceEnds
  <2>4. Typed'
    <3>1. writer' \in [Session -> Writer]
      BY <1>1, <2>1, <2>2 DEF TypeOK
    <3>2. /\ pc' \in [Session -> {"off", "check", "write", "close", "ended"}]
          /\ \A t \in Session : pc'[t] = "write" => payload'[t] \in Payloads
      BY <1>1, <2>3 DEF TypeOK
    <3>. QED  BY <1>1, <1>2, <2>3, <3>1, <3>2 DEF Typed, TypeOK
  <2>5. Recording'
    <3>. SUFFICES ASSUME NEW t \in 1..sessions PROVE Sound(writer'[t], given[t], diskFull)
      BY <1>2, <2>3 DEF Recording
    <3>1. CASE t = s
      BY <1>1, <2>1, <2>2, <3>1 DEF TypeOK
    <3>2. CASE t # s
      <4>1. writer'[t] = writer[t]
        BY <1>1, <2>1, <3>2 DEF TypeOK
      <4>. QED  BY <1>1, <4>1 DEF Recording
    <3>. QED  BY <3>1, <3>2
  <2>. QED  BY <2>4, <2>5
<1>. QED  BY <1>5, <1>6, <1>7 DEF Record

\* The file invariant holds of every behaviour.
THEOREM FileInvariance == Spec => []FileInv
<1>1. Init => FileInv
  BY InitInv, FileInit DEF FileInv
<1>2. FileInv /\ [Next]_vars => FileInv'
  BY NextInv, SurfaceCreatedFile, OthersFile, RecordFile DEF FileInv, Next
<1>. QED  BY <1>1, <1>2, PTL DEF Spec

\* Types; in particular a handle is NULL, open or closed, never the result of a
\* failed MP4CreateEx (mp4_writer.cpp, StartRecord and StopRecord).
THEOREM TypeCorrect == Spec => []TypeOK
<1>1. FileInv => TypeOK
  BY DEF FileInv, Typed
<1>. QED  BY <1>1, FileInvariance, PTL

\* Whatever the payloads are, whether or not the disk fills up, files fail to
\* open and clicks come: the file holds what was handed over, SEI apart, each NAL
\* unit once and in order (mp4_writer.cpp, WriteEncodedVideoFrame).
THEOREM AllRecordedInOrder == Spec => []RecordedInOrder
<1>1. FileInv => RecordedInOrder
  <2>. SUFFICES ASSUME FileInv, NEW s \in 1..sessions
                PROVE  /\ IsPrefix(Recorded(s), Pictures(given[s]))
                       /\ ~diskFull => Recorded(s) = IF writer[s].handle = "none" THEN <<>>
                                                     ELSE Pictures(given[s])
    BY DEF RecordedInOrder
  <2>1. Sound(writer[s], given[s], diskFull) /\ s \in Session /\ given[s] \in Seq(Payloads)
    BY PayloadsAssumption
    DEF FileInv, Typed, TypeOK, Recording, Session, PayloadsAssumption
  <2>2. Pictures(given[s]) \in Seq(Kind)
    BY <2>1, GivenAre, PicturesGrow, EmptySeq
  <2>3. IsPrefix(<<>>, Pictures(given[s])) /\ IsPrefix(Pictures(given[s]), Pictures(given[s]))
    BY <2>2, PrefixFacts
  <2>4. CASE writer[s].handle = "none"
    BY <2>1, <2>3, <2>4, PicturesEmpty DEF Sound, Recorded
  <2>5. CASE writer[s].handle # "none"
    BY <2>1, <2>3, <2>5 DEF Sound, Recorded
  <2>. QED  BY <2>4, <2>5
<1>. QED  BY <1>1, FileInvariance, PTL

\* No file has a slice before its parameter sets are in the configuration of the
\* track (AVCWriter.java, StreamCodec.initMediaCodec, and WriteH264Frame).
THEOREM SetsComeFirst == Spec => []SetsBeforeSlices
<1>1. FileInv => SetsBeforeSlices
  <2>. SUFFICES ASSUME FileInv, NEW s \in 1..sessions, "SLICE" \in ToSet(Recorded(s))
                PROVE  /\ Head(given[s][1]) = "SPS" => writer[s].sps
                       /\ Head(given[s][2]) = "PPS" => writer[s].pps
    BY DEF SetsBeforeSlices
  <2>1. Sound(writer[s], given[s], diskFull)
    BY DEF FileInv, Recording
  <2>2. Recorded(s) # <<>>
    BY EmptySeq DEF ToSet
  <2>3. writer[s].handle # "none"
    BY <2>1, <2>2, PicturesEmpty DEF Sound, Recorded
  <2>. QED  BY <2>1, <2>3 DEF Sound
<1>. QED  BY <1>1, FileInvariance, PTL
=====
