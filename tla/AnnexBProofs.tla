---------------------------- MODULE AnnexBProofs ----------------------------
(***************************************************************************)
(* Proofs about AnnexB, for files of any bytes and any length: the two     *)
(* loops that cut a file into NAL units lose, merge and shorten nothing,   *)
(* group them as the writer's model does, and stay within the buffer.      *)
(*                                                                         *)
(* The loops know only the bytes they have seen.  The invariant says what  *)
(* that tells of the whole file: the NAL unit begun last lies behind a     *)
(* start code and no other code has ended since (Begun), so everything up  *)
(* to that code has been handed on (Complete), in the groups that the      *)
(* operator Split makes of the same NAL units (Grouped), and what still    *)
(* waits is not longer than the bytes it was read from (Room).             *)
(*                                                                         *)
(* Only, FlattenSeq, Split and Taken are recursive.  The first lemmas give *)
(* what they do with one member more, from induction over the length.      *)
(***************************************************************************)
EXTENDS AnnexB, SequenceTheorems, FiniteSetTheorems, WellFoundedInduction, TLAPS

----------------------------------------------------------------------------
(* Induction, and functions defined by recursion. *)

Less == {pair \in Nat \X Nat : pair[1] < pair[2]}

\* Induction, with the numbers that have the property as a set.
LEMMA Induction ==
  ASSUME NEW S, 0 \in S, \A n \in Nat : n \in S => n + 1 \in S
  PROVE  Nat \subseteq S
<1>. SUFFICES ASSUME Nat \ S # {} PROVE FALSE
  OBVIOUS
<1>1. IsWellFoundedOn(Less, Nat)
  <2>1. IsWellFoundedOn({pair \in Nat \X Nat : pair[1] < pair[2]}, Nat)
    BY NatLessThanWellFounded DEF OpToRel
  <2>. QED  BY <2>1 DEF Less
<1>2. PICK least \in Nat \ S : \A n \in Nat \ S : <<n, least>> \notin Less
  <2>. DEFINE T == Nat \ S
  <2>1. T \subseteq Nat /\ T # {}
    OBVIOUS
  <2>. HIDE DEF T
  <2>2. \E x \in T : \A y \in T : ~(<<y, x>> \in Less)
    BY <1>1, <2>1, WFMin
  <2>. QED  BY <2>2 DEF T
<1>3. least - 1 \in Nat /\ <<least - 1, least>> \in Less
  BY DEF Less
<1>. QED  BY <1>2, <1>3

\* The same for sequences built by Append.
LEMMA SequenceInduction ==
  ASSUME NEW S, NEW T, <<>> \in T, \A s \in Seq(S), e \in S : s \in T => Append(s, e) \in T
  PROVE  Seq(S) \subseteq T
<1>. DEFINE N == {n \in Nat : \A s \in Seq(S) : Len(s) = n => s \in T}
<1>1. 0 \in N
  BY EmptySeq
<1>2. ASSUME NEW n \in Nat, n \in N PROVE n + 1 \in N
  <2>. SUFFICES ASSUME NEW s \in Seq(S), Len(s) = n + 1 PROVE s \in T
    OBVIOUS
  <2>1. s # <<>>
    BY EmptySeq
  <2>2. PICK t \in Seq(S), e \in S : s = Append(t, e)
    BY <2>1, SequenceEmptyOrAppend
  <2>3. Len(t) = n
    BY <2>2, AppendProperties, LenProperties
  <2>. QED  BY <1>2, <2>2, <2>3
<1>. HIDE DEF N
<1>3. Nat \subseteq N
  BY <1>1, <1>2, Induction
<1>. QED  BY <1>3, LenProperties DEF N

\* f is the function that starts from base and goes on by step.
Follows(f, X, N, base, step) ==
  f \in [0..N -> X] /\ f[0] = base /\ \A n \in 1..N : f[n] = step[n][f[n - 1]]

\* A function defined step by step exists.
LEMMA Recursion ==
  ASSUME NEW X, NEW N \in Nat, NEW base \in X, NEW step \in [1..N -> [X -> X]]
  PROVE  \E f : Follows(f, X, N, base, step)
<1>. DEFINE Up(m, f) == Follows(f, X, m, base, step)
            S == {m \in Nat : m <= N => \E f : Up(m, f)}
<1>1. 0 \in S
  <2>1. Up(0, [n \in 0..0 |-> base])
    BY DEF Follows
  <2>. QED  BY <2>1
<1>2. ASSUME NEW m \in Nat, m \in S PROVE m + 1 \in S
  <2>. SUFFICES ASSUME m + 1 <= N PROVE \E f : Up(m + 1, f)
    OBVIOUS
  <2>1. PICK f : Up(m, f)
    BY <1>2
  <2>. DEFINE g == [n \in 0..(m + 1) |-> IF n = m + 1 THEN step[n][f[m]] ELSE f[n]]
  <2>2. step[m + 1][f[m]] \in X
    BY <2>1 DEF Follows
  <2>3. g \in [0..(m + 1) -> X] /\ g[m + 1] = step[m + 1][f[m]] /\ \A n \in 0..m : g[n] = f[n]
    BY <2>1, <2>2 DEF Follows
  <2>. HIDE DEF g
  <2>4. \A n \in 1..(m + 1) : n - 1 \in 0..m /\ (n = m + 1 \/ n \in 1..m)
    OBVIOUS
  <2>5. Up(m + 1, g)
    BY <2>1, <2>3, <2>4 DEF Follows
  <2>. QED  BY <2>5
<1>3. Nat \subseteq S
  <2>. HIDE DEF S
  <2>. QED  BY <1>1, <1>2, Induction
<1>. QED  BY <1>3

\* Two functions that follow each other step by step.
Agree(f, g, N) == \A n \in 0..N : f[n] = g[n]

\* And there is only one.
LEMMA Unique ==
  ASSUME NEW f, NEW g, NEW N \in Nat, f[0] = g[0],
         \A n \in 1..N : f[n - 1] = g[n - 1] => f[n] = g[n]
  PROVE  Agree(f, g, N)
<1>. DEFINE S == {n \in Nat : n <= N => f[n] = g[n]}
<1>1. 0 \in S
  OBVIOUS
<1>2. ASSUME NEW n \in Nat, n \in S PROVE n + 1 \in S
  <2>1. n + 1 <= N => n + 1 \in 1..N /\ (n + 1) - 1 = n
    OBVIOUS
  <2>. QED  BY <1>2, <2>1
<1>. HIDE DEF S
<1>3. Nat \subseteq S
  BY <1>1, <1>2, Induction
<1>. QED  BY <1>3 DEF S, Agree

----------------------------------------------------------------------------
(* Only, which picks members of a sequence, and FlattenSeq, which joins. *)

\* The first n members of s done, f[n] has those of them that are in the set.
OnlyStep(f, s, kept) ==
  \A n \in 1..Len(s) : f[n] = IF s[n] \in kept THEN Append(f[n - 1], s[n]) ELSE f[n - 1]

\* Only takes one member after the other.
LEMMA OnlySteps ==
  ASSUME NEW S, NEW s \in Seq(S), NEW kept
  PROVE  \E f \in [0..Len(s) -> Seq(S)] :
           f[0] = <<>> /\ OnlyStep(f, s, kept) /\ Only(s, kept) = f[Len(s)]
<1>. DEFINE only == CHOOSE f : f = [n \in 0..Len(s) |->
                      IF n = 0 THEN <<>>
                      ELSE IF s[n] \in kept THEN Append(f[n - 1], s[n]) ELSE f[n - 1]]
            step == [n \in 1..Len(s) |-> [x \in Seq(S) |-> IF s[n] \in kept THEN Append(x, s[n]) ELSE x]]
<1>1. Len(s) \in Nat /\ \A n \in 1..Len(s) : s[n] \in S
  BY LenProperties, ElementOfSeq
<1>2. step \in [1..Len(s) -> [Seq(S) -> Seq(S)]] /\ <<>> \in Seq(S)
  BY <1>1, AppendProperties, EmptySeq
<1>3. PICK f : Follows(f, Seq(S), Len(s), <<>>, step)
  <2>. HIDE DEF step
  <2>. QED  BY <1>1, <1>2, Recursion
<1>4. \A n \in 1..Len(s) : n - 1 \in 0..Len(s)
  BY <1>1
<1>5. f = [n \in 0..Len(s) |-> IF n = 0 THEN <<>>
                      ELSE IF s[n] \in kept THEN Append(f[n - 1], s[n]) ELSE f[n - 1]]
  <2>1. \A n \in 0..Len(s) : n = 0 \/ n \in 1..Len(s)
    BY <1>1
  <2>. QED  BY <1>3, <1>4, <2>1 DEF Follows
<1>6. only = [n \in 0..Len(s) |-> IF n = 0 THEN <<>>
                      ELSE IF s[n] \in kept THEN Append(only[n - 1], s[n]) ELSE only[n - 1]]
  BY <1>5, Zenon
<1>7. Only(s, kept) = only[Len(s)]
  BY DEF Only
<1>. HIDE DEF only, step
<1>8. only[0] = f[0] /\ \A n \in 1..Len(s) : only[n - 1] = f[n - 1] => only[n] = f[n]
  <2>1. \A n \in 0..Len(s) : f[n] = IF n = 0 THEN <<>>
                      ELSE IF s[n] \in kept THEN Append(f[n - 1], s[n]) ELSE f[n - 1]
    BY <1>5, Zenon
  <2>2. \A n \in 0..Len(s) : only[n] = IF n = 0 THEN <<>>
                      ELSE IF s[n] \in kept THEN Append(only[n - 1], s[n]) ELSE only[n - 1]
    BY <1>6, Zenon
  <2>3. 0 \in 0..Len(s) /\ \A n \in 1..Len(s) : n \in 0..Len(s) /\ n # 0
    BY <1>1
  <2>. QED  BY <2>1, <2>2, <2>3, Zenon
<1>9. only[Len(s)] = f[Len(s)]
  <2>1. Agree(only, f, Len(s))
    BY <1>1, <1>8, Unique
  <2>. QED  BY <1>1, <2>1 DEF Agree
<1>. QED  BY <1>3, <1>4, <1>7, <1>9 DEF step, OnlyStep, Follows

\* Only of nothing.
LEMMA OnlyEmpty == ASSUME NEW kept PROVE Only(<<>>, kept) = <<>>
  BY OnlySteps, EmptySeq

\* Only, one member at a time.
LEMMA OnlyAppend ==
  ASSUME NEW S, NEW s \in Seq(S), NEW e \in S, NEW kept
  PROVE  /\ Only(s, kept) \in Seq(S)
         /\ Only(Append(s, e), kept) = IF e \in kept THEN Append(Only(s, kept), e) ELSE Only(s, kept)
<1>. DEFINE t == Append(s, e)
<1>1. t \in Seq(S) /\ Len(t) = Len(s) + 1 /\ Len(s) \in Nat /\ t[Len(s) + 1] = e
      /\ \A k \in 1..Len(s) : t[k] = s[k]
  BY AppendProperties, LenProperties
<1>. HIDE DEF t
<1>2. PICK f \in [0..Len(s) -> Seq(S)] :
        f[0] = <<>> /\ OnlyStep(f, s, kept) /\ Only(s, kept) = f[Len(s)]
  BY OnlySteps
<1>3. PICK g \in [0..Len(t) -> Seq(S)] :
        g[0] = <<>> /\ OnlyStep(g, t, kept) /\ Only(t, kept) = g[Len(t)]
  BY <1>1, OnlySteps
<1>4. \A n \in 1..Len(s) : f[n - 1] = g[n - 1] => f[n] = g[n]
  <2>1. \A n \in 1..Len(s) : n \in 1..Len(t) /\ t[n] = s[n]
    BY <1>1
  <2>2. \A n \in 1..Len(s) : f[n] = IF s[n] \in kept THEN Append(f[n - 1], s[n]) ELSE f[n - 1]
    BY <1>2 DEF OnlyStep
  <2>3. \A n \in 1..Len(s) : g[n] = IF s[n] \in kept THEN Append(g[n - 1], s[n]) ELSE g[n - 1]
    BY <1>3, <2>1 DEF OnlyStep
  <2>. QED  BY <2>2, <2>3
<1>5. f[Len(s)] = g[Len(s)]
  <2>1. Len(s) \in Nat /\ f[0] = g[0]
    BY <1>1, <1>2, <1>3
  <2>2. Agree(f, g, Len(s))
    BY <2>1, <1>4, Unique
  <2>. QED  BY <2>1, <2>2 DEF Agree
<1>6. g[Len(t)] = IF e \in kept THEN Append(g[Len(s)], e) ELSE g[Len(s)]
  BY <1>1, <1>3 DEF OnlyStep
<1>. QED  BY <1>2, <1>3, <1>5, <1>6, <1>1 DEF t

\* The first n sequences joined are f[n].
FlattenStep(f, ss) ==
  f[0] = <<>> /\ \A n \in 1..Len(ss) : f[n] = IF n = 1 THEN ss[n] ELSE f[n - 1] \o ss[n]

\* FlattenSeq joins one sequence after the other.
LEMMA FlattenSteps ==
  ASSUME NEW S, NEW ss \in Seq(Seq(S)), Len(ss) # 0
  PROVE  \E f \in [0..Len(ss) -> Seq(S)] : FlattenStep(f, ss) /\ FlattenSeq(ss) = f[Len(ss)]
<1>. DEFINE flatten == CHOOSE f : f = [k \in 1..Len(ss) |-> IF k = 1 THEN ss[k] ELSE f[k - 1] \o ss[k]]
            step == [n \in 1..Len(ss) |-> [x \in Seq(S) |-> IF n = 1 THEN ss[n] ELSE x \o ss[n]]]
<1>1. Len(ss) \in Nat /\ \A n \in 1..Len(ss) : ss[n] \in Seq(S)
  BY LenProperties, ElementOfSeq
<1>2. step \in [1..Len(ss) -> [Seq(S) -> Seq(S)]] /\ <<>> \in Seq(S)
  BY <1>1, ConcatProperties, EmptySeq
<1>3. PICK f : Follows(f, Seq(S), Len(ss), <<>>, step)
  <2>. HIDE DEF step
  <2>. QED  BY <1>1, <1>2, Recursion
<1>4. f \in [0..Len(ss) -> Seq(S)] /\ FlattenStep(f, ss)
  <2>1. f \in [0..Len(ss) -> Seq(S)] /\ f[0] = <<>> /\ \A n \in 1..Len(ss) : f[n] = step[n][f[n - 1]]
    BY <1>3 DEF Follows
  <2>2. \A n \in 1..Len(ss) : n - 1 \in 0..Len(ss)
    BY <1>1
  <2>3. \A n \in 1..Len(ss) : f[n - 1] \in Seq(S)
    BY <2>1, <2>2
  <2>4. \A n \in 1..Len(ss) : f[n] = IF n = 1 THEN ss[n] ELSE f[n - 1] \o ss[n]
    BY <2>1, <2>3
  <2>. QED  BY <2>1, <2>4 DEF FlattenStep
<1>. HIDE DEF step
<1>. DEFINE g == [n \in 1..Len(ss) |-> f[n]]
<1>5. g = [k \in 1..Len(ss) |-> IF k = 1 THEN ss[k] ELSE g[k - 1] \o ss[k]]
  <2>1. \A n \in 1..Len(ss) : n # 1 => n - 1 \in 1..Len(ss)
    BY <1>1
  <2>2. \A n \in 1..Len(ss) : g[n] = f[n]
    OBVIOUS
  <2>. HIDE DEF g
  <2>3. \A n \in 1..Len(ss) : g[n] = IF n = 1 THEN ss[n] ELSE g[n - 1] \o ss[n]
    BY <1>4, <2>1, <2>2 DEF FlattenStep
  <2>4. g = [n \in 1..Len(ss) |-> g[n]]
    BY DEF g
  <2>. QED  BY <2>3, <2>4
<1>. HIDE DEF g
<1>6. flatten = [k \in 1..Len(ss) |-> IF k = 1 THEN ss[k] ELSE flatten[k - 1] \o ss[k]]
  BY <1>5, Zenon
<1>7. FlattenSeq(ss) = flatten[Len(ss)]
  BY DEF FlattenSeq
<1>. HIDE DEF flatten
<1>8. \A n \in 1..Len(ss) : flatten[n] = IF n = 1 THEN ss[n] ELSE flatten[n - 1] \o ss[n]
  BY <1>6, Zenon
<1>. DEFINE h == [n \in 0..Len(ss) |-> IF n = 0 THEN <<>> ELSE flatten[n]]
<1>9. h[0] = f[0] /\ \A n \in 1..Len(ss) : h[n] = flatten[n] /\ (n # 1 => h[n - 1] = flatten[n - 1])
  BY <1>1, <1>4 DEF FlattenStep
<1>. HIDE DEF h
<1>10. \A n \in 1..Len(ss) : h[n - 1] = f[n - 1] => h[n] = f[n]
  BY <1>4, <1>8, <1>9 DEF FlattenStep
<1>11. Agree(h, f, Len(ss))
  BY <1>1, <1>9, <1>10, Unique
<1>12. Len(ss) \in 1..Len(ss) /\ Len(ss) \in 0..Len(ss)
  BY <1>1
<1>13. FlattenSeq(ss) = f[Len(ss)]
  BY <1>7, <1>9, <1>11, <1>12 DEF Agree
<1>. QED  BY <1>4, <1>13

\* FlattenSeq of nothing.
LEMMA FlattenEmpty == FlattenSeq(<<>>) = <<>>
  BY DEF FlattenSeq

\* One sequence more is joined at the end.
LEMMA FlattenAppend ==
  ASSUME NEW S, NEW ss \in Seq(Seq(S)), NEW e \in Seq(S)
  PROVE  /\ FlattenSeq(ss) \in Seq(S)
         /\ FlattenSeq(Append(ss, e)) = FlattenSeq(ss) \o e
<1>. DEFINE tt == Append(ss, e)
<1>1. tt \in Seq(Seq(S)) /\ Len(tt) = Len(ss) + 1 /\ Len(ss) \in Nat /\ tt[Len(ss) + 1] = e
      /\ \A k \in 1..Len(ss) : tt[k] = ss[k]
  BY AppendProperties, LenProperties
<1>. HIDE DEF tt
<1>2. PICK g \in [0..Len(tt) -> Seq(S)] : FlattenStep(g, tt) /\ FlattenSeq(tt) = g[Len(tt)]
  <2>1. Len(tt) # 0
    BY <1>1
  <2>. QED  BY <1>1, <2>1, FlattenSteps
<1>3. CASE Len(ss) = 0
  <2>1. ss = <<>>
    BY <1>3, EmptySeq
  <2>2. FlattenSeq(ss) = <<>> /\ FlattenSeq(tt) = e
    BY <1>1, <1>2, <1>3, <2>1, FlattenEmpty DEF FlattenStep
  <2>. QED  BY <2>2, EmptySeq, ConcatEmptySeq DEF tt
<1>4. CASE Len(ss) # 0
  <2>1. PICK f \in [0..Len(ss) -> Seq(S)] : FlattenStep(f, ss) /\ FlattenSeq(ss) = f[Len(ss)]
    BY <1>4, FlattenSteps
  <2>2. \A n \in 1..Len(ss) : n \in 1..Len(tt) /\ tt[n] = ss[n] /\ tt[1] = ss[1]
    BY <1>1, <1>4
  <2>3. \A n \in 1..Len(ss) : f[n - 1] = g[n - 1] => f[n] = g[n]
    BY <1>2, <2>1, <2>2 DEF FlattenStep
  <2>4. f[Len(ss)] = g[Len(ss)]
    <3>1. Len(ss) \in Nat /\ f[0] = g[0]
      BY <1>1, <1>2, <2>1 DEF FlattenStep
    <3>2. Agree(f, g, Len(ss))
      BY <3>1, <2>3, Unique
    <3>. QED  BY <3>1, <3>2 DEF Agree
  <2>5. g[Len(tt)] = g[Len(ss)] \o e
    <3>1. Len(tt) \in 1..Len(tt) /\ Len(tt) # 1 /\ Len(tt) - 1 = Len(ss) /\ tt[Len(tt)] = e
      BY <1>1, <1>4
    <3>. QED  BY <3>1, <1>2 DEF FlattenStep
  <2>6. f[Len(ss)] \in Seq(S)
    <3>1. Len(ss) \in 0..Len(ss)
      BY <1>1
    <3>. QED  BY <3>1, <2>1
  <2>. QED  BY <1>2, <2>1, <2>4, <2>5, <2>6 DEF tt
<1>. QED  BY <1>3, <1>4

\* Two lists of sequences, one after the other.
LEMMA FlattenConcat ==
  ASSUME NEW S, NEW ss \in Seq(Seq(S)), NEW tt \in Seq(Seq(S))
  PROVE  FlattenSeq(ss \o tt) = FlattenSeq(ss) \o FlattenSeq(tt)
<1>. DEFINE T == {uu \in Seq(Seq(S)) : FlattenSeq(ss \o uu) = FlattenSeq(ss) \o FlattenSeq(uu)}
<1>0. \A uu \in Seq(Seq(S)) : FlattenSeq(uu) \in Seq(S)
  BY FlattenAppend, EmptySeq
<1>1. <<>> \in T
  BY <1>0, FlattenEmpty, ConcatEmptySeq, EmptySeq
<1>2. ASSUME NEW uu \in Seq(Seq(S)), NEW e \in Seq(S), uu \in T PROVE Append(uu, e) \in T
  <2>. DEFINE vv == ss \o uu
  <2>1. ss \o Append(uu, e) = Append(vv, e) /\ vv \in Seq(Seq(S)) /\ Append(uu, e) \in Seq(Seq(S))
    BY ConcatProperties, AppendProperties
  <2>2. FlattenSeq(vv) = FlattenSeq(ss) \o FlattenSeq(uu)
    BY <1>2
  <2>. HIDE DEF vv
  <2>3. FlattenSeq(Append(vv, e)) = FlattenSeq(vv) \o e /\ FlattenSeq(Append(uu, e)) = FlattenSeq(uu) \o e
    BY <2>1, FlattenAppend
  <2>4. (FlattenSeq(ss) \o FlattenSeq(uu)) \o e = FlattenSeq(ss) \o (FlattenSeq(uu) \o e)
    <3>. DEFINE a == FlattenSeq(ss)
                b == FlattenSeq(uu)
    <3>1. a \in Seq(S) /\ b \in Seq(S)
      BY <1>0
    <3>. HIDE DEF a, b
    <3>2. (a \o b) \o e = a \o (b \o e)
      BY <3>1, ConcatAssociative
    <3>. QED  BY <3>2 DEF a, b
  <2>. QED  BY <2>1, <2>2, <2>3, <2>4
<1>. HIDE DEF T
<1>3. Seq(Seq(S)) \subseteq T
  BY <1>1, <1>2, SequenceInduction
<1>. QED  BY <1>3 DEF T

----------------------------------------------------------------------------
(* The loop of WriteEncodedVideoFrame (mp4_writer.cpp, lines 109-157). *)

\* The values of the loop over a payload of members of S.
Loop(S) == [written : Seq(Seq(S)), buffer : Seq(S)]

\* What the loop does with one more NAL unit.
Unit(before, u, waits) ==
  LET units == Append(before.buffer, u)
  IN  IF u \in waits THEN [written |-> before.written, buffer |-> units]
      ELSE [written |-> Append(before.written, units), buffer |-> <<>>]

\* The recursive function in Split exists: it starts with nothing written and
\* takes one NAL unit after the other.
LEMMA SplitSteps ==
  ASSUME NEW S, NEW p \in Seq(S), NEW waits
  PROVE  /\ Split(p, waits) \in [0..Len(p) -> Loop(S)]
         /\ Split(p, waits)[0] = [written |-> <<>>, buffer |-> <<>>]
         /\ \A n \in 1..Len(p) : Split(p, waits)[n] = Unit(Split(p, waits)[n - 1], p[n], waits)
<1>. DEFINE start == [written |-> <<>>, buffer |-> <<>>]
            step == [n \in 1..Len(p) |-> [x \in Loop(S) |-> Unit(x, p[n], waits)]]
<1>1. Len(p) \in Nat /\ \A n \in 1..Len(p) : p[n] \in S
  BY LenProperties, ElementOfSeq
<1>2. step \in [1..Len(p) -> [Loop(S) -> Loop(S)]] /\ start \in Loop(S)
  <2>1. start \in Loop(S)
    BY EmptySeq DEF Loop
  <2>2. ASSUME NEW x \in Loop(S), NEW u \in S PROVE Unit(x, u, waits) \in Loop(S)
    <3>1. Append(x.buffer, u) \in Seq(S) /\ x.written \in Seq(Seq(S)) /\ <<>> \in Seq(S)
      BY AppendProperties, EmptySeq DEF Loop
    <3>. QED  BY <3>1, AppendProperties DEF Loop, Unit
  <2>. QED  BY <1>1, <2>1, <2>2
<1>. HIDE DEF start
<1>3. PICK f : Follows(f, Loop(S), Len(p), start, step)
  <2>. HIDE DEF step
  <2>. QED  BY <1>1, <1>2, Recursion
<1>4. /\ f \in [0..Len(p) -> Loop(S)] /\ f[0] = start
      /\ \A n \in 1..Len(p) : n - 1 \in 0..Len(p) /\ f[n] = Unit(f[n - 1], p[n], waits)
  BY <1>1, <1>3 DEF Follows
<1>. HIDE DEF step
<1>5. f = [n \in 0..Len(p) |-> IF n = 0 THEN start ELSE Unit(f[n - 1], p[n], waits)]
  <2>1. \A n \in 0..Len(p) : n = 0 \/ n \in 1..Len(p)
    BY <1>1
  <2>. QED  BY <1>4, <2>1
<1>. DEFINE split == CHOOSE g : g = [n \in 0..Len(p) |-> IF n = 0 THEN start ELSE Unit(g[n - 1], p[n], waits)]
<1>6. split = [n \in 0..Len(p) |-> IF n = 0 THEN start ELSE Unit(split[n - 1], p[n], waits)]
  BY <1>5, Zenon
<1>7. Split(p, waits) = split
  BY DEF Split, Unit, start
<1>. HIDE DEF split
<1>8. \A n \in 0..Len(p) : split[n] = IF n = 0 THEN start ELSE Unit(split[n - 1], p[n], waits)
  BY <1>6, Zenon
<1>9. split[0] = start /\ \A n \in 1..Len(p) : split[n] = Unit(split[n - 1], p[n], waits)
  BY <1>1, <1>8
<1>10. Agree(split, f, Len(p))
  <2>1. \A n \in 1..Len(p) : split[n - 1] = f[n - 1] => split[n] = f[n]
    BY <1>4, <1>9
  <2>. QED  BY <1>1, <1>4, <1>9, <2>1, Unique
<1>11. split \in [0..Len(p) -> Loop(S)]
  BY <1>4, <1>6, <1>10 DEF Agree
<1>. QED  BY <1>7, <1>9, <1>11 DEF start

\* The loop at the end of a payload.
End(p, waits) == Split(p, waits)[Len(p)]

\* The loop over no payload.
LEMMA EndEmpty ==
  ASSUME NEW waits
  PROVE  End(<<>>, waits) = [written |-> <<>>, buffer |-> <<>>]
  BY SplitSteps, EmptySeq DEF End

\* And over a payload that is a NAL unit longer.
LEMMA EndAppend ==
  ASSUME NEW S, NEW p \in Seq(S), NEW u \in S, NEW waits
  PROVE  End(p, waits) \in Loop(S) /\ End(Append(p, u), waits) = Unit(End(p, waits), u, waits)
<1>. DEFINE q == Append(p, u)
            f == Split(p, waits)
            g == Split(q, waits)
<1>1. q \in Seq(S) /\ Len(q) = Len(p) + 1 /\ Len(p) \in Nat /\ q[Len(q)] = u
      /\ \A k \in 1..Len(p) : q[k] = p[k]
  BY AppendProperties, LenProperties
<1>. HIDE DEF q
<1>2. f \in [0..Len(p) -> Loop(S)] /\ f[0] = g[0] /\ \A n \in 1..Len(p) : f[n] = Unit(f[n - 1], p[n], waits)
  BY <1>1, SplitSteps
<1>3. \A n \in 1..Len(q) : g[n] = Unit(g[n - 1], q[n], waits)
  BY <1>1, SplitSteps
<1>. HIDE DEF f, g
<1>4. \A n \in 1..Len(p) : f[n - 1] = g[n - 1] => f[n] = g[n]
  BY <1>1, <1>2, <1>3
<1>5. Agree(f, g, Len(p))
  BY <1>1, <1>2, <1>4, Unique
<1>6. g[Len(q)] = Unit(f[Len(p)], u, waits)
  <2>1. Len(q) \in 1..Len(q) /\ Len(q) - 1 = Len(p) /\ Len(p) \in 0..Len(p)
    BY <1>1
  <2>. QED  BY <1>1, <1>3, <1>5, <2>1 DEF Agree
<1>. QED  BY <1>1, <1>2, <1>6 DEF End, f, g, q

----------------------------------------------------------------------------
(* The invariant. *)

\* Types, and that a file is one of those considered.
Types ==
  /\ src \in Seq(0..255)
  /\ place \in {"scan", "split", "done"}
  /\ i \in Nat /\ piece \in Nat /\ head \in Nat /\ nalu_len \in Nat
  /\ naluList \in Seq(Nat)
  /\ buffer \in Seq(NalUnit)
  /\ groups \in Seq(Seq(NalUnit))
  /\ written \in Seq(Seq(Seq(NalUnit)))

\* While the file is scanned: the list holds codes that do not overlap, and no
\* code comes before the first of them.
NoneBefore(n) == \A j \in 0..(n - 1) : ~CodeAt(j)

Scanned ==
  place = "scan" =>
    /\ i <= Len(src)
    /\ \A m \in 1..Len(naluList) : CodeAt(naluList[m])
    /\ \A m \in 1..(Len(naluList) - 1) : naluList[m] + 4 <= naluList[m + 1]
    /\ IF naluList = <<>> THEN NoneBefore(i)
       ELSE NoneBefore(naluList[1]) /\ naluList[Len(naluList)] + 4 <= i
    /\ nalu_len = 0 /\ groups = <<>> /\ buffer = <<>> /\ written = <<>>

\* While it is split: the list ends with the length of the file, and the
\* payload begins with a code.
Pieces ==
  place = "split" =>
    /\ piece \in 1..(Len(naluList) - 1)
    /\ naluList[Len(naluList)] = Len(src)
    /\ \A m \in 1..(Len(naluList) - 1) : CodeAt(naluList[m])
    /\ \A m \in 1..(Len(naluList) - 1) : naluList[m] + 4 <= naluList[m + 1]
    /\ i <= Size

\* Behind the start code of the payload: the NAL unit begun last starts behind
\* a code, and no other code has ended since.
Begun ==
  place = "split" =>
    IF i <= 3 THEN nalu_len = i /\ buffer = <<>> /\ groups = <<>>
    ELSE /\ Base + 4 <= head /\ head + nalu_len = Base + i
         /\ head - 3 \in Codes
         /\ \A c \in head..(Base + i - 3) : ~ShortCodeAt(c)

\* The NAL units of the current payload, handed on or waiting, and all there
\* have been, in the order of the file.
Current == FlattenSeq(groups) \o buffer
Handed  == FlattenSeq(FlattenSeq(written)) \o Current

\* The offset up to which the codes have been met.
Reached ==
  CASE place = "scan"  -> 0
    [] place = "split" -> IF i <= 3 THEN Base ELSE head - 3
    [] place = "done"  -> Len(src)

\* Nothing is lost, merged, shortened or out of order up to there.
Complete == Only(Handed, NotEmpty) = UnitsBefore(Reached)

\* The writer's loop over the kinds of the current NAL units comes to the same
\* groups and the same buffer.
KindGroups(gs) == [j \in DOMAIN gs |-> Kinds(gs[j])]

Grouped ==
  /\ GroupsAsModelled
  /\ End(Kinds(Current), Waiting) = [written |-> KindGroups(groups), buffer |-> Kinds(buffer)]

\* What waits needs no more bytes than it came in, but for the codes without a
\* leading zero.
Room ==
  place = "split" /\ i > 3 =>
    Taken(buffer) <= (head - Base) - 4 + Cardinality(ThreeByteCodes(i - 1))

IInv ==
  /\ Types /\ Scanned /\ Pieces /\ Begun /\ Complete /\ Grouped /\ Room
  /\ place = "done" => Current = <<>>

----------------------------------------------------------------------------
(* Bytes and start codes. *)

Byte == 0..255

\* Every offset has a byte, which is zero behind the end of the file.
LEMMA Bytes ==
  ASSUME src \in Seq(Byte)
  PROVE  /\ Len(src) \in Nat
         /\ \A j \in Nat : At(j) \in Byte /\ (j >= Len(src) => At(j) = 0)
<1>1. Len(src) \in Nat /\ \A n \in 1..Len(src) : src[n] \in Byte
  BY LenProperties, ElementOfSeq
<1>. SUFFICES ASSUME NEW j \in Nat PROVE At(j) \in Byte /\ (j >= Len(src) => At(j) = 0)
  BY <1>1
<1>2. j < Len(src) => j + 1 \in 1..Len(src)
  BY <1>1
<1>. QED  BY <1>1, <1>2 DEF At, Byte

\* A code lies within the file.
LEMMA CodesInside ==
  ASSUME src \in Seq(Byte), NEW c \in Nat
  PROVE  /\ CodeAt(c) => c + 4 <= Len(src)
         /\ ShortCodeAt(c) => c + 3 <= Len(src)
<1>1. Len(src) \in Nat /\ \A j \in Nat : At(j) # 0 => j < Len(src)
  BY Bytes
<1>. QED  BY <1>1 DEF CodeAt, ShortCodeAt

\* A code behind a four-byte one counts, and no other.
LEMMA CodesBehind ==
  ASSUME src \in Seq(Byte), NEW c \in Nat
  PROVE  /\ c \in Codes => ShortCodeAt(c) /\ c + 3 <= Len(src) /\ \E j \in 0..(c - 1) : CodeAt(j)
         /\ \A j \in Nat : j < c /\ CodeAt(j) /\ ShortCodeAt(c) => c \in Codes
<1>1. Len(src) \in Nat /\ (ShortCodeAt(c) => c + 3 <= Len(src))
  BY Bytes, CodesInside
<1>. QED  BY <1>1 DEF Codes

\* A start code is known by its offset.
LEMMA CodesAreOffsets == Codes \subseteq Nat
  BY DEF Codes

\* Two codes do not overlap.
LEMMA CodesApart ==
  ASSUME NEW c \in Nat, NEW d \in Nat, ShortCodeAt(c), ShortCodeAt(d), c < d
  PROVE  c + 3 <= d
<1>1. At(c + 2) = 1 /\ At(d) = 0 /\ At(d + 1) = 0
  BY DEF ShortCodeAt
<1>2. d # c + 2 /\ d + 1 # c + 2
  BY <1>1
<1>. QED  BY <1>2

\* A NAL unit ends at the first code behind it ...
LEMMA EndsAtCode ==
  ASSUME src \in Seq(Byte), NEW at \in Nat, NEW c \in Codes, c >= at,
         \A d \in at..(c - 1) : ~ShortCodeAt(d)
  PROVE  UnitEnd(at) = IF At(c - 1) = 0 THEN c - 1 ELSE c
<1>. DEFINE later == {d \in Codes : d >= at}
<1>1. c \in later /\ c \in Nat /\ later \subseteq Nat
  BY CodesAreOffsets
<1>2. \A d \in later : c <= d
  <2>. SUFFICES ASSUME NEW d \in later, d < c PROVE FALSE
    BY <1>1
  <2>1. ShortCodeAt(d) /\ d \in at..(c - 1)
    BY <1>1, CodesBehind
  <2>. QED  BY <2>1
<1>3. Min(later) = c
  <2>1. \A d \in later : (\A e \in later : d <= e) => d = c
    BY <1>1, <1>2
  <2>. HIDE DEF later
  <2>2. Min(later) \in later /\ \A e \in later : Min(later) <= e
    BY <1>1, <1>2 DEF Min
  <2>. QED  BY <2>1, <2>2
<1>4. later # {}
  BY <1>1
<1>. HIDE DEF later
<1>5. UnitEnd(at) = IF later = {} THEN Len(src) ELSE IF At(Min(later) - 1) = 0 THEN Min(later) - 1 ELSE Min(later)
  BY DEF UnitEnd, later
<1>. QED  BY <1>3, <1>4, <1>5

\* ... or with the file.
LEMMA EndsWithFile ==
  ASSUME src \in Seq(Byte), NEW at \in Nat, \A c \in at..(Len(src) - 3) : ~ShortCodeAt(c)
  PROVE  UnitEnd(at) = Len(src)
<1>1. \A c \in Codes : ~(c >= at)
  <2>. SUFFICES ASSUME NEW c \in Codes, c >= at PROVE FALSE
    OBVIOUS
  <2>1. c \in Nat /\ Len(src) \in Nat /\ ShortCodeAt(c) /\ c + 3 <= Len(src)
    BY CodesAreOffsets, CodesBehind, Bytes
  <2>2. c \in at..(Len(src) - 3)
    BY <2>1
  <2>. QED  BY <2>1, <2>2
<1>. QED  BY <1>1 DEF UnitEnd

\* Behind every code there is a NAL unit.
LEMMA UnitsBehind ==
  ASSUME src \in Seq(Byte), NEW c \in Nat
  PROVE  Behind(c) \in NalUnit
<1>. DEFINE later == {d \in Codes : d >= c + 3}
<1>1. UnitEnd(c + 3) \in Nat
  <2>1. CASE later = {}
    BY <2>1, Bytes DEF UnitEnd
  <2>2. CASE later # {}
    <3>1. later \subseteq Nat /\ later \subseteq {d \in Nat : d >= c + 3}
      BY CodesAreOffsets
    <3>2. PICK d \in later : \A e \in later : d <= e
      <4>. HIDE DEF later
      <4>1. IsWellFoundedOn(Less, Nat)
        BY NatLessThanWellFounded DEF OpToRel, Less
      <4>2. \E x \in later : \A y \in later : ~(<<y, x>> \in Less)
        BY <2>2, <3>1, <4>1, WFMin
      <4>3. \A x \in Nat : \A y \in Nat : ~(<<y, x>> \in Less) => x <= y
        BY DEF Less
      <4>. QED  BY <3>1, <4>2, <4>3
    <3>. HIDE DEF later
    <3>3. Min(later) \in Nat /\ Min(later) >= c + 3
      <4>1. Min(later) \in later
        BY <3>2 DEF Min
      <4>. QED  BY <3>1, <4>1
    <3>4. UnitEnd(c + 3) = IF At(Min(later) - 1) = 0 THEN Min(later) - 1 ELSE Min(later)
      BY <2>2 DEF UnitEnd, later
    <3>. DEFINE least == Min(later)
    <3>5. least \in Nat /\ least >= c + 3 /\ UnitEnd(c + 3) = IF At(least - 1) = 0 THEN least - 1 ELSE least
      BY <3>3, <3>4
    <3>. HIDE DEF least
    <3>. QED  BY <3>5
  <2>. QED  BY <2>1, <2>2
<1>. QED  BY <1>1 DEF Behind, NalUnit

----------------------------------------------------------------------------
(* The NAL units before an offset. *)

Recorded == {Behind(c) : c \in Codes} \cap NotEmpty

\* Behind a code there is a unit of the file unless it is empty, and behind
\* other offsets there is none.
LEMMA RecordedUnits ==
  ASSUME NEW c \in Nat
  PROVE  Behind(c) \in Recorded <=> c \in Codes /\ Behind(c) \in NotEmpty
<1>1. \A d \in Codes : Behind(d) = Behind(c) => d = c
  <2>. SUFFICES ASSUME NEW d \in Codes, Behind(d) = Behind(c) PROVE d = c
    OBVIOUS
  <2>1. Behind(d).at = Behind(c).at
    OBVIOUS
  <2>2. d + 3 = c + 3
    BY <2>1 DEF Behind
  <2>. QED  BY <2>2, CodesAreOffsets
<1>. QED  BY <1>1 DEF Recorded

\* A function on 1..n is a sequence.
LEMMA FunctionIsSequence ==
  ASSUME NEW S, NEW n \in Nat, NEW f \in [1..n -> S]
  PROVE  f \in Seq(S) /\ Len(f) = n
  BY SeqDef, LenProperties

\* One offset further ...
LEMMA UnitsBeforeNext ==
  ASSUME src \in Seq(Byte), NEW n \in Nat
  PROVE  /\ UnitsBefore(n) \in Seq(NalUnit)
         /\ UnitsBefore(n + 1) = IF n \in Codes /\ Behind(n) \in NotEmpty
                                   THEN Append(UnitsBefore(n), Behind(n)) ELSE UnitsBefore(n)
<1>. DEFINE s == [m \in 1..n |-> Behind(m - 1)]
            t == [m \in 1..(n + 1) |-> Behind(m - 1)]
<1>1. \A c \in Nat : Behind(c) \in NalUnit
  BY UnitsBehind
<1>2. s \in [1..n -> NalUnit] /\ t \in [1..(n + 1) -> NalUnit]
  BY <1>1
<1>3. s \in Seq(NalUnit) /\ t \in Seq(NalUnit) /\ Len(s) = n /\ Len(t) = n + 1
  BY <1>2, FunctionIsSequence
<1>4. t = Append(s, Behind(n))
  <2>1. t[n + 1] = Behind(n) /\ \A m \in 1..n : t[m] = s[m]
    OBVIOUS
  <2>. HIDE DEF s, t
  <2>. DEFINE u == Append(s, Behind(n))
  <2>2. u \in Seq(NalUnit) /\ Len(u) = n + 1 /\ u[n + 1] = Behind(n) /\ \A m \in 1..n : u[m] = s[m]
    BY <1>1, <1>3, AppendProperties
  <2>. HIDE DEF u
  <2>3. \A m \in 1..(n + 1) : t[m] = u[m]
    BY <2>1, <2>2
  <2>4. t = u
    BY <1>3, <2>2, <2>3, SeqEqual
  <2>. QED  BY <2>4 DEF u
<1>5. UnitsBefore(n) = Only(s, Recorded) /\ UnitsBefore(n + 1) = Only(t, Recorded)
  BY DEF UnitsBefore, Recorded
<1>. HIDE DEF s, t
<1>6. /\ Only(s, Recorded) \in Seq(NalUnit)
      /\ Only(t, Recorded) = IF Behind(n) \in Recorded THEN Append(Only(s, Recorded), Behind(n))
                             ELSE Only(s, Recorded)
  BY <1>1, <1>3, <1>4, OnlyAppend
<1>. QED  BY <1>5, <1>6, RecordedUnits

\* ... and further still, when no code lies on the way.
LEMMA UnitsBeforeLater ==
  ASSUME src \in Seq(Byte), NEW a \in Nat, NEW b \in Nat, a <= b,
         \A c \in a..(b - 1) : c \notin Codes
  PROVE  UnitsBefore(b) = UnitsBefore(a)
<1>. DEFINE S == {n \in Nat : a + n <= b => UnitsBefore(a + n) = UnitsBefore(a)}
<1>1. 0 \in S
  BY DEF S
<1>2. ASSUME NEW n \in Nat, n \in S PROVE n + 1 \in S
  <2>. SUFFICES ASSUME a + (n + 1) <= b PROVE UnitsBefore(a + (n + 1)) = UnitsBefore(a)
    OBVIOUS
  <2>1. a + n \in Nat /\ a + n \in a..(b - 1) /\ a + (n + 1) = (a + n) + 1
    OBVIOUS
  <2>2. UnitsBefore((a + n) + 1) = UnitsBefore(a + n)
    BY <2>1, UnitsBeforeNext
  <2>. QED  BY <1>2, <2>1, <2>2
<1>. HIDE DEF S
<1>3. b - a \in S
  <2>1. Nat \subseteq S
    BY <1>1, <1>2, Induction
  <2>. QED  BY <2>1
<1>4. a + (b - a) = b
  OBVIOUS
<1>. QED  BY <1>3, <1>4 DEF S

\* Nothing is recorded as long as there is no code.
LEMMA UnitsBeforeNone ==
  ASSUME src \in Seq(Byte), NEW n \in Nat, \A c \in 0..(n - 1) : c \notin Codes
  PROVE  UnitsBefore(n) = <<>>
<1>1. UnitsBefore(0) = <<>>
  <2>1. [m \in 1..0 |-> Behind(m - 1)] = <<>>
    <3>. DEFINE s == [m \in 1..0 |-> Behind(m - 1)]
    <3>1. s \in [1..0 -> NalUnit]
      OBVIOUS
    <3>2. s \in Seq(NalUnit) /\ Len(s) = 0
      BY <3>1, FunctionIsSequence
    <3>. QED  BY <3>2, EmptySeq
  <2>. QED  BY <2>1, OnlyEmpty DEF UnitsBefore
<1>2. UnitsBefore(n) = UnitsBefore(0)
  BY UnitsBeforeLater
<1>. QED  BY <1>1, <1>2

----------------------------------------------------------------------------
(* The bytes taken, and the kinds. *)

\* Taken adds up one NAL unit after the other.
LEMMA TakenSteps ==
  ASSUME NEW s \in Seq(NalUnit)
  PROVE  \E f \in [0..Len(s) -> Int] :
           f[0] = 0 /\ Taken(s) = f[Len(s)] /\ \A n \in 1..Len(s) : f[n] = f[n - 1] + 4 + (s[n].to - s[n].at)
<1>. DEFINE taken == CHOOSE f : f = [n \in 0..Len(s) |->
                       IF n = 0 THEN 0 ELSE f[n - 1] + 4 + (s[n].to - s[n].at)]
            step == [n \in 1..Len(s) |-> [x \in Int |-> x + 4 + (s[n].to - s[n].at)]]
<1>1. Len(s) \in Nat /\ \A n \in 1..Len(s) : s[n].to \in Int /\ s[n].at \in Int
  <2>1. Len(s) \in Nat /\ \A n \in 1..Len(s) : s[n] \in NalUnit
    BY LenProperties, ElementOfSeq
  <2>. QED  BY <2>1 DEF NalUnit
<1>2. step \in [1..Len(s) -> [Int -> Int]]
  BY <1>1
<1>3. PICK f : Follows(f, Int, Len(s), 0, step)
  <2>. HIDE DEF step
  <2>1. 0 \in Int
    OBVIOUS
  <2>. QED  BY <1>1, <1>2, <2>1, Recursion
<1>4. /\ f \in [0..Len(s) -> Int] /\ f[0] = 0
      /\ \A n \in 1..Len(s) : n - 1 \in 0..Len(s) /\ f[n] = f[n - 1] + 4 + (s[n].to - s[n].at)
  <2>1. f \in [0..Len(s) -> Int] /\ f[0] = 0 /\ \A n \in 1..Len(s) : f[n] = step[n][f[n - 1]]
    BY <1>3 DEF Follows
  <2>2. \A n \in 1..Len(s) : n - 1 \in 0..Len(s)
    BY <1>1
  <2>. QED  BY <2>1, <2>2
<1>. HIDE DEF step
<1>5. f = [n \in 0..Len(s) |-> IF n = 0 THEN 0 ELSE f[n - 1] + 4 + (s[n].to - s[n].at)]
  <2>1. \A n \in 0..Len(s) : n = 0 \/ n \in 1..Len(s)
    BY <1>1
  <2>. QED  BY <1>4, <2>1
<1>6. taken = [n \in 0..Len(s) |-> IF n = 0 THEN 0 ELSE taken[n - 1] + 4 + (s[n].to - s[n].at)]
  BY <1>5, Zenon
<1>7. Taken(s) = taken[Len(s)]
  BY DEF Taken
<1>. HIDE DEF taken
<1>8. \A n \in 0..Len(s) : taken[n] = IF n = 0 THEN 0 ELSE taken[n - 1] + 4 + (s[n].to - s[n].at)
  BY <1>6, Zenon
<1>9. taken[0] = f[0] /\ \A n \in 1..Len(s) : taken[n - 1] = f[n - 1] => taken[n] = f[n]
  BY <1>1, <1>4, <1>8
<1>10. taken[Len(s)] = f[Len(s)]
  <2>1. Agree(taken, f, Len(s))
    BY <1>1, <1>9, Unique
  <2>. QED  BY <1>1, <2>1 DEF Agree
<1>. QED  BY <1>4, <1>7, <1>10

\* No NAL units take no bytes.
LEMMA TakenEmpty == Taken(<<>>) = 0
  BY TakenSteps, EmptySeq

\* One NAL unit more takes its bytes and its length field.
LEMMA TakenAppend ==
  ASSUME NEW s \in Seq(NalUnit), NEW e \in NalUnit
  PROVE  Taken(s) \in Int /\ Taken(Append(s, e)) = Taken(s) + 4 + (e.to - e.at)
<1>. DEFINE t == Append(s, e)
<1>1. t \in Seq(NalUnit) /\ Len(t) = Len(s) + 1 /\ Len(s) \in Nat /\ t[Len(s) + 1] = e
      /\ \A n \in 1..Len(s) : t[n] = s[n]
  BY AppendProperties, LenProperties
<1>. HIDE DEF t
<1>2. PICK f \in [0..Len(s) -> Int] :
        f[0] = 0 /\ Taken(s) = f[Len(s)] /\ \A n \in 1..Len(s) : f[n] = f[n - 1] + 4 + (s[n].to - s[n].at)
  BY TakenSteps
<1>3. PICK g \in [0..Len(t) -> Int] :
        g[0] = 0 /\ Taken(t) = g[Len(t)] /\ \A n \in 1..Len(t) : g[n] = g[n - 1] + 4 + (t[n].to - t[n].at)
  BY <1>1, TakenSteps
<1>4. f[Len(s)] = g[Len(s)]
  <2>1. \A n \in 1..Len(s) : n \in 1..Len(t) /\ t[n] = s[n]
    BY <1>1
  <2>2. \A n \in 1..Len(s) : f[n - 1] = g[n - 1] => f[n] = g[n]
    BY <1>2, <1>3, <2>1
  <2>3. Agree(f, g, Len(s))
    BY <1>1, <1>2, <1>3, <2>2, Unique
  <2>. QED  BY <1>1, <2>3 DEF Agree
<1>5. Len(t) \in 1..Len(t) /\ Len(t) - 1 = Len(s) /\ t[Len(t)] = e /\ Len(s) \in 0..Len(s)
  BY <1>1
<1>. QED  BY <1>2, <1>3, <1>4, <1>5 DEF t

\* The kinds of NAL units, one unit and one group at a time.
LEMMA KindsAreKinds ==
  /\ \A unit : KindOf(unit) \in Kind
  /\ \A unit : KindOf(unit) \in Waiting <=> ~Flushed(unit.at)
  BY DEF KindOf, Kind, Waiting, SpsKinds, PpsKinds, Flushed

\* The kinds of one NAL unit more.
LEMMA KindsAppend ==
  ASSUME NEW s \in Seq(NalUnit), NEW e \in NalUnit
  PROVE  /\ Kinds(s) \in Seq(Kind) /\ Len(Kinds(s)) = Len(s)
         /\ Kinds(Append(s, e)) = Append(Kinds(s), KindOf(e))
<1>. DEFINE t == Append(s, e)
            a == Kinds(s)
            b == Kinds(t)
            c == Append(a, KindOf(e))
<1>1. t \in Seq(NalUnit) /\ Len(t) = Len(s) + 1 /\ Len(s) \in Nat /\ t[Len(s) + 1] = e
      /\ \A n \in 1..Len(s) : t[n] = s[n]
  BY AppendProperties, LenProperties
<1>2. DOMAIN s = 1..Len(s) /\ DOMAIN t = 1..Len(t)
  BY <1>1, LenProperties
<1>. HIDE DEF t
<1>3. a \in [1..Len(s) -> Kind] /\ b \in [1..Len(t) -> Kind]
      /\ (\A n \in 1..Len(s) : a[n] = KindOf(s[n])) /\ \A n \in 1..Len(t) : b[n] = KindOf(t[n])
  BY <1>2, KindsAreKinds DEF Kinds
<1>. HIDE DEF a, b
<1>4. a \in Seq(Kind) /\ b \in Seq(Kind) /\ Len(a) = Len(s) /\ Len(b) = Len(t)
  <2>1. Len(s) \in Nat /\ Len(t) \in Nat /\ a \in [1..Len(s) -> Kind] /\ b \in [1..Len(t) -> Kind]
    BY <1>1, <1>3
  <2>. QED  BY ONLY <2>1, FunctionIsSequence
<1>5. c \in Seq(Kind) /\ Len(c) = Len(s) + 1 /\ c[Len(s) + 1] = KindOf(e)
      /\ \A n \in 1..Len(s) : c[n] = a[n]
  BY <1>4, KindsAreKinds, AppendProperties
<1>. HIDE DEF c
<1>6. \A n \in 1..(Len(s) + 1) : b[n] = c[n]
  BY <1>1, <1>3, <1>5
<1>7. b = c
  BY <1>1, <1>4, <1>5, <1>6, SeqEqual
<1>. QED  BY <1>4, <1>7 DEF a, b, c, t

\* No NAL units have no kinds, and no groups either.
LEMMA KindsEmpty == Kinds(<<>>) = <<>> /\ KindGroups(<<>>) = <<>>
  BY DEF Kinds, KindGroups

\* The kinds of one group more.
LEMMA KindGroupsAppend ==
  ASSUME NEW s \in Seq(Seq(NalUnit)), NEW e \in Seq(NalUnit)
  PROVE  KindGroups(Append(s, e)) = Append(KindGroups(s), Kinds(e))
<1>. DEFINE t == Append(s, e)
            a == KindGroups(s)
            b == KindGroups(t)
            c == Append(a, Kinds(e))
<1>1. t \in Seq(Seq(NalUnit)) /\ Len(t) = Len(s) + 1 /\ Len(s) \in Nat /\ t[Len(s) + 1] = e
      /\ \A n \in 1..Len(s) : t[n] = s[n]
  BY AppendProperties, LenProperties
<1>2. DOMAIN s = 1..Len(s) /\ DOMAIN t = 1..Len(t) /\ \A n \in 1..Len(s) : s[n] \in Seq(NalUnit)
  BY <1>1, LenProperties, ElementOfSeq
<1>. HIDE DEF t
<1>3. a \in [1..Len(s) -> Seq(Kind)] /\ b \in [1..Len(t) -> Seq(Kind)]
      /\ (\A n \in 1..Len(s) : a[n] = Kinds(s[n])) /\ \A n \in 1..Len(t) : b[n] = Kinds(t[n])
  <2>1. \A n \in 1..Len(t) : t[n] \in Seq(NalUnit)
    BY <1>1, <1>2
  <2>2. \A x \in Seq(NalUnit) : Kinds(x) \in Seq(Kind)
    <3>1. [at |-> 0, to |-> 0] \in NalUnit
      BY DEF NalUnit
    <3>. QED  BY <3>1, KindsAppend
  <2>. QED  BY <1>2, <2>1, <2>2 DEF KindGroups
<1>. HIDE DEF a, b
<1>4. a \in Seq(Seq(Kind)) /\ b \in Seq(Seq(Kind)) /\ Len(a) = Len(s) /\ Len(b) = Len(t)
  <2>1. Len(s) \in Nat /\ Len(t) \in Nat /\ a \in [1..Len(s) -> Seq(Kind)] /\ b \in [1..Len(t) -> Seq(Kind)]
    BY <1>1, <1>3
  <2>. QED  BY ONLY <2>1, FunctionIsSequence
<1>5. c \in Seq(Seq(Kind)) /\ Len(c) = Len(s) + 1 /\ c[Len(s) + 1] = Kinds(e)
      /\ \A n \in 1..Len(s) : c[n] = a[n]
  <2>1. Kinds(e) \in Seq(Kind)
    <3>1. b[Len(s) + 1] = Kinds(e) /\ Len(s) + 1 \in 1..Len(t)
      BY <1>1, <1>3
    <3>. QED  BY <1>3, <3>1
  <2>. QED  BY <1>4, <2>1, AppendProperties
<1>. HIDE DEF c
<1>6. \A n \in 1..(Len(s) + 1) : b[n] = c[n]
  <2>1. \A n \in 1..Len(s) : b[n] = c[n]
    <3>1. \A n \in 1..Len(s) : n \in 1..Len(t)
      BY <1>1
    <3>. QED  BY <1>1, <1>3, <1>5, <3>1
  <2>2. b[Len(s) + 1] = c[Len(s) + 1]
    <3>1. Len(s) + 1 \in 1..Len(t)
      BY <1>1
    <3>. QED  BY <1>1, <1>3, <1>5, <3>1
  <2>3. \A n \in 1..(Len(s) + 1) : n \in 1..Len(s) \/ n = Len(s) + 1
    BY <1>1
  <2>. QED  BY <2>1, <2>2, <2>3
<1>7. b = c
  BY <1>1, <1>4, <1>5, <1>6, SeqEqual
<1>. QED  BY <1>7 DEF a, b, c, t

----------------------------------------------------------------------------
(* What the steps leave alone. *)

\* The bytes of the file stay, and with them all that is said about them.
LEMMA BytesStay ==
  ASSUME src' = src
  PROVE  /\ \A j : At(j)' = At(j)
         /\ \A j : CodeAt(j)' = CodeAt(j) /\ ShortCodeAt(j)' = ShortCodeAt(j)
         /\ Codes' = Codes
         /\ \A c : Behind(c)' = Behind(c)
         /\ \A n : NoneBefore(n)' = NoneBefore(n)
<1>1. \A j : At(j)' = At(j)
  BY DEF At
<1>2. \A j : CodeAt(j)' = CodeAt(j) /\ ShortCodeAt(j)' = ShortCodeAt(j)
  BY Zenon DEF At, CodeAt, ShortCodeAt
<1>3. Codes' = Codes
  BY <1>2 DEF Codes
<1>4. \A at : UnitEnd(at)' = UnitEnd(at)
  BY <1>3, Zenon DEF UnitEnd, At
<1>5. \A c : Behind(c)' = Behind(c)
  BY <1>4 DEF Behind
<1>6. \A n : NoneBefore(n)' = NoneBefore(n)
  BY <1>2, Zenon DEF NoneBefore
<1>. QED  BY <1>1, <1>2, <1>3, <1>5, <1>6

\* The NAL units before an offset stay, too.
LEMMA UnitsBeforeStays ==
  ASSUME src' = src
  PROVE  UnitsBefore(Reached)' = UnitsBefore(Reached')
<1>1. (\A c : Behind(c)' = Behind(c)) /\ Codes' = Codes
  BY BytesStay
<1>2. [m \in 1..Reached' |-> Behind(m - 1)'] = [m \in 1..Reached' |-> Behind(m - 1)]
  BY <1>1
<1>3. {Behind(c)' : c \in Codes'} = {Behind(c) : c \in Codes}
  BY <1>1
<1>. QED  BY <1>2, <1>3 DEF UnitsBefore

\* So do the kinds of NAL units.
LEMMA KindsStay ==
  ASSUME src' = src
  PROVE  /\ \A unit : KindOf(unit)' = KindOf(unit)
         /\ \A s : Kinds(s)' = Kinds(s)
         /\ \A gs : KindGroups(gs)' = KindGroups(gs)
         /\ \A at : Flushed(at)' = Flushed(at)
<1>1. \A unit : KindOf(unit)' = KindOf(unit)
  BY DEF KindOf, At
<1>2. \A s : Kinds(s)' = Kinds(s)
  BY <1>1 DEF Kinds
<1>3. \A gs : KindGroups(gs)' = KindGroups(gs)
  BY <1>2 DEF KindGroups
<1>4. \A at : Flushed(at)' = Flushed(at)
  BY Zenon DEF Flushed, At
<1>. QED  BY <1>1, <1>2, <1>3, <1>4

\* As long as the payload is the same, so are its place and its bytes.
LEMMA PayloadStays ==
  ASSUME UNCHANGED <<src, naluList, piece>>
  PROVE  /\ Base' = Base /\ Size' = Size
         /\ \A j : Data(j)' = Data(j)
         /\ \A n : ThreeByteCodes(n)' = ThreeByteCodes(n)
<1>1. Base' = Base /\ Size' = Size
  BY Zenon DEF Base, Size
<1>2. \A j : Data(j)' = Data(j)
  BY Zenon DEF Data, Base, At
<1>3. \A n : ThreeByteCodes(n)' = ThreeByteCodes(n)
  BY <1>2 DEF ThreeByteCodes
<1>. QED  BY <1>1, <1>2, <1>3

----------------------------------------------------------------------------
(* The loop over one payload. *)

\* A payload starts with a four-byte code, and ends at the next one or with
\* the file.
LEMMA Payload ==
  ASSUME Types, Pieces, place = "split"
  PROVE  /\ Base \in Nat /\ Size \in Nat /\ Size >= 4 /\ i <= Size
         /\ Base + Size = naluList[piece + 1]
         /\ CodeAt(Base) /\ Base + Size <= Len(src)
         /\ IF piece + 1 = Len(naluList) THEN Base + Size = Len(src) ELSE CodeAt(Base + Size)
<1>1. Len(naluList) \in Nat /\ \A m \in 1..Len(naluList) : naluList[m] \in Nat
  BY LenProperties, ElementOfSeq DEF Types
<1>2. piece \in 1..(Len(naluList) - 1) /\ naluList[Len(naluList)] = Len(src) /\ i <= Size
  BY DEF Pieces
<1>3. naluList[piece] \in Nat /\ naluList[piece + 1] \in Nat
  BY <1>1, <1>2
<1>4. CodeAt(naluList[piece]) /\ naluList[piece] + 4 <= naluList[piece + 1]
  BY <1>2 DEF Pieces
<1>5. piece + 1 # Len(naluList) => CodeAt(naluList[piece + 1])
  <2>1. piece + 1 # Len(naluList) => piece + 1 \in 1..(Len(naluList) - 1)
    BY <1>1, <1>2
  <2>. QED  BY <2>1 DEF Pieces
<1>6. naluList[piece + 1] <= Len(src)
  <2>1. Len(src) \in Nat /\ (CodeAt(naluList[piece + 1]) => naluList[piece + 1] + 4 <= Len(src))
    BY <1>3, Bytes, CodesInside DEF Types, Byte
  <2>. QED  BY <2>1, <1>2, <1>3, <1>5
<1>. DEFINE b == naluList[piece]
            n == naluList[piece + 1]
<1>7. Base = b /\ Size = n - b
  BY DEF Base, Size
<1>8. b \in Nat /\ n \in Nat /\ b + 4 <= n /\ n <= Len(src) /\ b + (n - b) = n
  BY <1>3, <1>4, <1>6
<1>9. CodeAt(b) /\ (IF piece + 1 = Len(naluList) THEN n = Len(src) ELSE CodeAt(n))
  BY <1>2, <1>4, <1>5
<1>. HIDE DEF b, n
<1>10. Base + Size = n
  BY <1>7, <1>8
<1>. QED  BY <1>2, <1>7, <1>8, <1>9, <1>10 DEF n

\* The loop finds a code where there is one.
LEMMA ShortCodeFound ==
  ASSUME Types, Pieces, place = "split"
  PROVE  /\ i = 3 => ShortCode
         /\ i > 2 => (ShortCode <=> ShortCodeAt(Base + i - 2))
         /\ i > 2 => Base + i - 2 \in Nat
         /\ i > 3 => Data(i - 3) = At((Base + i - 2) - 1)
<1>1. Base \in Nat /\ i \in Nat /\ CodeAt(Base)
  BY Payload DEF Types
<1>2. i > 2 => (ShortCode <=> ShortCodeAt(Base + i - 2))
  <2>. DEFINE c == Base + i - 2
  <2>1. Base + (i - 2) = c /\ Base + (i - 1) = c + 1 /\ Base + i = c + 2
    BY <1>1
  <2>. HIDE DEF c
  <2>2. i > 2 => (ShortCode <=> ShortCodeAt(c))
    BY <2>1 DEF ShortCode, ShortCodeAt, Data
  <2>. QED  BY <2>2 DEF c
<1>3. i = 3 => ShortCode
  <2>1. i = 3 => Base + (i - 2) = Base + 1 /\ Base + (i - 1) = Base + 2 /\ Base + i = Base + 3
    BY <1>1
  <2>. QED  BY <1>1, <2>1 DEF CodeAt, ShortCode, Data
<1>4. Base + (i - 3) = (Base + i - 2) - 1 /\ (i > 2 => Base + i - 2 \in Nat)
  BY <1>1
<1>. QED  BY <1>2, <1>3, <1>4 DEF Data

\* Behind the code of the payload: the NAL unit begun last.
LEMMA UnitBegun ==
  ASSUME Types, Pieces, Begun, place = "split", i > 3
  PROVE  /\ head \in Nat /\ nalu_len \in Nat /\ head - 3 \in Nat
         /\ Base + 4 <= head /\ head + nalu_len = Base + i
         /\ head - 3 \in Codes /\ ShortCodeAt(head - 3)
         /\ \A c \in head..(Base + i - 3) : ~ShortCodeAt(c)
         /\ \A c \in (head - 2)..(Base + i - 3) : ~ShortCodeAt(c)
<1>1. head \in Nat /\ nalu_len \in Nat /\ i \in Nat /\ Base \in Nat
  BY Payload DEF Types
<1>2. /\ Base + 4 <= head /\ head + nalu_len = Base + i /\ head - 3 \in Codes
      /\ \A c \in head..(Base + i - 3) : ~ShortCodeAt(c)
  BY <1>1 DEF Begun
<1>3. head - 3 \in Nat /\ ShortCodeAt(head - 3)
  BY <1>2, CodesAreOffsets, CodesBehind DEF Types, Byte
<1>4. ASSUME NEW c \in (head - 2)..(Base + i - 3), ShortCodeAt(c) PROVE FALSE
  <2>1. c \in Nat /\ head - 3 < c
    BY <1>1, <1>3, <1>4
  <2>2. (head - 3) + 3 <= c
    BY <1>3, <1>4, <2>1, CodesApart
  <2>. QED  BY <1>1, <1>2, <1>4, <2>2
<1>. QED  BY <1>1, <1>2, <1>3, <1>4

\* Where the loop finds another code, this NAL unit ends.
LEMMA CodeEndsUnit ==
  ASSUME Types, Pieces, Begun, place = "split", i < Size, ShortCode, i - 2 \notin {0, 1}
  PROVE  /\ i > 3
         /\ Base + i - 2 \in Codes /\ head <= Base + i - 2
         /\ CopyLength \in Int
         /\ [at |-> head, to |-> head + CopyLength] = Behind(head - 3)
         /\ \A c \in (head - 2)..(Base + i - 3) : c \notin Codes
         /\ CopyLength = nalu_len - (IF Data(i - 3) = 0 THEN 3 ELSE 2)
<1>. DEFINE c == Base + i - 2
<1>1. i > 3
  BY DEF Types, ShortCode
<1>2. /\ head \in Nat /\ nalu_len \in Nat /\ i \in Nat /\ Base \in Nat /\ head - 3 \in Nat
      /\ Base + 4 <= head /\ head + nalu_len = Base + i
  BY <1>1, Payload, UnitBegun DEF Types
<1>3. c \in Nat /\ ShortCodeAt(c) /\ Base < c
  BY <1>1, <1>2, ShortCodeFound
<1>4. c \in Codes
  <2>. HIDE DEF c
  <2>1. CodeAt(Base) /\ src \in Seq(Byte)
    BY Payload DEF Types, Byte
  <2>. QED  BY <1>2, <1>3, <2>1, CodesBehind
<1>5. head <= c
  <2>1. ShortCodeAt(head - 3) /\ head - 3 < c
    BY <1>1, <1>2, UnitBegun
  <2>. HIDE DEF c
  <2>2. (head - 3) + 3 <= c
    BY <1>2, <1>3, <2>1, CodesApart
  <2>. QED  BY <1>2, <2>2
<1>6. \A d \in head..(c - 1) : ~ShortCodeAt(d)
  <2>1. c - 1 = Base + i - 3
    BY <1>2
  <2>. HIDE DEF c
  <2>. QED  BY <1>1, <2>1, UnitBegun
<1>7. UnitEnd(head) = IF At(c - 1) = 0 THEN c - 1 ELSE c
  <2>. HIDE DEF c
  <2>1. src \in Seq(Byte)
    BY DEF Types, Byte
  <2>. QED  BY <1>2, <1>3, <1>4, <1>5, <1>6, <2>1, EndsAtCode
<1>8. CopyLength = nalu_len - (IF At(c - 1) = 0 THEN 3 ELSE 2)
  BY <1>1, ShortCodeFound DEF CopyLength
<1>9. head + CopyLength = UnitEnd(head) /\ CopyLength \in Int
  <2>1. c = (head + nalu_len) - 2
    BY <1>2
  <2>. HIDE DEF c
  <2>. QED  BY <1>2, <1>7, <1>8, <2>1
<1>10. [at |-> head, to |-> head + CopyLength] = Behind(head - 3)
  <2>1. (head - 3) + 3 = head
    BY <1>2
  <2>. QED  BY <1>9, <2>1 DEF Behind
<1>11. ASSUME NEW d \in (head - 2)..(Base + i - 3), d \in Codes PROVE FALSE
  <2>1. ShortCodeAt(d)
    BY <1>11, CodesAreOffsets, CodesBehind DEF Types, Byte
  <2>. QED  BY <1>1, <2>1, UnitBegun
<1>. QED  BY <1>1, <1>4, <1>5, <1>9, <1>10, <1>11 DEF CopyLength

\* It also ends with the payload.
LEMMA PayloadEndsUnit ==
  ASSUME Types, Pieces, Begun, place = "split", i = Size
  PROVE  /\ i > 3
         /\ [at |-> head, to |-> head + nalu_len] = Behind(head - 3)
         /\ \A c \in (head - 2)..(Base + Size - 1) : c \notin Codes
<1>1. i > 3 /\ Base \in Nat /\ Size \in Nat /\ i \in Nat /\ src \in Seq(Byte) /\ Base + Size <= Len(src)
  BY Payload DEF Types, Byte
<1>. DEFINE n == Base + Size
<1>2. /\ head \in Nat /\ nalu_len \in Nat /\ head - 3 \in Nat /\ n \in Nat
      /\ Base + 4 <= head /\ head + nalu_len = n
      /\ \A c \in (head - 2)..(n - 3) : ~ShortCodeAt(c)
  BY <1>1, UnitBegun
<1>3. CodeAt(Base) /\ (n = Len(src) \/ CodeAt(n))
  BY Payload
<1>4. Len(src) \in Nat /\ n <= Len(src)
  BY <1>1, Bytes
<1>. HIDE DEF n
<1>5. ASSUME NEW c \in (head - 2)..(n - 1) PROVE c \notin Codes
  <2>. SUFFICES ASSUME c \in Codes PROVE FALSE
    OBVIOUS
  <2>1. c \in Nat /\ ShortCodeAt(c) /\ c + 3 <= Len(src) /\ c \notin (head - 2)..(n - 3)
    BY <1>1, <1>2, CodesAreOffsets, CodesBehind
  <2>2. c = n - 2 \/ c = n - 1
    BY <1>2, <2>1
  <2>3. n # Len(src)
    BY <1>2, <2>1, <2>2
  <2>4. At(n) = 0 /\ At(n + 1) = 0
    BY <1>3, <2>3 DEF CodeAt
  <2>5. At(c + 2) = 1
    BY <2>1 DEF ShortCodeAt
  <2>6. c + 2 = n \/ c + 2 = n + 1
    BY <1>2, <2>2
  <2>. QED  BY <2>4, <2>5, <2>6
<1>6. UnitEnd(head) = n
  <2>1. CASE n = Len(src)
    <3>1. \A c \in head..(Len(src) - 3) : ~ShortCodeAt(c)
      BY <1>2, <2>1
    <3>. QED  BY <1>1, <1>2, <2>1, <3>1, EndsWithFile
  <2>2. CASE CodeAt(n)
    <3>. DEFINE c == n + 1
    <3>1. c \in Nat /\ ShortCodeAt(c) /\ At(c - 1) = 0 /\ At(n + 2) = 0 /\ At(n) = 0 /\ At(n + 1) = 0
      <4>1. c + 1 = n + 2 /\ c + 2 = n + 3 /\ c - 1 = n
        BY <1>2
      <4>. HIDE DEF c
      <4>2. At(c) = At(n + 1)
        BY DEF c
      <4>. QED  BY <1>2, <2>2, <4>1, <4>2 DEF CodeAt, ShortCodeAt, c
    <3>2. c \in Codes
      <4>1. Base < c
        BY <1>1, <1>2
      <4>. HIDE DEF c
      <4>. QED  BY <1>1, <1>3, <3>1, <4>1, CodesBehind
    <3>3. ASSUME NEW d \in head..(c - 1), ShortCodeAt(d) PROVE FALSE
      <4>1. d \in Nat /\ d < c
        BY <1>2
      <4>. HIDE DEF c
      <4>2. d + 3 <= c
        BY <3>1, <3>3, <4>1, CodesApart
      <4>3. d \in (head - 2)..(n - 3) \/ d = n - 2
        BY <1>2, <4>1, <4>2 DEF c
      <4>4. d # n - 2
        <5>1. d = n - 2 => At(n) = 1
          BY <1>2, <3>3 DEF ShortCodeAt
        <5>. QED  BY <3>1, <5>1
      <4>. QED  BY <1>2, <3>3, <4>3, <4>4
    <3>4. head <= c
      BY <1>2
    <3>5. UnitEnd(head) = c - 1
      <4>. HIDE DEF c
      <4>. QED  BY <1>1, <1>2, <3>1, <3>2, <3>3, <3>4, EndsAtCode
    <3>. QED  BY <1>2, <3>5
  <2>. QED  BY <1>3, <2>1, <2>2
<1>7. [at |-> head, to |-> head + nalu_len] = Behind(head - 3)
  <2>1. (head - 3) + 3 = head
    BY <1>2
  <2>. QED  BY <1>2, <1>6, <2>1 DEF Behind
<1>. QED  BY <1>1, <1>5, <1>7 DEF n

----------------------------------------------------------------------------
(* One NAL unit more. *)

\* Collect puts it behind those that were there.
LEMMA Collected ==
  ASSUME NEW to \in Nat, head \in Nat, buffer \in Seq(NalUnit), groups \in Seq(Seq(NalUnit)),
         Collect(to)
  PROVE  LET unit == [at |-> head, to |-> to] IN
         /\ unit \in NalUnit /\ Current \in Seq(NalUnit)
         /\ Current' = Append(Current, unit)
         /\ buffer' \in Seq(NalUnit) /\ groups' \in Seq(Seq(NalUnit))
<1>. DEFINE unit == [at |-> head, to |-> to]
            units == Append(buffer, unit)
<1>1. unit \in NalUnit
  BY DEF NalUnit
<1>2. IF Flushed(head) THEN buffer' = <<>> /\ groups' = Append(groups, units)
      ELSE buffer' = units /\ groups' = groups
  BY DEF Collect
<1>. HIDE DEF unit
<1>3. units \in Seq(NalUnit) /\ units = buffer \o <<unit>> /\ <<unit>> \in Seq(NalUnit)
  BY <1>1, AppendProperties, AppendIsConcat, ConcatProperties
<1>. HIDE DEF units
<1>4. buffer' \in Seq(NalUnit) /\ groups' \in Seq(Seq(NalUnit))
  <2>1. Append(groups, units) \in Seq(Seq(NalUnit)) /\ <<>> \in Seq(NalUnit)
    BY <1>3, AppendProperties, EmptySeq
  <2>. QED  BY <1>2, <1>3, <2>1
<1>5. FlattenSeq(groups) \in Seq(NalUnit) /\ FlattenSeq(Append(groups, units)) = FlattenSeq(groups) \o units
  BY <1>3, FlattenAppend
<1>. DEFINE f == FlattenSeq(groups)
<1>6. Current \in Seq(NalUnit) /\ Current = f \o buffer
  BY <1>5, ConcatProperties DEF Current
<1>7. Current' = f \o units
  <2>1. Current' = FlattenSeq(groups') \o buffer'
    BY DEF Current
  <2>2. f \o units \in Seq(NalUnit)
    BY <1>3, <1>5, ConcatProperties
  <2>3. CASE Flushed(head)
    BY <2>1, <2>2, <2>3, <1>2, <1>5, ConcatEmptySeq
  <2>4. CASE ~Flushed(head)
    BY <2>1, <2>4, <1>2
  <2>. QED  BY <2>3, <2>4
<1>8. f \o units = Append(Current, unit)
  <2>1. Append(Current, unit) = Current \o <<unit>>
    BY <1>1, <1>6, AppendIsConcat
  <2>2. f \in Seq(NalUnit)
    BY <1>5
  <2>. HIDE DEF f
  <2>. QED  BY <1>3, <1>6, <2>1, <2>2, ConcatAssociative
<1>. QED  BY <1>1, <1>4, <1>6, <1>7, <1>8 DEF unit

\* The groups of a payload that has ended.
LastUnit == [at |-> head, to |-> head + nalu_len]
Units    == IF nalu_len > 0 THEN Append(buffer, LastUnit) ELSE buffer
Finished == IF Units = <<>> THEN groups ELSE Append(groups, Units)

\* They hold the NAL units of the payload and the last one, if not empty.
LEMMA PayloadDone ==
  ASSUME head \in Nat, nalu_len \in Nat, buffer \in Seq(NalUnit), groups \in Seq(Seq(NalUnit))
  PROVE  /\ LastUnit \in NalUnit /\ Units \in Seq(NalUnit) /\ Finished \in Seq(Seq(NalUnit))
         /\ Current \in Seq(NalUnit)
         /\ FlattenSeq(Finished) = IF nalu_len > 0 THEN Append(Current, LastUnit) ELSE Current
<1>1. LastUnit \in NalUnit
  BY DEF NalUnit, LastUnit
<1>2. Units \in Seq(NalUnit)
  BY <1>1, AppendProperties DEF Units
<1>3. Finished \in Seq(Seq(NalUnit))
  BY <1>2, AppendProperties DEF Finished
<1>. DEFINE f == FlattenSeq(groups)
<1>4. f \in Seq(NalUnit) /\ FlattenSeq(Append(groups, Units)) = f \o Units
  BY <1>2, FlattenAppend
<1>. HIDE DEF f
<1>5. Current \in Seq(NalUnit) /\ Current = f \o buffer
  BY <1>4, ConcatProperties DEF Current, f
<1>6. FlattenSeq(Finished) = f \o Units
  <2>1. CASE Units = <<>>
    <3>1. FlattenSeq(Finished) = f
      BY <2>1 DEF Finished, f
    <3>. QED  BY <2>1, <3>1, <1>4, ConcatEmptySeq
  <2>2. CASE Units # <<>>
    BY <2>2, <1>4 DEF Finished
  <2>. QED  BY <2>1, <2>2
<1>7. nalu_len > 0 => f \o Units = Append(Current, LastUnit)
  <2>. SUFFICES ASSUME nalu_len > 0 PROVE f \o Units = Append(Current, LastUnit)
    OBVIOUS
  <2>1. Units = buffer \o <<LastUnit>> /\ <<LastUnit>> \in Seq(NalUnit)
    BY <1>1, AppendIsConcat, ConcatProperties DEF Units
  <2>2. Append(Current, LastUnit) = Current \o <<LastUnit>>
    BY <1>1, <1>5, AppendIsConcat
  <2>. QED  BY <1>4, <1>5, <2>1, <2>2, ConcatAssociative
<1>8. ~(nalu_len > 0) => f \o Units = Current
  BY <1>5 DEF Units
<1>. QED  BY <1>1, <1>2, <1>3, <1>5, <1>6, <1>7, <1>8

\* One payload more, and nothing in the new one.
LEMMA HandedDone ==
  ASSUME head \in Nat, nalu_len \in Nat, buffer \in Seq(NalUnit), groups \in Seq(Seq(NalUnit)),
         written \in Seq(Seq(Seq(NalUnit))), PieceEnd
  PROVE  /\ written' = Append(written, Finished) /\ buffer' = <<>> /\ groups' = <<>>
         /\ Current' = <<>> /\ Handed \in Seq(NalUnit)
         /\ Handed' = IF nalu_len > 0 THEN Append(Handed, LastUnit) ELSE Handed
<1>1. written' = Append(written, Finished) /\ buffer' = <<>> /\ groups' = <<>>
  BY DEF PieceEnd, Finished, Units, LastUnit
<1>2. Current' = <<>>
  <2>1. Current' = FlattenSeq(<<>>) \o <<>>
    BY <1>1 DEF Current
  <2>. QED  BY <2>1, FlattenEmpty, ConcatEmptySeq, EmptySeq
<1>. DEFINE w == FlattenSeq(written)
            h == FlattenSeq(w)
<1>3. w \in Seq(Seq(NalUnit)) /\ FlattenSeq(Append(written, Finished)) = w \o Finished
  BY PayloadDone, FlattenAppend
<1>. HIDE DEF w
<1>4. h \in Seq(NalUnit) /\ FlattenSeq(w \o Finished) = h \o FlattenSeq(Finished)
  BY <1>3, PayloadDone, FlattenAppend, FlattenConcat, EmptySeq
<1>5. Handed = h \o Current /\ Current \in Seq(NalUnit) /\ Handed \in Seq(NalUnit)
  <2>1. Current \in Seq(NalUnit)
    BY PayloadDone
  <2>2. Handed = h \o Current
    BY DEF Handed, w
  <2>. QED  BY <1>4, <2>1, <2>2, ConcatProperties
<1>6. Handed' = h \o FlattenSeq(Finished)
  <2>1. Handed' = FlattenSeq(FlattenSeq(written')) \o Current'
    BY DEF Handed
  <2>2. FlattenSeq(FlattenSeq(written')) = h \o FlattenSeq(Finished)
    BY <1>1, <1>3, <1>4
  <2>3. h \o FlattenSeq(Finished) \in Seq(NalUnit)
    <3>1. FlattenSeq(Finished) \in Seq(NalUnit)
      BY PayloadDone, FlattenAppend, EmptySeq
    <3>. QED  BY <1>4, <3>1, ConcatProperties
  <2>. QED  BY <1>2, <2>1, <2>2, <2>3, ConcatEmptySeq
<1>. HIDE DEF h
<1>7. h \o Append(Current, LastUnit) = Append(Handed, LastUnit)
  <2>1. LastUnit \in NalUnit
    BY PayloadDone
  <2>2. Append(Current, LastUnit) = Current \o <<LastUnit>> /\ <<LastUnit>> \in Seq(NalUnit)
        /\ Append(Handed, LastUnit) = Handed \o <<LastUnit>>
    BY <1>5, <2>1, AppendIsConcat, ConcatProperties
  <2>. QED  BY <1>4, <1>5, <2>2, ConcatAssociative
<1>. QED  BY <1>1, <1>2, <1>5, <1>6, <1>7, PayloadDone

----------------------------------------------------------------------------
(* Every step keeps the invariant. *)

\* Both loops start with nothing.
LEMMA Start == Init => IInv
<1>. SUFFICES ASSUME Init PROVE IInv
  OBVIOUS
<1>1. src \in Seq(Byte)
  BY FilesAssumption DEF Init, Byte, FilesAssumption
<1>2. Types
  BY <1>1, EmptySeq DEF Init, Types, Byte
<1>3. Scanned /\ Pieces /\ Begun /\ Room
  <2>1. Len(src) \in Nat /\ Len(naluList) = 0
    BY <1>1, Bytes, EmptySeq DEF Init
  <2>. QED  BY <2>1 DEF Init, Scanned, Pieces, Begun, Room, NoneBefore
<1>4. Current = <<>> /\ Handed = <<>>
  <2>1. <<>> \o <<>> = <<>>
    BY EmptySeq, ConcatEmptySeq
  <2>. QED  BY <2>1, FlattenEmpty DEF Init, Current, Handed
<1>5. Complete
  <2>1. Reached = 0
    BY DEF Init, Reached
  <2>2. UnitsBefore(0) = <<>>
    BY <1>1, UnitsBeforeNone
  <2>. QED  BY <1>4, <2>1, <2>2, OnlyEmpty DEF Complete
<1>6. Grouped
  <2>1. DOMAIN written = {}
    BY DEF Init
  <2>2. End(Kinds(Current), Waiting) = [written |-> KindGroups(groups), buffer |-> Kinds(buffer)]
    BY <1>4, KindsEmpty, EndEmpty DEF Init
  <2>. QED  BY <2>1, <2>2 DEF Grouped, GroupsAsModelled
<1>. QED  BY <1>2, <1>3, <1>5, <1>6 DEF IInv, Init

\* Every step keeps the types; in particular a NAL unit never ends before offset 0.
LEMMA TypesStep == Types /\ Pieces /\ Begun /\ [Next]_vars => Types'
<1>. SUFFICES ASSUME Types, Pieces, Begun, [Next]_vars PROVE Types'
  OBVIOUS
<1>1. CASE UNCHANGED vars
  BY <1>1 DEF vars, scanVars, splitVars, Types
<1>2. CASE ScanByte
  <2>1. Append(naluList, i) \in Seq(Nat)
    BY AppendProperties DEF Types
  <2>. QED  BY <1>2, <2>1 DEF ScanByte, splitVars, Types
<1>3. CASE ScanEnd
  <2>1. Len(src) \in Nat
    BY Bytes DEF Types, Byte
  <2>2. Append(naluList, Len(src)) \in Seq(Nat)
    BY <2>1, AppendProperties DEF Types
  <2>. QED  BY <1>3, <2>2 DEF ScanEnd, Types
<1>4. CASE PlainByte
  BY <1>4 DEF PlainByte, scanVars, Types
<1>5. CASE FirstCode
  <2>1. Base \in Nat
    BY <1>5, Payload DEF FirstCode
  <2>2. Base + i + 1 \in Nat /\ i + 1 \in Nat
    BY <2>1 DEF Types
  <2>. HIDE DEF Base
  <2>. QED  BY <1>5, <2>2 DEF FirstCode, scanVars, Types
<1>6. CASE NextCode
  <2>1. place = "split" /\ i < Size /\ ShortCode /\ i - 2 \notin {0, 1}
    BY <1>6 DEF NextCode
  <2>2. Base \in Nat /\ i > 3 /\ head - 3 \in Nat
    BY <2>1, CodeEndsUnit, Payload, UnitBegun
  <2>3. head + CopyLength \in Nat
    <3>1. Behind(head - 3) \in NalUnit
      BY <2>2, UnitsBehind DEF Types, Byte
    <3>2. [at |-> head, to |-> head + CopyLength] = Behind(head - 3)
      BY <2>1, CodeEndsUnit
    <3>3. [at |-> head, to |-> head + CopyLength].to \in Nat
      BY <3>1, <3>2 DEF NalUnit
    <3>. QED  BY <3>3
  <2>. DEFINE to == head + CopyLength
  <2>4. to \in Nat /\ Collect(to)
    BY <1>6, <2>3 DEF NextCode
  <2>. HIDE DEF to
  <2>5. buffer' \in Seq(NalUnit) /\ groups' \in Seq(Seq(NalUnit))
    BY <2>4, Collected DEF Types
  <2>6. Base + i + 1 \in Nat /\ i + 1 \in Nat
    BY <2>2 DEF Types
  <2>7. head' = Base + i + 1 /\ nalu_len' = 0 /\ i' = i + 1 /\ UNCHANGED <<scanVars, place, piece, written>>
    BY <1>6 DEF NextCode
  <2>. QED  BY <2>5, <2>6, <2>7 DEF scanVars, Types
<1>7. CASE PieceEnd
  <2>1. Append(written, Finished) \in Seq(Seq(Seq(NalUnit)))
    BY PayloadDone, AppendProperties DEF Types
  <2>2. written' = Append(written, Finished) /\ buffer' = <<>> /\ groups' = <<>>
    BY <1>7, HandedDone DEF Types
  <2>3. nalu_len' = 0 /\ i' = 0 /\ piece' = piece + 1 /\ UNCHANGED <<scanVars, head>>
        /\ place' \in {"split", "done"}
    BY <1>7 DEF PieceEnd
  <2>4. Types /\ <<>> \in Seq(NalUnit) /\ <<>> \in Seq(Seq(NalUnit))
    BY EmptySeq
  <2>. QED  BY <2>1, <2>2, <2>3, <2>4 DEF scanVars, Types
<1>. QED  BY <1>1, <1>2, <1>3, <1>4, <1>5, <1>6, <1>7 DEF Next

\* getNaluList keeps what the list holds so far (FileDataExtractor.java, lines 164-184).
LEMMA ScannedStep == Types /\ Scanned /\ [Next]_vars => Scanned'
<1>. SUFFICES ASSUME Types, Scanned, [Next]_vars, place' = "scan" PROVE Scanned'
  BY DEF Scanned
<1>1. CASE UNCHANGED vars
  <2>1. UNCHANGED <<src, place, i, naluList, nalu_len, groups, buffer, written>>
    BY <1>1 DEF vars, scanVars, splitVars
  <2>. QED  BY <2>1, Zenon DEF Scanned, NoneBefore, CodeAt, At
<1>2. CASE ScanByte
  <2>1. /\ i < Len(src) /\ i \in Nat /\ Len(src) \in Nat /\ src' = src
        /\ naluList \in Seq(Nat) /\ Len(naluList) \in Nat
        /\ naluList' = (IF CodeAt(i) THEN Append(naluList, i) ELSE naluList)
        /\ i' = (IF CodeAt(i) THEN i + 4 ELSE i + 1)
        /\ \A m \in 1..Len(naluList) : naluList[m] \in Nat
    BY <1>2, Bytes, LenProperties, ElementOfSeq DEF ScanByte, Types, Byte
  <2>2. /\ \A m \in 1..Len(naluList) : CodeAt(naluList[m])
        /\ \A m \in 1..(Len(naluList) - 1) : naluList[m] + 4 <= naluList[m + 1]
        /\ IF naluList = <<>> THEN NoneBefore(i)
           ELSE NoneBefore(naluList[1]) /\ naluList[Len(naluList)] + 4 <= i
    BY <1>2 DEF ScanByte, Scanned
  <2>3. nalu_len' = 0 /\ groups' = <<>> /\ buffer' = <<>> /\ written' = <<>>
    BY <1>2 DEF ScanByte, Scanned, splitVars
  <2>. SUFFICES /\ i' <= Len(src)
                /\ \A m \in 1..Len(naluList') : CodeAt(naluList'[m])
                /\ \A m \in 1..(Len(naluList') - 1) : naluList'[m] + 4 <= naluList'[m + 1]
                /\ IF naluList' = <<>> THEN NoneBefore(i')
                   ELSE NoneBefore(naluList'[1]) /\ naluList'[Len(naluList')] + 4 <= i'
    BY <2>1, <2>3, BytesStay DEF Scanned
  <2>4. CASE CodeAt(i)
    <3>. DEFINE l == Append(naluList, i)
    <3>1. l \in Seq(Nat) /\ Len(l) = Len(naluList) + 1 /\ l[Len(l)] = i /\ l # <<>>
          /\ \A m \in 1..Len(naluList) : l[m] = naluList[m]
      BY <2>1, AppendProperties
    <3>2. i + 4 <= Len(src)
      BY <2>1, <2>4, CodesInside DEF Types, Byte
    <3>. HIDE DEF l
    <3>3. \A m \in 1..Len(l) : CodeAt(l[m])
      <4>1. \A m \in 1..Len(l) : m \in 1..Len(naluList) \/ m = Len(l)
        BY <2>1, <3>1
      <4>. QED  BY <2>2, <2>4, <3>1, <4>1
    <3>4. ASSUME NEW m \in 1..(Len(l) - 1) PROVE l[m] + 4 <= l[m + 1]
      <4>1. m \in 1..Len(naluList) /\ l[m] = naluList[m] /\ naluList # <<>>
        BY <2>1, <3>1, EmptySeq
      <4>2. CASE m = Len(naluList)
        BY <2>1, <2>2, <3>1, <4>1, <4>2
      <4>3. CASE m # Len(naluList)
        <5>1. m \in 1..(Len(naluList) - 1) /\ m + 1 \in 1..Len(naluList)
          BY <2>1, <4>1, <4>3
        <5>. QED  BY <2>2, <3>1, <4>1, <5>1
      <4>. QED  BY <4>2, <4>3
    <3>5. NoneBefore(l[1])
      <4>1. CASE naluList = <<>>
        BY <4>1, <2>2, <3>1, EmptySeq
      <4>2. CASE naluList # <<>>
        <5>1. 1 \in 1..Len(naluList)
          BY <4>2, <2>1, EmptySeq
        <5>. QED  BY <4>2, <5>1, <2>2, <3>1
      <4>. QED  BY <4>1, <4>2
    <3>6. naluList' = l /\ i' = i + 4
      BY <2>1, <2>4 DEF l
    <3>7. l # <<>> /\ l[Len(l)] + 4 <= i + 4
      BY <2>1, <3>1
    <3>. QED  BY <3>2, <3>3, <3>4, <3>5, <3>6, <3>7
  <2>5. CASE ~CodeAt(i)
    <3>1. naluList' = naluList /\ i' = i + 1 /\ i' <= Len(src)
      BY <2>1, <2>5
    <3>2. naluList = <<>> => NoneBefore(i + 1)
      BY <2>1, <2>2, <2>5 DEF NoneBefore
    <3>3. naluList # <<>> => naluList[Len(naluList)] + 4 <= i + 1
      <4>1. naluList # <<>> => Len(naluList) \in 1..Len(naluList)
        BY <2>1, EmptySeq
      <4>. QED  BY <2>1, <2>2, <4>1
    <3>. QED  BY <2>2, <3>1, <3>2, <3>3
  <2>. QED  BY <2>4, <2>5
<1>3. CASE ScanEnd \/ PlainByte \/ FirstCode \/ NextCode \/ PieceEnd
  BY <1>3 DEF ScanEnd, PlainByte, FirstCode, NextCode, PieceEnd
<1>. QED  BY <1>1, <1>2, <1>3 DEF Next

\* Every payload begins with a start code and ends at the next.
LEMMA PiecesStep == Types /\ Scanned /\ Pieces /\ [Next]_vars => Pieces'
<1>. SUFFICES ASSUME Types, Scanned, Pieces, [Next]_vars, place' = "split" PROVE Pieces'
  BY DEF Pieces
<1>0. Len(naluList) \in Nat /\ (\A m \in 1..Len(naluList) : naluList[m] \in Nat) /\ i \in Nat /\ Len(src) \in Nat
  BY Bytes, LenProperties, ElementOfSeq DEF Types, Byte
<1>1. ASSUME UNCHANGED <<src, naluList, piece>>, place = "split", i' <= Size PROVE Pieces'
  <2>1. Size' = Size
    BY <1>1, PayloadStays
  <2>2. Pieces' <=> /\ piece' \in 1..(Len(naluList') - 1)
                    /\ naluList'[Len(naluList')] = Len(src')
                    /\ \A m \in 1..(Len(naluList') - 1) : CodeAt(naluList'[m])
                    /\ \A m \in 1..(Len(naluList') - 1) : naluList'[m] + 4 <= naluList'[m + 1]
                    /\ i' <= Size'
    BY <1>1, BytesStay DEF Pieces
  <2>. QED  BY <1>1, <2>1, <2>2 DEF Pieces
<1>2. CASE UNCHANGED vars
  <2>1. UNCHANGED <<src, naluList, piece>> /\ place = "split" /\ i' = i
    BY <1>2 DEF vars, scanVars, splitVars
  <2>. QED  BY <1>1, <2>1 DEF Pieces
<1>3. CASE ScanEnd
  <2>. DEFINE l == Append(naluList, Len(src))
  <2>1. /\ i = Len(src) /\ naluList # <<>> /\ src' = src /\ naluList' = l /\ piece' = 1 /\ i' = 0
        /\ \A m \in 1..Len(naluList) : CodeAt(naluList[m])
        /\ \A m \in 1..(Len(naluList) - 1) : naluList[m] + 4 <= naluList[m + 1]
        /\ naluList[Len(naluList)] + 4 <= i
    BY <1>0, <1>3 DEF ScanEnd, Scanned
  <2>2. l \in Seq(Nat) /\ Len(l) = Len(naluList) + 1 /\ l[Len(l)] = Len(src)
        /\ \A m \in 1..Len(naluList) : l[m] = naluList[m]
    BY <1>0, AppendProperties DEF Types
  <2>3. Len(naluList) >= 1
    BY <1>0, <2>1, EmptySeq DEF Types
  <2>. HIDE DEF l
  <2>4. \A m \in 1..(Len(l) - 1) : CodeAt(l[m])
    BY <1>0, <2>1, <2>2
  <2>5. ASSUME NEW m \in 1..(Len(l) - 1) PROVE l[m] + 4 <= l[m + 1]
    <3>1. m \in 1..Len(naluList)
      BY <1>0, <2>2
    <3>2. CASE m = Len(naluList)
      BY <1>0, <2>1, <2>2, <3>1, <3>2
    <3>3. CASE m # Len(naluList)
      <4>1. m \in 1..(Len(naluList) - 1) /\ m + 1 \in 1..Len(naluList)
        BY <1>0, <3>1, <3>3
      <4>. QED  BY <2>1, <2>2, <3>1, <4>1
    <3>. QED  BY <3>2, <3>3
  <2>6. 0 <= l[2] - l[1]
    <3>1. 1 \in 1..(Len(l) - 1) /\ l[1] \in Nat /\ l[2] \in Nat
      BY <1>0, <2>2, <2>3, ElementOfSeq
    <3>2. l[1] + 4 <= l[1 + 1]
      BY <2>5, <3>1
    <3>. QED  BY <3>1, <3>2
  <2>7. Size' = l[2] - l[1]
    BY <2>1 DEF Size, Base
  <2>. QED  BY <1>0, <2>1, <2>2, <2>3, <2>4, <2>5, <2>6, <2>7, BytesStay DEF Pieces
<1>4. CASE PlainByte \/ FirstCode \/ NextCode
  <2>1. UNCHANGED <<src, naluList, piece>> /\ place = "split" /\ i' = i + 1 /\ i < Size
    BY <1>4 DEF PlainByte, FirstCode, NextCode, scanVars
  <2>2. Size \in Nat
    BY <2>1, Payload
  <2>. QED  BY <1>0, <1>1, <2>1, <2>2
<1>5. CASE PieceEnd
  <2>1. /\ place = "split" /\ src' = src /\ naluList' = naluList /\ piece' = piece + 1 /\ i' = 0
        /\ ~(piece + 2 > Len(naluList))
    BY <1>5 DEF PieceEnd, scanVars
  <2>2. /\ piece \in 1..(Len(naluList) - 1) /\ naluList[Len(naluList)] = Len(src)
        /\ \A m \in 1..(Len(naluList) - 1) : CodeAt(naluList[m])
        /\ \A m \in 1..(Len(naluList) - 1) : naluList[m] + 4 <= naluList[m + 1]
    BY <2>1 DEF Pieces
  <2>3. piece + 1 \in 1..(Len(naluList) - 1) /\ piece + 2 \in 1..Len(naluList) /\ piece + 1 \in 1..Len(naluList)
        /\ (piece + 1) + 1 = piece + 2
    BY <1>0, <2>1, <2>2
  <2>4. Size' = naluList[(piece + 1) + 1] - naluList[piece + 1]
    BY <2>1 DEF Size, Base
  <2>5. 0 <= Size'
    BY <1>0, <2>2, <2>3, <2>4
  <2>. QED  BY <2>1, <2>2, <2>3, <2>5, BytesStay DEF Pieces
<1>6. CASE ScanByte
  BY <1>6 DEF ScanByte
<1>. QED  BY <1>2, <1>3, <1>4, <1>5, <1>6 DEF Next

\* head and nalu_len follow the start codes of the payload.
LEMMA BegunStep == Types /\ Scanned /\ Pieces /\ Begun /\ [Next]_vars => Begun'
<1>. SUFFICES ASSUME Types, Scanned, Pieces, Begun, [Next]_vars, place' = "split" PROVE Begun'
  BY DEF Begun
<1>1. CASE UNCHANGED vars
  <2>1. UNCHANGED <<src, naluList, piece, place, i, nalu_len, buffer, groups, head>>
    BY <1>1 DEF vars, scanVars, splitVars
  <2>. QED  BY <2>1, BytesStay, PayloadStays DEF Begun
<1>2. CASE ScanEnd \/ PieceEnd
  <2>1. i' = 0 /\ nalu_len' = 0 /\ buffer' = <<>> /\ groups' = <<>>
    BY <1>2 DEF ScanEnd, PieceEnd, Scanned
  <2>. QED  BY <2>1 DEF Begun
<1>3. CASE PlainByte
  <2>1. /\ place = "split" /\ i < Size /\ ~ShortCode /\ nalu_len' = nalu_len + 1 /\ i' = i + 1
        /\ UNCHANGED <<src, naluList, piece, buffer, groups, head>>
    BY <1>3 DEF PlainByte, scanVars
  <2>2. i # 3 /\ i \in Nat /\ Base \in Nat /\ Base' = Base
    BY <2>1, Payload, ShortCodeFound, PayloadStays DEF Types
  <2>3. CASE i < 3
    BY <2>1, <2>2, <2>3 DEF Begun
  <2>4. CASE i > 3
    <3>1. /\ head \in Nat /\ nalu_len \in Nat /\ head - 3 \in Codes
          /\ Base + 4 <= head /\ head + nalu_len = Base + i
          /\ \A c \in head..(Base + i - 3) : ~ShortCodeAt(c)
      BY <2>1, <2>4, UnitBegun
    <3>2. ~ShortCodeAt(Base + i - 2)
      BY <2>1, <2>2, <2>4, ShortCodeFound
    <3>3. \A c \in head..(Base + i' - 3) : c \in head..(Base + i - 3) \/ c = Base + i - 2
      BY <2>1, <2>2, <3>1
    <3>4. \A c \in head..(Base + i' - 3) : ~ShortCodeAt(c)
      BY <3>1, <3>2, <3>3
    <3>5. i' > 3 /\ ~(i' <= 3) /\ head + nalu_len' = Base + i'
      BY <2>1, <2>2, <2>4, <3>1
    <3>6. \A c : ShortCodeAt(c)' = ShortCodeAt(c)
      BY <2>1, BytesStay
    <3>7. Codes' = Codes
      BY <2>1, BytesStay
    <3>. QED  BY <2>1, <2>2, <3>1, <3>4, <3>5, <3>6, <3>7 DEF Begun
  <2>. QED  BY <2>2, <2>3, <2>4
<1>4. CASE FirstCode \/ NextCode
  <2>1. /\ place = "split" /\ i < Size /\ ShortCode /\ head' = Base + i + 1 /\ nalu_len' = 0 /\ i' = i + 1
        /\ UNCHANGED <<src, naluList, piece>>
    BY <1>4 DEF FirstCode, NextCode, scanVars
  <2>2. i \in Nat /\ Base \in Nat /\ Base' = Base /\ Codes' = Codes /\ i > 2
    BY <2>1, Payload, PayloadStays, BytesStay DEF Types, ShortCode
  <2>3. Base + i - 2 \in Codes
    <3>1. CodeAt(Base) /\ src \in Seq(Byte)
      BY <2>1, Payload DEF Types, Byte
    <3>. DEFINE c == Base + i - 2
    <3>2. c \in Nat /\ Base < c
      BY <2>2
    <3>3. ShortCodeAt(c)
      BY <2>1, <2>2, ShortCodeFound
    <3>. HIDE DEF c
    <3>4. c \in Codes
      BY <2>2, <3>1, <3>2, <3>3, CodesBehind
    <3>. QED  BY <3>4 DEF c
  <2>4. head' - 3 = Base + i - 2 /\ Base' + 4 <= head' /\ head' + nalu_len' = Base' + i' /\ ~(i' <= 3)
    BY <2>1, <2>2
  <2>5. \A c \in head'..(Base' + i' - 3) : FALSE
    BY <2>1, <2>2
  <2>. QED  BY <2>2, <2>3, <2>4, <2>5 DEF Begun
<1>5. CASE ScanByte
  BY <1>5 DEF ScanByte
<1>. QED  BY <1>1, <1>2, <1>3, <1>4, <1>5 DEF Next

\* A code has been passed, and the NAL unit behind it is added.
LEMMA OneMore ==
  ASSUME src \in Seq(Byte), NEW h \in Seq(NalUnit), NEW c \in Codes, NEW n \in Nat, c < n,
         \A d \in (c + 1)..(n - 1) : d \notin Codes, Only(h, NotEmpty) = UnitsBefore(c)
  PROVE  /\ Only(Append(h, Behind(c)), NotEmpty) = UnitsBefore(n)
         /\ Behind(c) \notin NotEmpty => Only(h, NotEmpty) = UnitsBefore(n)
<1>1. c \in Nat /\ c + 1 \in Nat /\ c + 1 <= n
  BY CodesAreOffsets
<1>2. UnitsBefore(n) = UnitsBefore(c + 1)
  BY <1>1, UnitsBeforeLater
<1>3. UnitsBefore(c + 1) = IF Behind(c) \in NotEmpty THEN Append(UnitsBefore(c), Behind(c)) ELSE UnitsBefore(c)
  BY <1>1, UnitsBeforeNext
<1>4. Only(Append(h, Behind(c)), NotEmpty) =
        IF Behind(c) \in NotEmpty THEN Append(Only(h, NotEmpty), Behind(c)) ELSE Only(h, NotEmpty)
  BY <1>1, UnitsBehind, OnlyAppend
<1>. QED  BY <1>2, <1>3, <1>4

\* What has been handed on are NAL units.
LEMMA HandedIn ==
  ASSUME Types
  PROVE  Handed \in Seq(NalUnit) /\ FlattenSeq(FlattenSeq(written)) \in Seq(NalUnit)
<1>1. FlattenSeq(written) \in Seq(Seq(NalUnit))
  BY FlattenAppend, EmptySeq DEF Types
<1>2. FlattenSeq(FlattenSeq(written)) \in Seq(NalUnit)
  BY <1>1, FlattenAppend, EmptySeq
<1>3. Current \in Seq(NalUnit)
  BY PayloadDone DEF Types
<1>. QED  BY <1>2, <1>3, ConcatProperties DEF Handed

\* No code lies where none of four bytes lies before.
LEMMA NoneBeforeNoCode ==
  ASSUME src \in Seq(Byte), NEW n \in Nat, NoneBefore(n)
  PROVE  \A c \in 0..(n - 1) : c \notin Codes
<1>. SUFFICES ASSUME NEW c \in 0..(n - 1), c \in Codes PROVE FALSE
  OBVIOUS
<1>1. PICK j \in 0..(c - 1) : CodeAt(j)
  BY CodesBehind
<1>2. j \in 0..(n - 1)
  OBVIOUS
<1>. QED  BY <1>1, <1>2 DEF NoneBefore

\* Every start code passed adds the NAL unit before it, and nothing else does.
LEMMA CompleteStep ==
  Types /\ Scanned /\ Pieces /\ Begun /\ Complete /\ [Next]_vars => Complete'
<1>. SUFFICES ASSUME Types, Scanned, Pieces, Begun, Complete, [Next]_vars PROVE Complete'
  OBVIOUS
<1>0. src \in Seq(Byte) /\ Len(src) \in Nat /\ i \in Nat /\ head \in Nat /\ nalu_len \in Nat
      /\ Handed \in Seq(NalUnit)
  BY Bytes, HandedIn DEF Types, Byte
<1>1. src' = src => (Complete' <=> Only(Handed', NotEmpty) = UnitsBefore(Reached'))
  BY UnitsBeforeStays DEF Complete
<1>2. Only(Handed, NotEmpty) = UnitsBefore(Reached)
  BY DEF Complete
<1>3. CASE UNCHANGED vars
  <2>1. src' = src /\ Handed' = Handed /\ Reached' = Reached
    BY <1>3 DEF vars, scanVars, splitVars, Handed, Current, Reached, Base
  <2>. QED  BY <1>1, <1>2, <2>1
<1>4. CASE ScanByte
  <2>1. src' = src /\ Handed' = Handed /\ Reached' = Reached
    BY <1>4 DEF ScanByte, splitVars, Handed, Current, Reached
  <2>. QED  BY <1>1, <1>2, <2>1
<1>5. CASE ScanEnd
  <2>1. src' = src /\ Handed' = Handed /\ Reached = 0 /\ i = Len(src)
    BY <1>0, <1>5 DEF ScanEnd, Handed, Current, Reached, Scanned
  <2>2. PICK n \in Nat : Reached' = n /\ NoneBefore(n)
    <3>1. CASE naluList = <<>>
      BY <1>0, <1>5, <2>1, <3>1 DEF ScanEnd, Scanned, Reached
    <3>2. CASE naluList # <<>>
      <4>1. place' = "split" /\ i' = 0 /\ piece' = 1 /\ naluList' = Append(naluList, Len(src))
            /\ NoneBefore(naluList[1])
        BY <1>5, <3>2 DEF ScanEnd, Scanned
      <4>2. 1 \in 1..Len(naluList) /\ naluList[1] \in Nat /\ Append(naluList, Len(src))[1] = naluList[1]
        <5>1. Len(naluList) \in Nat /\ naluList \in Seq(Nat) /\ Len(naluList) # 0
          BY <3>2, LenProperties, EmptySeq DEF Types
        <5>2. 1 \in 1..Len(naluList)
          BY <5>1
        <5>. QED  BY <1>0, <5>1, <5>2, ElementOfSeq, AppendProperties
      <4>3. Reached' = naluList[1]
        BY <4>1, <4>2 DEF Reached, Base
      <4>. QED  BY <4>1, <4>2, <4>3
    <3>. QED  BY <3>1, <3>2
  <2>3. UnitsBefore(n) = UnitsBefore(0)
    BY <1>0, <2>2, NoneBeforeNoCode, UnitsBeforeLater
  <2>. QED  BY <1>1, <1>2, <2>1, <2>2, <2>3
<1>6. CASE PlainByte
  <2>1. /\ place = "split" /\ place' = "split" /\ i < Size /\ ~ShortCode /\ i' = i + 1
        /\ UNCHANGED <<src, naluList, piece, head, buffer, groups, written>>
    BY <1>6 DEF PlainByte, scanVars
  <2>2. i # 3 /\ Base' = Base /\ Handed' = Handed
    BY <2>1, ShortCodeFound, PayloadStays DEF Handed, Current
  <2>3. Reached' = Reached
    BY <1>0, <2>1, <2>2 DEF Reached
  <2>. QED  BY <1>1, <1>2, <2>1, <2>2, <2>3
<1>7. CASE FirstCode
  <2>1. /\ place = "split" /\ place' = "split" /\ i < Size /\ i = 3 /\ i' = i + 1 /\ head' = Base + i + 1
        /\ UNCHANGED <<src, naluList, piece, buffer, groups, written>>
    BY <1>0, <1>7 DEF FirstCode, scanVars, ShortCode
  <2>2. Base \in Nat /\ CodeAt(Base)
    BY <2>1, Payload
  <2>3. Handed' = Handed
    BY <2>1 DEF Handed, Current
  <2>4. Reached = Base /\ Reached' = Base + 1
    BY <2>1, <2>2 DEF Reached
  <2>5. Base \notin Codes
    BY <1>0, <2>2, CodesBehind DEF CodeAt, ShortCodeAt
  <2>6. UnitsBefore(Base + 1) = UnitsBefore(Base)
    BY <1>0, <2>2, <2>5, UnitsBeforeNext
  <2>. QED  BY <1>1, <1>2, <2>1, <2>3, <2>4, <2>6
<1>8. CASE NextCode
  <2>1. /\ place = "split" /\ place' = "split" /\ i < Size /\ ShortCode /\ i - 2 \notin {0, 1}
        /\ i' = i + 1 /\ head' = Base + i + 1 /\ UNCHANGED <<src, written>>
        /\ Collect(head + CopyLength)
    BY <1>8 DEF NextCode, scanVars
  <2>. DEFINE c == head - 3
              n == Base + i - 2
              unit == [at |-> head, to |-> head + CopyLength]
  <2>2. i > 3 /\ unit = Behind(c) /\ c \in Codes /\ n \in Nat /\ c < n /\ Base \in Nat
        /\ \A d \in (c + 1)..(n - 1) : d \notin Codes
    <3>1. /\ i > 3 /\ n \in Codes /\ head <= n /\ unit = Behind(c)
          /\ \A d \in (head - 2)..(Base + i - 3) : d \notin Codes
      BY <2>1, CodeEndsUnit
    <3>2. Base \in Nat /\ c \in Codes /\ c \in Nat
      BY <2>1, <3>1, Payload, UnitBegun
    <3>3. n \in Nat /\ c + 1 = head - 2 /\ n - 1 = Base + i - 3 /\ c < n
      BY <1>0, <3>1, <3>2
    <3>. QED  BY <3>1, <3>2, <3>3
  <2>3. head + CopyLength \in Nat
    <3>1. unit \in NalUnit
      BY <1>0, <2>2, CodesAreOffsets, UnitsBehind
    <3>2. unit.to \in Nat
      BY <3>1 DEF NalUnit
    <3>. QED  BY <3>2
  <2>4. Current' = Append(Current, unit) /\ Current \in Seq(NalUnit) /\ unit \in NalUnit
    <3>. DEFINE to == head + CopyLength
    <3>1. to \in Nat /\ Collect(to)
      BY <2>1, <2>3
    <3>. HIDE DEF to
    <3>2. LET u == [at |-> head, to |-> to] IN Current' = Append(Current, u) /\ Current \in Seq(NalUnit) /\ u \in NalUnit
      BY <3>1, Collected DEF Types
    <3>. QED  BY <3>2 DEF to
  <2>5. Reached = c /\ Reached' = n
    BY <1>0, <2>1, <2>2 DEF Reached
  <2>. HIDE DEF unit, c, n
  <2>6. Handed' = Append(Handed, unit)
    <3>. DEFINE w == FlattenSeq(FlattenSeq(written))
    <3>1. w \in Seq(NalUnit) /\ Handed = w \o Current
      BY HandedIn DEF Handed
    <3>2. Handed' = w \o Append(Current, unit)
      BY <2>1, <2>4 DEF Handed
    <3>. HIDE DEF w
    <3>3. Append(Current, unit) = Current \o <<unit>> /\ <<unit>> \in Seq(NalUnit)
          /\ Append(Handed, unit) = Handed \o <<unit>>
      BY <1>0, <2>4, AppendIsConcat, ConcatProperties
    <3>. QED  BY <2>4, <3>1, <3>2, <3>3, ConcatAssociative
  <2>7. Only(Append(Handed, Behind(c)), NotEmpty) = UnitsBefore(n)
    BY <1>0, <1>2, <2>2, <2>5, OneMore
  <2>. QED  BY <1>1, <2>1, <2>2, <2>5, <2>6, <2>7
<1>9. CASE PieceEnd
  <2>1. place = "split" /\ i = Size /\ src' = src /\ naluList' = naluList /\ i' = 0 /\ piece' = piece + 1
        /\ place' = IF piece + 2 > Len(naluList) THEN "done" ELSE "split"
    BY <1>9 DEF PieceEnd, scanVars
  <2>. DEFINE c == head - 3
              n == Base + Size
  <2>2. /\ i > 3 /\ LastUnit = Behind(c) /\ c \in Codes /\ n \in Nat /\ c < n
        /\ \A d \in (c + 1)..(n - 1) : d \notin Codes
        /\ n = naluList[piece + 1] /\ (piece + 1 = Len(naluList) => n = Len(src))
    <3>1. i > 3 /\ LastUnit = Behind(c) /\ \A d \in (head - 2)..(Base + Size - 1) : d \notin Codes
      BY <2>1, PayloadEndsUnit DEF LastUnit
    <3>2. Base \in Nat /\ Size \in Nat /\ c \in Codes /\ head + nalu_len = Base + i
      BY <2>1, <3>1, Payload, UnitBegun
    <3>3. n \in Nat /\ c + 1 = head - 2 /\ c < n
      BY <1>0, <2>1, <3>2
    <3>4. n = naluList[piece + 1] /\ (piece + 1 = Len(naluList) => n = Len(src))
      BY <2>1, Payload
    <3>. QED  BY <3>1, <3>2, <3>3, <3>4
  <2>3. Reached = c
    BY <1>0, <2>1, <2>2 DEF Reached
  <2>. HIDE DEF c, n
  <2>4. Reached' = n
    <3>1. CASE piece + 2 > Len(naluList)
      <4>1. piece + 1 = Len(naluList)
        <5>1. Len(naluList) \in Nat /\ piece \in 1..(Len(naluList) - 1)
          BY <2>1, LenProperties DEF Types, Pieces
        <5>. QED  BY <3>1, <5>1
      <4>. QED  BY <2>1, <2>2, <3>1, <4>1 DEF Reached
    <3>2. CASE ~(piece + 2 > Len(naluList))
      BY <2>1, <2>2, <3>2 DEF Reached, Base
    <3>. QED  BY <3>1, <3>2
  <2>5. Handed' = IF nalu_len > 0 THEN Append(Handed, LastUnit) ELSE Handed
    BY <1>9, HandedDone DEF Types
  <2>6. ~(nalu_len > 0) => LastUnit \notin NotEmpty
    BY <1>0 DEF LastUnit, NotEmpty
  <2>7. /\ Only(Append(Handed, Behind(c)), NotEmpty) = UnitsBefore(n)
        /\ Behind(c) \notin NotEmpty => Only(Handed, NotEmpty) = UnitsBefore(n)
    BY <1>0, <1>2, <2>2, <2>3, OneMore
  <2>. QED  BY <1>1, <2>1, <2>2, <2>4, <2>5, <2>6, <2>7
<1>. QED  BY <1>3, <1>4, <1>5, <1>6, <1>7, <1>8, <1>9 DEF Next

\* The writer's Groups makes these groups of their NAL units.
AsModelled(gs) == Groups(Kinds(FlattenSeq(gs)), Waiting) = KindGroups(gs)

\* GroupsAsModelled, one payload at a time.
LEMMA GroupsByPayload == GroupsAsModelled <=> \A k \in DOMAIN written : AsModelled(written[k])
  BY DEF GroupsAsModelled, AsModelled, KindGroups

\* The writer's loop after one NAL unit more.
LEMMA LoopAppend ==
  ASSUME NEW unit \in NalUnit, Current \in Seq(NalUnit), buffer \in Seq(NalUnit),
         groups \in Seq(Seq(NalUnit)), Grouped
  PROVE  End(Kinds(Append(Current, unit)), Waiting) =
           IF Flushed(unit.at)
             THEN [written |-> KindGroups(Append(groups, Append(buffer, unit))), buffer |-> <<>>]
             ELSE [written |-> KindGroups(groups), buffer |-> Kinds(Append(buffer, unit))]
<1>. DEFINE k == KindOf(unit)
            a == Kinds(Current)
<1>1. Kinds(Append(Current, unit)) = Append(a, k) /\ a \in Seq(Kind)
  BY KindsAppend
<1>2. k \in Kind /\ (k \in Waiting <=> ~Flushed(unit.at))
  BY KindsAreKinds
<1>3. Kinds(Append(buffer, unit)) = Append(Kinds(buffer), k)
  BY KindsAppend
<1>4. KindGroups(Append(groups, Append(buffer, unit))) = Append(KindGroups(groups), Kinds(Append(buffer, unit)))
  BY AppendProperties, KindGroupsAppend
<1>5. End(a, Waiting) = [written |-> KindGroups(groups), buffer |-> Kinds(buffer)]
  BY DEF Grouped
<1>. HIDE DEF k, a
<1>6. End(Append(a, k), Waiting) = Unit(End(a, Waiting), k, Waiting)
  BY <1>1, <1>2, EndAppend
<1>. QED  BY <1>1, <1>2, <1>3, <1>4, <1>5, <1>6 DEF Unit

\* At the end of a payload, what waits is the last group.
LEMMA FinishedAsModelled ==
  ASSUME Types, Grouped
  PROVE  AsModelled(Finished)
<1>1. /\ Current \in Seq(NalUnit) /\ LastUnit \in NalUnit /\ Units \in Seq(NalUnit)
      /\ FlattenSeq(Finished) = IF nalu_len > 0 THEN Append(Current, LastUnit) ELSE Current
  BY PayloadDone DEF Types
<1>2. buffer \in Seq(NalUnit) /\ groups \in Seq(Seq(NalUnit))
  BY DEF Types
<1>3. \A s \in Seq(NalUnit) : Kinds(s) = <<>> <=> s = <<>>
  <2>. SUFFICES ASSUME NEW s \in Seq(NalUnit) PROVE Kinds(s) = <<>> <=> s = <<>>
    OBVIOUS
  <2>1. Kinds(s) \in Seq(Kind) /\ Len(Kinds(s)) = Len(s)
    <3>1. [at |-> 0, to |-> 0] \in NalUnit
      BY DEF NalUnit
    <3>. QED  BY <3>1, KindsAppend
  <2>. QED  BY <2>1, EmptySeq
<1>4. KindGroups(Finished) = IF Units = <<>> THEN KindGroups(groups) ELSE Append(KindGroups(groups), Kinds(Units))
  BY <1>1, <1>2, KindGroupsAppend DEF Finished
<1>. DEFINE p == Kinds(FlattenSeq(Finished))
            end == End(p, Waiting)
<1>5. Groups(p, Waiting) = IF end.buffer = <<>> THEN end.written ELSE Append(end.written, end.buffer)
  BY DEF Groups, End
<1>6. CASE nalu_len > 0
  <2>1. Units = Append(buffer, LastUnit) /\ Units # <<>>
    BY <1>1, <1>2, <1>6, AppendProperties DEF Units
  <2>2. end = IF Flushed(LastUnit.at) THEN [written |-> KindGroups(Append(groups, Units)), buffer |-> <<>>]
              ELSE [written |-> KindGroups(groups), buffer |-> Kinds(Units)]
    BY <1>1, <1>2, <1>6, <2>1, LoopAppend
  <2>3. KindGroups(Append(groups, Units)) = Append(KindGroups(groups), Kinds(Units))
    BY <1>1, <1>2, KindGroupsAppend
  <2>4. Kinds(Units) # <<>>
    BY <1>1, <1>3, <2>1
  <2>. HIDE DEF end, p
  <2>5. Groups(p, Waiting) = KindGroups(Finished)
    BY <1>4, <1>5, <2>1, <2>2, <2>3, <2>4
  <2>. QED  BY <2>5 DEF AsModelled, p
<1>7. CASE ~(nalu_len > 0)
  <2>1. Units = buffer
    BY <1>7 DEF Units
  <2>2. end = [written |-> KindGroups(groups), buffer |-> Kinds(buffer)]
    BY <1>1, <1>7 DEF Grouped
  <2>3. Kinds(buffer) = <<>> <=> buffer = <<>>
    BY <1>2, <1>3
  <2>. HIDE DEF end, p
  <2>4. Groups(p, Waiting) = KindGroups(Finished)
    BY <1>4, <1>5, <2>1, <2>2, <2>3
  <2>. QED  BY <2>4 DEF AsModelled, p
<1>. QED  BY <1>6, <1>7

\* A flush comes exactly where Split has one.
LEMMA GroupedStep == Types /\ Scanned /\ Pieces /\ Begun /\ Grouped /\ [Next]_vars => Grouped'
<1>. SUFFICES ASSUME Types, Scanned, Pieces, Begun, Grouped, [Next]_vars PROVE Grouped'
  OBVIOUS
<1>. DEFINE SameLoop(c, gs, b) == End(Kinds(c), Waiting) = [written |-> KindGroups(gs), buffer |-> Kinds(b)]
<1>1. src' = src
  BY DEF Next, ScanByte, ScanEnd, PlainByte, FirstCode, NextCode, PieceEnd, vars, scanVars
<1>2. /\ \A s : Kinds(s)' = Kinds(s)
      /\ \A gs : KindGroups(gs)' = KindGroups(gs)
      /\ \A gs : AsModelled(gs)' = AsModelled(gs)
  <2>1. (\A s : Kinds(s)' = Kinds(s)) /\ \A gs : KindGroups(gs)' = KindGroups(gs)
    BY <1>1, KindsStay
  <2>. QED  BY <2>1, Zenon DEF AsModelled
<1>3. Grouped' <=> (\A k \in DOMAIN written' : AsModelled(written'[k])) /\ SameLoop(Current', groups', buffer')
  <2>1. GroupsAsModelled' <=> (\A k \in DOMAIN written : AsModelled(written[k]))'
    BY DEF GroupsAsModelled, AsModelled, KindGroups
  <2>2. Grouped' <=> GroupsAsModelled' /\ End(Kinds(Current)', Waiting) =
                       [written |-> KindGroups(groups)', buffer |-> Kinds(buffer)']
    BY DEF Grouped
  <2>3. (\A k \in DOMAIN written : AsModelled(written[k]))' <=> \A k \in DOMAIN written' : AsModelled(written'[k])
    BY <1>2
  <2>4. Kinds(Current)' = Kinds(Current') /\ KindGroups(groups)' = KindGroups(groups') /\ Kinds(buffer)' = Kinds(buffer')
    BY <1>2
  <2>. QED  BY <2>1, <2>2, <2>3, <2>4
<1>4. (\A k \in DOMAIN written : AsModelled(written[k])) /\ SameLoop(Current, groups, buffer)
  BY GroupsByPayload DEF Grouped
<1>. HIDE DEF SameLoop
<1>5. CASE UNCHANGED <<groups, buffer, written>>
  <2>1. Current' = Current
    BY <1>5 DEF Current
  <2>. QED  BY <1>3, <1>4, <1>5, <2>1
<1>6. CASE NextCode
  <2>1. /\ place = "split" /\ i < Size /\ ShortCode /\ i - 2 \notin {0, 1}
        /\ Collect(head + CopyLength) /\ written' = written
    BY <1>6 DEF NextCode
  <2>. DEFINE to == head + CopyLength
              unit == [at |-> head, to |-> to]
  <2>2. to \in Nat
    <3>1. i > 3 /\ unit = Behind(head - 3) /\ head - 3 \in Nat
      BY <2>1, CodeEndsUnit, UnitBegun
    <3>2. unit \in NalUnit
      BY <3>1, UnitsBehind DEF Types, Byte
    <3>3. unit.to \in Nat
      BY <3>2 DEF NalUnit
    <3>. QED  BY <3>3
  <2>3. Collect(to)
    BY <2>1
  <2>. HIDE DEF to
  <2>4. unit \in NalUnit /\ Current \in Seq(NalUnit) /\ Current' = Append(Current, unit)
    BY <2>2, <2>3, Collected DEF Types
  <2>5. unit.at = head
    OBVIOUS
  <2>6. IF Flushed(head) THEN buffer' = <<>> /\ groups' = Append(groups, Append(buffer, unit))
        ELSE buffer' = Append(buffer, unit) /\ groups' = groups
    BY <2>3 DEF Collect
  <2>. HIDE DEF unit
  <2>7. End(Kinds(Append(Current, unit)), Waiting) =
           IF Flushed(head)
             THEN [written |-> KindGroups(Append(groups, Append(buffer, unit))), buffer |-> <<>>]
             ELSE [written |-> KindGroups(groups), buffer |-> Kinds(Append(buffer, unit))]
    BY <2>4, <2>5, LoopAppend DEF Types
  <2>8. SameLoop(Current', groups', buffer')
    BY <2>4, <2>6, <2>7, KindsEmpty DEF SameLoop
  <2>. QED  BY <1>3, <1>4, <2>1, <2>8
<1>7. CASE PieceEnd
  <2>1. written' = Append(written, Finished) /\ buffer' = <<>> /\ groups' = <<>> /\ Current' = <<>>
    BY <1>7, HandedDone DEF Types
  <2>2. SameLoop(Current', groups', buffer')
    BY <2>1, KindsEmpty, EndEmpty DEF SameLoop
  <2>3. \A k \in DOMAIN written' : AsModelled(written'[k])
    <3>1. AsModelled(Finished)
      BY FinishedAsModelled
    <3>2. Finished \in Seq(Seq(NalUnit)) /\ written \in Seq(Seq(Seq(NalUnit)))
      BY PayloadDone DEF Types
    <3>3. /\ Len(written) \in Nat /\ DOMAIN written = 1..Len(written)
          /\ Append(written, Finished) \in Seq(Seq(Seq(NalUnit)))
          /\ Len(Append(written, Finished)) = Len(written) + 1
          /\ Append(written, Finished)[Len(written) + 1] = Finished
          /\ \A k \in 1..Len(written) : Append(written, Finished)[k] = written[k]
      BY <3>2, LenProperties, AppendProperties
    <3>4. DOMAIN Append(written, Finished) = 1..(Len(written) + 1)
      BY <3>3, LenProperties
    <3>5. \A k \in 1..(Len(written) + 1) : k \in 1..Len(written) \/ k = Len(written) + 1
      BY <3>3
    <3>. QED  BY <1>4, <2>1, <3>1, <3>3, <3>4, <3>5
  <2>. QED  BY <1>3, <2>2, <2>3
<1>. QED  BY <1>5, <1>6, <1>7 DEF Next, ScanByte, ScanEnd, PlainByte, FirstCode, vars, splitVars

\* The three-byte codes up to one byte more.
LEMMA ThreeByteCodesNext ==
  ASSUME NEW n \in Nat, n >= 3
  PROVE  /\ Cardinality(ThreeByteCodes(n - 1)) \in Nat /\ Cardinality(ThreeByteCodes(n)) \in Nat
         /\ Cardinality(ThreeByteCodes(n - 1)) <= Cardinality(ThreeByteCodes(n))
         /\ Data(n - 3) # 0 /\ Data(n - 2) = 0 /\ Data(n - 1) = 0 /\ Data(n) = 1 =>
              Cardinality(ThreeByteCodes(n)) = Cardinality(ThreeByteCodes(n - 1)) + 1
<1>. DEFINE found == Data(n - 3) # 0 /\ Data(n - 2) = 0 /\ Data(n - 1) = 0 /\ Data(n) = 1
            a == ThreeByteCodes(n - 1)
<1>1. IsFiniteSet(a) /\ n \notin a
  <2>1. a \subseteq 3..(n - 1) /\ IsFiniteSet(3..(n - 1))
    BY FS_Interval DEF ThreeByteCodes
  <2>2. n \notin 3..(n - 1)
    OBVIOUS
  <2>. HIDE DEF a
  <2>. QED  BY <2>1, <2>2, FS_Subset
<1>2. ThreeByteCodes(n) = IF found THEN a \cup {n} ELSE a
  <2>1. \A j \in 3..n : j \in 3..(n - 1) \/ j = n
    OBVIOUS
  <2>2. n \in 3..n /\ \A j \in 3..(n - 1) : j \in 3..n
    OBVIOUS
  <2>. QED  BY <2>1, <2>2 DEF ThreeByteCodes
<1>. HIDE DEF a
<1>3. Cardinality(a) \in Nat /\ Cardinality(a \cup {n}) = Cardinality(a) + 1
  BY <1>1, FS_CardinalityType, FS_AddElement
<1>. QED  BY <1>2, <1>3 DEF a

\* A NAL unit is copied without its start code, which makes room for its length.
LEMMA RoomStep == Types /\ Scanned /\ Pieces /\ Begun /\ Room /\ [Next]_vars => Room'
<1>. SUFFICES ASSUME Types, Scanned, Pieces, Begun, Room, [Next]_vars, place' = "split", i' > 3 PROVE Room'
  BY DEF Room
<1>0. i \in Nat /\ head \in Nat /\ nalu_len \in Nat /\ buffer \in Seq(NalUnit)
  BY DEF Types
<1>1. Taken(buffer) \in Int
  <2>1. [at |-> 0, to |-> 0] \in NalUnit
    BY DEF NalUnit
  <2>. QED  BY <1>0, <2>1, TakenAppend
<1>2. CASE UNCHANGED vars
  <2>1. UNCHANGED <<src, naluList, piece, place, i, head, buffer>>
    BY <1>2 DEF vars, scanVars, splitVars
  <2>. QED  BY <2>1, PayloadStays DEF Room
<1>3. CASE ScanByte \/ ScanEnd \/ PieceEnd
  BY <1>3 DEF ScanByte, ScanEnd, PieceEnd
<1>4. CASE PlainByte \/ FirstCode \/ NextCode
  <2>1. place = "split" /\ i < Size /\ i' = i + 1 /\ UNCHANGED <<src, naluList, piece>>
    BY <1>4 DEF PlainByte, FirstCode, NextCode, scanVars
  <2>. DEFINE c == Cardinality(ThreeByteCodes(i - 1))
              d == Cardinality(ThreeByteCodes(i))
              b == Base
  <2>2. b \in Nat /\ c \in Nat /\ d \in Nat /\ c <= d /\ i >= 3
    BY <1>0, <2>1, Payload, ThreeByteCodesNext
  <2>3. Room' <=> Taken(buffer') <= (head' - b) - 4 + d
    <3>1. i' - 1 = i
      BY <1>0, <2>1
    <3>2. ThreeByteCodes(i - 1)' = ThreeByteCodes(i' - 1) /\ Base' = Base
      BY <2>1, PayloadStays
    <3>3. Room' <=> Taken(buffer') <= (head' - Base') - 4 + Cardinality(ThreeByteCodes(i - 1)')
      BY DEF Room
    <3>. QED  BY <3>1, <3>2, <3>3
  <2>4. i > 3 => Taken(buffer) <= (head - b) - 4 + c
    BY <2>1 DEF Room
  <2>5. i > 3 => b + 4 <= head /\ head + nalu_len = b + i
    BY <2>1, UnitBegun
  <2>6. CASE PlainByte
    <3>1. buffer' = buffer /\ head' = head /\ i # 3
      BY <2>1, <2>6, ShortCodeFound DEF PlainByte
    <3>. HIDE DEF b, c, d
    <3>. QED  BY <1>0, <1>1, <2>2, <2>3, <2>4, <3>1
  <2>7. CASE FirstCode
    <3>1. i = 3 /\ head' = b + i + 1 /\ buffer' = buffer /\ buffer = <<>>
      BY <1>0, <2>1, <2>2, <2>7 DEF FirstCode, Begun
    <3>. HIDE DEF b, c, d
    <3>. QED  BY <2>2, <2>3, <3>1, TakenEmpty
  <2>8. CASE NextCode
    <3>. DEFINE unit == [at |-> head, to |-> head + CopyLength]
                len == CopyLength
    <3>1. ShortCode /\ i - 2 \notin {0, 1} /\ head' = b + i + 1 /\ Collect(head + CopyLength)
      BY <2>8 DEF NextCode
    <3>2. i > 3 /\ len \in Int /\ unit = Behind(head - 3) /\ head - 3 \in Nat
          /\ len = nalu_len - (IF Data(i - 3) = 0 THEN 3 ELSE 2)
      BY <2>1, <3>1, CodeEndsUnit, UnitBegun
    <3>3. Data(i - 3) # 0 => d = c + 1
      BY <1>0, <2>2, <3>1, ThreeByteCodesNext DEF ShortCode
    <3>4. unit \in NalUnit
      BY <3>2, UnitsBehind DEF Types, Byte
    <3>5. buffer' = <<>> \/ buffer' = Append(buffer, unit)
      BY <3>1 DEF Collect
    <3>6. Taken(Append(buffer, unit)) = Taken(buffer) + 4 + len
      <4>1. unit.to - unit.at = len
        BY <1>0, <3>2
      <4>. HIDE DEF unit, len
      <4>. QED  BY <1>0, <3>4, <4>1, TakenAppend
    <3>. HIDE DEF unit, len, b, c, d
    <3>7. len <= nalu_len - 2 /\ (d # c + 1 => len <= nalu_len - 3)
      BY <1>0, <3>2, <3>3
    <3>8. Taken(buffer) + 4 + len <= (head' - b) - 4 + d
      BY <1>0, <1>1, <2>2, <2>4, <2>5, <3>1, <3>2, <3>7
    <3>9. 0 <= (head' - b) - 4 + d
      BY <1>0, <2>2, <3>1
    <3>. QED  BY <2>3, <3>5, <3>6, <3>8, <3>9, TakenEmpty
  <2>. QED  BY <1>4, <2>6, <2>7, <2>8
<1>. QED  BY <1>2, <1>3, <1>4 DEF Next

\* At the end nothing waits.
LEMMA DoneStep ==
  Types /\ Scanned /\ (place = "done" => Current = <<>>) /\ [Next]_vars => (place' = "done" => Current' = <<>>)
<1>. SUFFICES ASSUME Types, Scanned, place = "done" => Current = <<>>, [Next]_vars, place' = "done" PROVE Current' = <<>>
  OBVIOUS
<1>1. CASE UNCHANGED vars
  BY <1>1 DEF vars, splitVars, Current
<1>2. CASE ScanEnd
  <2>1. groups' = <<>> /\ buffer' = <<>>
    BY <1>2 DEF ScanEnd, Scanned
  <2>2. Current' = FlattenSeq(<<>>) \o <<>>
    BY <2>1 DEF Current
  <2>. QED  BY <2>2, FlattenEmpty, ConcatEmptySeq, EmptySeq
<1>3. CASE PieceEnd
  BY <1>3, HandedDone DEF Types
<1>4. CASE ScanByte \/ PlainByte \/ FirstCode \/ NextCode
  BY <1>4 DEF ScanByte, PlainByte, FirstCode, NextCode
<1>. QED  BY <1>1, <1>2, <1>3, <1>4 DEF Next

\* The invariant of both loops.
LEMMA Inductive == IInv /\ [Next]_vars => IInv'
<1>1. IInv /\ [Next]_vars => Types' /\ Scanned' /\ Pieces'
  BY TypesStep, ScannedStep, PiecesStep DEF IInv
<1>2. IInv /\ [Next]_vars => Begun' /\ Complete'
  BY BegunStep, CompleteStep DEF IInv
<1>3. IInv /\ [Next]_vars => Grouped' /\ Room'
  BY GroupedStep, RoomStep DEF IInv
<1>4. IInv /\ [Next]_vars => (place' = "done" => Current' = <<>>)
  BY DoneStep DEF IInv
<1>. QED  BY <1>1, <1>2, <1>3, <1>4 DEF IInv

\* For every file: both loops stay on the bytes of the file, and what they
\* have handed on is what the start codes so far delimit.
THEOREM Invariance == Spec => []IInv
<1>1. Init => IInv
  BY Start
<1>2. IInv /\ [Next]_vars => IInv'
  BY Inductive
<1>. QED  BY <1>1, <1>2, PTL DEF Spec

----------------------------------------------------------------------------
(* What the runs check. *)

\* For every file: what getNaluList and WriteEncodedVideoFrame hand to
\* WriteH264Frame is every non-empty NAL unit of the file, whole and in order.
THEOREM NothingLost == Spec => []RecordsEveryUnit
<1>1. IInv => RecordsEveryUnit
  <2>. SUFFICES ASSUME IInv, place = "done"
                PROVE Only(FlattenSeq(FlattenSeq(written)), NotEmpty) = UnitsBefore(Len(src))
    BY DEF RecordsEveryUnit
  <2>1. Types /\ Only(Handed, NotEmpty) = UnitsBefore(Len(src)) /\ Current = <<>>
    BY DEF IInv, Complete, Reached
  <2>2. Handed = FlattenSeq(FlattenSeq(written))
    <3>1. FlattenSeq(FlattenSeq(written)) \in Seq(NalUnit)
      BY <2>1, HandedIn
    <3>. QED  BY <2>1, <3>1, ConcatEmptySeq DEF Handed
  <2>. QED  BY <2>1, <2>2
<1>. QED  BY <1>1, Invariance, PTL

\* For every file: the byte loop groups the NAL units of each payload as the
\* operator Groups does, on which the Recorder's model of the file rests.
THEOREM GroupsCorrect == Spec => []GroupsAsModelled
<1>1. IInv => GroupsAsModelled
  BY DEF IInv, Grouped
<1>. QED  BY <1>1, Invariance, PTL

\* For every file: what is copied into video_payload_data is never longer than
\* the payload and a byte for each of its three-byte codes.
THEOREM NeverTooLong == Spec => []BufferFits
<1>1. IInv => BufferFits
  <2>. SUFFICES ASSUME IInv, place = "split" PROVE InUse <= Size + Cardinality(ThreeByteCodes(i))
    BY DEF BufferFits
  <2>0. Types /\ Pieces /\ Begun /\ Room
    BY DEF IInv
  <2>. DEFINE t == Taken(buffer)
              b == Base
              z == Size
              c == Cardinality(ThreeByteCodes(i - 1))
              d == Cardinality(ThreeByteCodes(i))
  <2>1. i \in Nat /\ nalu_len \in Nat /\ b \in Nat /\ z \in Nat /\ z >= 4 /\ i <= z
    BY <2>0, Payload DEF Types
  <2>2. InUse = t + (IF i = z /\ nalu_len > 0 THEN 4 + nalu_len ELSE 0)
    BY DEF InUse
  <2>3. CASE i <= 3
    <3>1. t = 0
      BY <2>0, <2>3, TakenEmpty DEF Begun
    <3>2. d \in Nat
      <4>1. ThreeByteCodes(i) \subseteq 3..i /\ IsFiniteSet(3..i)
        BY <2>1, FS_Interval DEF ThreeByteCodes
      <4>. QED  BY <4>1, FS_Subset, FS_CardinalityType
    <3>. HIDE DEF t, b, z, c, d
    <3>3. InUse = 0
      BY <2>1, <2>2, <2>3, <3>1
    <3>. QED  BY <2>1, <3>2, <3>3 DEF z, d
  <2>4. CASE i > 3
    <3>1. t \in Int
      <4>1. [at |-> 0, to |-> 0] \in NalUnit
        BY DEF NalUnit
      <4>. QED  BY <2>0, <4>1, TakenAppend DEF Types
    <3>2. c \in Nat /\ d \in Nat /\ c <= d
      BY <2>1, <2>4, ThreeByteCodesNext
    <3>3. t <= (head - b) - 4 + c
      BY <2>0, <2>4 DEF Room
    <3>4. head \in Nat /\ b + 4 <= head /\ head + nalu_len = b + i
      BY <2>0, <2>4, UnitBegun
    <3>. HIDE DEF t, b, z, c, d
    <3>5. InUse <= z + d
      BY <2>1, <2>2, <2>4, <3>1, <3>2, <3>3, <3>4
    <3>. QED  BY <3>5 DEF z, d
  <2>. QED  BY <2>1, <2>3, <2>4
<1>. QED  BY <1>1, Invariance, PTL

\* For every file: copy_len, which the code keeps in an unsigned int, is never
\* below zero, so memcpy gets the length of the NAL unit.
THEOREM LengthNeverNegative ==
  Spec => [](place = "split" /\ i < Size /\ ShortCode /\ i - 2 \notin {0, 1} => CopyLength \in Nat)
<1>1. IInv => (place = "split" /\ i < Size /\ ShortCode /\ i - 2 \notin {0, 1} => CopyLength \in Nat)
  <2>. SUFFICES ASSUME IInv, place = "split", i < Size, ShortCode, i - 2 \notin {0, 1}
                PROVE  CopyLength \in Nat
    OBVIOUS
  <2>0. Types /\ Pieces /\ Begun
    BY DEF IInv
  <2>. DEFINE c == Base + i - 2
  <2>1. /\ i > 3 /\ head <= c /\ CopyLength = nalu_len - (IF Data(i - 3) = 0 THEN 3 ELSE 2)
        /\ Base \in Nat /\ i \in Nat
    BY <2>0, CodeEndsUnit, Payload DEF Types
  <2>2. /\ head \in Nat /\ nalu_len \in Nat /\ head + nalu_len = Base + i
        /\ head - 3 \in Nat /\ ShortCodeAt(head - 3)
    BY <2>0, <2>1, UnitBegun
  <2>3. Data(i - 3) = At(c - 1) /\ c = (head + nalu_len) - 2 /\ c \in Nat
    BY <2>0, <2>1, <2>2, ShortCodeFound
  <2>4. At(head - 1) = 1
    <3>1. (head - 3) + 2 = head - 1
      BY <2>2
    <3>. QED  BY <2>2, <3>1 DEF ShortCodeAt
  <2>. HIDE DEF c
  <2>5. At(c - 1) = 0 => head + 1 <= c
    BY <2>1, <2>2, <2>3, <2>4
  <2>. QED  BY <2>1, <2>2, <2>3, <2>5
<1>. QED  BY <1>1, Invariance, PTL
=============================================================================
