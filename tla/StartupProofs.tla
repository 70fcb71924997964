--------------------------- MODULE StartupProofs ---------------------------
(***************************************************************************)
(* Proofs about Startup, for any set of input files and any number of      *)
(* lives and sessions.                                                     *)
(***************************************************************************)
EXTENDS Startup, TLAPS

\* How far prepare is, against the session it is working on.
Phases ==
  /\ ui # "idle" => sessions > 0
  /\ ui = "extracted" => mExtractor < sessions /\ input # Missing
  /\ ui \in {"made", "inited"} => mExtractor = sessions
  /\ ui \in {"extracted", "made"} => sets[sessions] = HasSets(input)
  /\ ui = "inited" => HasSets(input)
  /\ ui = "threw" => ~HasSets(input)
  /\ decoding # {} => mExtractor > 0 /\ HasSets(input)
  /\ \A s \in Session : s > sessions => sets[s] = FALSE

\* The list begins with the offsets of the input, however often it was filled.
ListOK ==
  naluList # <<>> =>
    /\ input \in Seq(Unit)
    /\ Len(naluList) > Len(input)
    /\ \A n \in 1..(Len(input) + 1) : naluList[n] = n - 1

\* In the first session the index stays among the frames.
FirstSession ==
  /\ sessions = 0 => naluList = <<>> /\ decodeNaluIndex[1] = 2
  /\ sessions = 1 /\ Playable(input) =>
       naluList = Offsets(input) /\ decodeNaluIndex[1] < Len(input)
  /\ run > 0 /\ outcome[run] = "threw" /\ sessions = 1 => ~Playable(input)

\* Whoever holds a handle belongs to this life and has not come later than the
\* one who created the file last.
Holders ==
  /\ recording.owner = None => recording.parts = {}
  /\ recording.owner # None =>
       /\ recording.owner[1] <= run
       /\ recording.owner[1] = run => recording.owner[2] <= mExtractor
  /\ recording.index # None =>
       /\ recording.index[1] <= run
       /\ recording.index[1] = run => handle[recording.index[2]] = "closed"
  /\ \A s \in Session : handle[s] # "none" =>
       /\ recording.owner # None
       /\ recording.owner[1] = run
       /\ s <= recording.owner[2]

IInv == TypeOK /\ Phases /\ ListOK /\ FirstSession /\ Holders /\ OwnBytesOnly

----------------------------------------------------------------------------
(* Facts about the operators. *)

LEMMA Numbers == MaxRuns \in Nat /\ MaxSessions \in Nat /\ MaxSessions > 0 /\ 1 \in Session
<1>. QED  BY InputsAssumption DEF Session

\* An input that can be read is a sequence of NAL units.
LEMMA Readable ==
  ASSUME NEW f \in Inputs, f # Missing, f # Empty
  PROVE  f \in Seq(Unit)
<1>. QED  BY InputsAssumption

LEMMA OffsetsAre ==
  ASSUME NEW f \in Seq(Unit)
  PROVE  /\ Offsets(f) \in Seq(Nat)
         /\ Len(Offsets(f)) = Len(f) + 1
         /\ \A n \in 1..(Len(f) + 1) : Offsets(f)[n] = n - 1
<1>. QED  BY DEF Offsets

LEMMA EmptyIsSeq == <<>> \in Seq(Nat)
<1>. QED  OBVIOUS

LEMMA Concatenated ==
  ASSUME NEW a \in Seq(Nat), NEW b \in Seq(Nat)
  PROVE  /\ a \o b \in Seq(Nat)
         /\ Len(a \o b) = Len(a) + Len(b)
         /\ \A n \in 1..Len(a) : (a \o b)[n] = a[n]
         /\ a = <<>> => a \o b = b
<1>. QED  OBVIOUS

\* Filling the list once more keeps its beginning.
LEMMA ListGrows ==
  ASSUME TypeOK, ListOK, input \in Seq(Unit)
  PROVE  LET list == naluList \o Offsets(input)
         IN  /\ list \in Seq(Nat)
             /\ Len(list) > Len(input)
             /\ \A n \in 1..(Len(input) + 1) : list[n] = n - 1
             /\ naluList = <<>> => list = Offsets(input)
<1>. DEFINE new == Offsets(input)
            list == naluList \o new
<1>1. new \in Seq(Nat) /\ Len(new) = Len(input) + 1 /\ \A n \in 1..(Len(input) + 1) : new[n] = n - 1
  BY OffsetsAre
<1>2. naluList \in Seq(Nat)
  BY DEF TypeOK
<1>3. /\ list \in Seq(Nat)
      /\ Len(list) = Len(naluList) + Len(new)
      /\ \A n \in 1..Len(naluList) : list[n] = naluList[n]
      /\ naluList = <<>> => list = new
  <2>. HIDE DEF new
  <2>. QED  BY <1>1, <1>2, Concatenated
<1>. HIDE DEF new, list
<1>. DEFINE Goal == /\ list \in Seq(Nat)
                    /\ Len(list) > Len(input)
                    /\ \A n \in 1..(Len(input) + 1) : list[n] = n - 1
                    /\ naluList = <<>> => list = new
<1>4. ASSUME naluList = <<>> PROVE Goal
  <2>. QED  BY <1>1, <1>3, <1>4
<1>5. ASSUME naluList # <<>> PROVE Goal
  <2>1. Len(naluList) > Len(input) /\ \A n \in 1..(Len(input) + 1) : naluList[n] = n - 1
    BY <1>5 DEF ListOK
  <2>. QED  BY <1>1, <1>2, <1>3, <1>5, <2>1
<1>. QED  BY <1>4, <1>5 DEF new, list

\* hasSpsPps sees what is in front of the file.
LEMMA FoundMeansSets ==
  ASSUME NEW f \in Seq(Unit), f # Missing, f # Empty, NEW list \in Seq(Nat),
         \A n \in 1..(Len(f) + 1) : list[n] = n - 1
  PROVE  Found(f, list) = HasSets(f)
<1>1. list[1] = 0
  OBVIOUS
<1>2. CASE Len(f) = 0
  BY <1>1, <1>2 DEF Found, HasSets, UnitAt
<1>3. CASE Len(f) > 0
  <2>1. list[2] = 1
    BY <1>3
  <2>. QED  BY <1>1, <2>1, <1>3 DEF Found, HasSets, UnitAt
<1>. QED  BY <1>2, <1>3

----------------------------------------------------------------------------
(* The invariant holds at first, and every step keeps each of its parts. *)

LEMMA InitInv == Init => IInv
<1>. SUFFICES ASSUME Init PROVE IInv
  OBVIOUS
<1>. USE Numbers DEF Init, NoRecording
<1>1. TypeOK
  <2>1. recording \in Recording
    BY DEF Recording
  <2>2. outcome \in [Run -> {"none", "running", "killed", "threw"}]
    OBVIOUS
  <2>3. /\ sets \in [Session -> BOOLEAN]
        /\ decodeNaluIndex \in [Session -> Nat \ {0, 1}]
        /\ handle \in [Session -> {"none", "open", "closed"}]
    OBVIOUS
  <2>4. naluList \in Seq(Nat)
    BY EmptyIsSeq
  <2>5. run \in 0..MaxRuns /\ sessions \in 0..MaxSessions /\ mExtractor \in 0..sessions
    OBVIOUS
  <2>. QED  BY <2>1, <2>2, <2>3, <2>4, <2>5 DEF TypeOK
<1>2. Phases /\ ListOK
  BY DEF Phases, ListOK
<1>3. FirstSession
  BY DEF FirstSession
<1>4. Holders /\ OwnBytesOnly
  BY DEF Holders, OwnBytesOnly
<1>. QED  BY <1>1, <1>2, <1>3, <1>4 DEF IInv

\* Writing leaves creator and index as they are.
LEMMA WrittenIs ==
  ASSUME TypeOK, NEW s \in Session, Running
  PROVE  /\ Written(s) \in Recording
         /\ Written(s).owner = recording.owner /\ Written(s).index = recording.index
         /\ Written(s).parts = IF handle[s] = "open" THEN recording.parts \cup {Me(s)}
                                                       ELSE recording.parts
<1>1. Me(s) \in Stamp
  BY Numbers DEF Me, Stamp, Run, Session, Running, TypeOK
<1>. QED  BY <1>1 DEF Written, TypeOK, Recording

LEMMA AdvanceKeeps ==
  ASSUME TypeOK, Advance
  PROVE  decodeNaluIndex' \in [Session -> Nat \ {0, 1}]
<1>. DEFINE next == IF decodeNaluIndex[mExtractor] + 2 = Len(naluList) THEN 2
                                              ELSE decodeNaluIndex[mExtractor] + 1
<1>1. decodeNaluIndex' = [decodeNaluIndex EXCEPT ![mExtractor] = next]
  BY DEF Advance
<1>2. mExtractor \in Session => next \in Nat \ {0, 1}
  BY DEF TypeOK
<1>. HIDE DEF next
<1>. QED  BY <1>1, <1>2 DEF TypeOK

LEMMA TypeStep ==
  ASSUME IInv, [Next]_vars
  PROVE  TypeOK'
<1>. USE Numbers DEF IInv
<1>1. CASE Launch
  <2>1. /\ sets' \in [Session -> BOOLEAN]
        /\ decodeNaluIndex' \in [Session -> Nat \ {0, 1}]
        /\ handle' \in [Session -> {"none", "open", "closed"}]
    BY <1>1 DEF Launch
  <2>2. run' \in 0..MaxRuns
    BY <1>1 DEF Launch, TypeOK
  <2>3. outcome' \in [Run -> {"none", "running", "killed", "threw"}]
    BY <1>1 DEF Launch, TypeOK
  <2>4. naluList' \in Seq(Nat) /\ closeWriter' \in BOOLEAN
    BY <1>1, EmptyIsSeq, Zenon DEF Launch
  <2>5. sessions' \in 0..MaxSessions /\ mExtractor' \in 0..sessions'
    BY <1>1 DEF Launch
  <2>. QED  BY <1>1, <2>1, <2>2, <2>3, <2>4, <2>5 DEF Launch, TypeOK
<1>2. CASE Kill
  BY <1>2 DEF Kill, TypeOK, javaVars, recVars
<1>3. CASE NoFile
  <2>1. outcome' \in [Run -> {"none", "running", "killed", "threw"}]
    BY <1>3 DEF NoFile, Throws, TypeOK
  <2>2. sessions' \in 0..MaxSessions /\ sessions' = sessions + 1
    BY <1>3 DEF NoFile, Called, TypeOK
  <2>. QED  BY <1>3, <2>1, <2>2 DEF NoFile, TypeOK, javaVars, recVars
<1>4. CASE Extract
  <2>1. input \in Inputs /\ input # Missing
    BY <1>4 DEF Extract, TypeOK
  <2>2. naluList' \in Seq(Nat) /\ sets' \in [Session -> BOOLEAN]
    <3>1. CASE input = Empty
      BY <1>4, <3>1 DEF Extract, TypeOK
    <3>2. CASE input # Empty
      <4>1. input \in Seq(Unit)
        BY <2>1, <3>2, Readable
      <4>. DEFINE list == naluList \o Offsets(input)
      <4>2. list \in Seq(Nat)
        BY <4>1, ListGrows
      <4>3. Found(input, list) \in BOOLEAN
        BY DEF Found
      <4>4. naluList' = list /\ sets' = [sets EXCEPT ![sessions + 1] = Found(input, list)]
        BY <1>4, <3>2 DEF Extract
      <4>. HIDE DEF list
      <4>. QED  BY <4>2, <4>3, <4>4 DEF TypeOK
    <3>. QED  BY <3>1, <3>2
  <2>. QED  BY <1>4, <2>2 DEF Extract, Called, TypeOK, recVars
<1>5. CASE MakeCodec
  <2>1. sessions \in Session /\ Me(sessions) \in Stamp
    BY <1>5 DEF MakeCodec, Phases, TypeOK, Session, Me, Stamp, Run, Running
  <2>2. handle' \in [Session -> {"none", "open", "closed"}] /\ recording' \in Recording
    BY <1>5, <2>1 DEF MakeCodec, TypeOK, recVars, NoRecording, Recording
  <2>. QED  BY <1>5, <2>2 DEF MakeCodec, TypeOK
<1>6. CASE InitCodec
  <2>1. sessions \in Session
    BY <1>6 DEF InitCodec, Phases, TypeOK, Session
  <2>2. recording' \in Recording
    BY <1>6, <2>1, WrittenIs DEF InitCodec, TypeOK
  <2>. QED  BY <1>6, <2>2 DEF InitCodec, Throws, TypeOK, javaVars
<1>7. CASE OpenCodec
  BY <1>7 DEF OpenCodec, Phases, TypeOK, javaVars, recVars
<1>8. CASE Click
  BY <1>8 DEF Click, TypeOK, javaVars, recVars
<1>9. ASSUME NEW s \in Session, FrameThrows(s) PROVE TypeOK'
  BY <1>9 DEF FrameThrows, Throws, TypeOK, javaVars, recVars
<1>10. ASSUME NEW s \in Session, WriteFrame(s) PROVE TypeOK'
  <2>1. recording' \in Recording
    BY <1>10, WrittenIs DEF WriteFrame
  <2>2. decodeNaluIndex' \in [Session -> Nat \ {0, 1}]
    BY <1>10, AdvanceKeeps DEF WriteFrame
  <2>. QED  BY <1>10, <2>1, <2>2 DEF WriteFrame, TypeOK
<1>11. ASSUME NEW s \in Session, CloseFile(s) PROVE TypeOK'
  <2>1. Me(s) \in Stamp
    BY <1>11 DEF CloseFile, TypeOK, Session, Me, Stamp, Run, Running
  <2>2. handle' \in [Session -> {"none", "open", "closed"}] /\ recording' \in Recording
    <3>1. CASE handle[s] = "open"
      <4>1. handle' = [handle EXCEPT ![s] = "closed"]
        BY <1>11, <3>1 DEF CloseFile
      <4>2. recording' = [recording EXCEPT !.index = Me(s), !.parts = @ \cup {Me(s)}]
        BY <1>11, <3>1 DEF CloseFile
      <4>3. recording' \in Recording
        BY <2>1, <4>2 DEF TypeOK, Recording
      <4>. QED  BY <4>1, <4>3 DEF TypeOK
    <3>2. CASE handle[s] # "open"
      BY <1>11, <3>2 DEF CloseFile, TypeOK, recVars
    <3>. QED  BY <3>1, <3>2
  <2>3. decodeNaluIndex' \in [Session -> Nat \ {0, 1}]
    BY <1>11, AdvanceKeeps DEF CloseFile
  <2>. QED  BY <1>11, <2>2, <2>3 DEF CloseFile, TypeOK
<1>12. CASE UNCHANGED vars
  BY <1>12 DEF vars, javaVars, recVars, TypeOK
<1>. QED
  BY <1>1, <1>2, <1>3, <1>4, <1>5, <1>6, <1>7, <1>8, <1>9, <1>10, <1>11, <1>12
  DEF Next, Prepare, Decode

\* prepare knows at each of its steps whether the file has its parameter sets.
LEMMA PhasesStep ==
  ASSUME IInv, [Next]_vars
  PROVE  Phases'
<1>. USE Numbers DEF IInv
<1>1. CASE Launch
  BY <1>1 DEF Launch, Phases
<1>2. CASE Kill
  BY <1>2 DEF Kill, Phases, javaVars
<1>3. CASE NoFile
  <2>1. ~HasSets(input)
    BY <1>3 DEF NoFile, HasSets
  <2>2. sessions' = sessions + 1 /\ sessions \in Nat
    BY <1>3 DEF NoFile, Called, TypeOK
  <2>. QED  BY <1>3, <2>1, <2>2 DEF NoFile, Phases, Session, javaVars
<1>4. CASE Extract
  <2>1. sessions + 1 \in Session /\ ui' = "extracted" /\ sessions' = sessions + 1 /\ input' = input
    BY <1>4 DEF Extract, Called, TypeOK, Session
  <2>2. sets'[sessions + 1] = HasSets(input)
    <3>1. CASE input = Empty
      <4>1. sets[sessions + 1] = FALSE
        BY <1>4, <2>1 DEF Phases, TypeOK
      <4>2. HasSets(input) = FALSE
        BY <3>1 DEF HasSets
      <4>. QED  BY <1>4, <3>1, <4>1, <4>2 DEF Extract
    <3>2. CASE input # Empty
      <4>. DEFINE list == naluList \o Offsets(input)
      <4>1. input \in Seq(Unit) /\ input # Missing
        BY <1>4, <3>2, Readable DEF Extract, TypeOK
      <4>2. list \in Seq(Nat) /\ \A n \in 1..(Len(input) + 1) : list[n] = n - 1
        BY <4>1, ListGrows
      <4>3. sets' = [sets EXCEPT ![sessions + 1] = Found(input, list)]
        BY <1>4, <3>2 DEF Extract
      <4>. HIDE DEF list
      <4>4. Found(input, list) = HasSets(input)
        BY <3>2, <4>1, <4>2, FoundMeansSets
      <4>. QED  BY <2>1, <4>3, <4>4 DEF TypeOK
    <3>. QED  BY <3>1, <3>2
  <2>3. \A s \in Session : s > sessions + 1 => sets'[s] = FALSE
    BY <1>4, <2>1 DEF Extract, Phases, TypeOK, Session
  <2>4. mExtractor' = mExtractor /\ mExtractor < sessions + 1 /\ decoding' = decoding /\ sessions + 1 > 0
    BY <1>4 DEF Extract, TypeOK
  <2>. QED  BY <1>4, <2>1, <2>2, <2>3, <2>4 DEF Extract, Phases
<1>5. CASE MakeCodec
  BY <1>5 DEF MakeCodec, Phases, TypeOK
<1>6. CASE InitCodec
  BY <1>6 DEF InitCodec, Phases, javaVars
<1>7. CASE OpenCodec
  BY <1>7 DEF OpenCodec, Phases, TypeOK, javaVars
<1>8. CASE Click
  BY <1>8 DEF Click, Phases, javaVars
<1>9. ASSUME NEW s \in Session, FrameThrows(s) PROVE Phases'
  BY <1>9 DEF FrameThrows, Phases, javaVars
<1>10. ASSUME NEW s \in Session, WriteFrame(s) PROVE Phases'
  BY <1>10 DEF WriteFrame, Phases
<1>11. ASSUME NEW s \in Session, CloseFile(s) PROVE Phases'
  BY <1>11 DEF CloseFile, Phases
<1>12. CASE UNCHANGED vars
  BY <1>12 DEF vars, javaVars, Phases
<1>. QED
  BY <1>1, <1>2, <1>3, <1>4, <1>5, <1>6, <1>7, <1>8, <1>9, <1>10, <1>11, <1>12
  DEF Next, Prepare, Decode

\* The list is filled only by prepare, and new with each life.
LEMMA ListStep ==
  ASSUME IInv, [Next]_vars
  PROVE  ListOK'
<1>. USE Numbers DEF IInv
<1>1. CASE Launch
  BY <1>1 DEF Launch, ListOK
<1>2. CASE Extract
  <2>1. CASE input = Empty
    BY <1>2, <2>1 DEF Extract, ListOK
  <2>2. CASE input # Empty
    <3>. DEFINE list == naluList \o Offsets(input)
    <3>1. input \in Seq(Unit) /\ input' = input
      BY <1>2, <2>2, Readable DEF Extract, TypeOK
    <3>2. Len(list) > Len(input) /\ \A n \in 1..(Len(input) + 1) : list[n] = n - 1
      BY <3>1, ListGrows
    <3>3. naluList' = list
      BY <1>2, <2>2 DEF Extract
    <3>. HIDE DEF list
    <3>. QED  BY <3>1, <3>2, <3>3 DEF ListOK
  <2>. QED  BY <2>1, <2>2
<1>3. CASE ~Launch /\ ~Extract
  <2>1. UNCHANGED <<naluList, input>>
    BY <1>3 DEF Next, Kill, NoFile, Prepare, MakeCodec, InitCodec, OpenCodec, Click, Decode,
                FrameThrows, WriteFrame, CloseFile, vars, javaVars
  <2>. QED  BY <2>1 DEF ListOK
<1>. QED  BY <1>1, <1>2, <1>3

\* A round that advances stays inside the list of a single session.
LEMMA AdvanceStays ==
  ASSUME IInv, Advance, UNCHANGED <<sessions, naluList, input>>, decoding # {}, sessions = 1,
         Playable(input)
  PROVE  decodeNaluIndex'[1] < Len(input)
<1>1. /\ naluList = Offsets(input) /\ decodeNaluIndex[1] < Len(input) /\ mExtractor = 1
      /\ decodeNaluIndex[1] \in Nat
  BY Numbers DEF IInv, FirstSession, Phases, TypeOK
<1>2. input \in Seq(Unit) /\ Len(input) > 2
  BY Readable DEF IInv, TypeOK, Playable, HasSets
<1>3. Len(naluList) = Len(input) + 1
  BY <1>1, <1>2, OffsetsAre
<1>4. decodeNaluIndex'[1] = IF decodeNaluIndex[1] + 2 = Len(naluList) THEN 2
                                                    ELSE decodeNaluIndex[1] + 1
  BY <1>1, Numbers DEF Advance, IInv, TypeOK
<1>. QED  BY <1>1, <1>2, <1>3, <1>4

\* In a single session with a playable file there is always a frame to get.
LEMMA FrameThere ==
  ASSUME IInv, decoding # {}, sessions = 1, Playable(input)
  PROVE  GetsFrame
<1>. DEFINE j == decodeNaluIndex[1]
<1>1. /\ naluList = Offsets(input) /\ j < Len(input) /\ mExtractor = 1 /\ j \in Nat
  BY Numbers DEF IInv, FirstSession, Phases, TypeOK
<1>2. input \in Seq(Unit) /\ \A n \in DOMAIN input : input[n] # "HUGE"
  BY Readable DEF IInv, TypeOK, Playable, HasSets
<1>3. Len(naluList) = Len(input) + 1 /\ naluList[j + 1] = j /\ naluList[j + 2] = j + 1
  <2>. HIDE DEF j
  <2>1. Len(input) \in Nat /\ j + 1 \in 1..(Len(input) + 1) /\ j + 2 \in 1..(Len(input) + 1)
    BY <1>1, <1>2
  <2>2. /\ Len(Offsets(input)) = Len(input) + 1
        /\ \A n \in 1..(Len(input) + 1) : Offsets(input)[n] = n - 1
    BY <1>2, OffsetsAre
  <2>. QED  BY <1>1, <2>1, <2>2
<1>4. UnitAt(input, j) # "HUGE"
  BY <1>1, <1>2 DEF UnitAt
<1>. HIDE DEF j
<1>5. Index = j
  BY <1>1 DEF Index, j
<1>. QED  BY <1>1, <1>2, <1>3, <1>4, <1>5 DEF GetsFrame

LEMMA FirstStep ==
  ASSUME IInv, [Next]_vars
  PROVE  FirstSession'
<1>. USE Numbers DEF IInv
<1>1. CASE Launch
  BY <1>1 DEF Launch, FirstSession, TypeOK
<1>2. CASE Kill
  BY <1>2 DEF Kill, FirstSession, TypeOK, Run, Running, javaVars
<1>3. CASE NoFile
  <2>1. ~Playable(input)
    BY <1>3 DEF NoFile, Playable, HasSets
  <2>2. sessions' > 0 /\ input' = input
    BY <1>3 DEF NoFile, Called, TypeOK
  <2>. QED  BY <2>1, <2>2 DEF FirstSession
<1>4. CASE Extract
  <2>1. sessions' = sessions + 1 /\ sessions \in Nat /\ UNCHANGED <<input, run, outcome, decodeNaluIndex>>
        /\ outcome[run] = "running"
    BY <1>4 DEF Extract, Called, Running, TypeOK
  <2>2. ASSUME sessions = 0, Playable(input)
        PROVE  naluList' = Offsets(input) /\ decodeNaluIndex[1] < Len(input)
    <3>1. input # Empty /\ input \in Seq(Unit) /\ Len(input) > 2
      BY <2>2, Readable DEF TypeOK, Playable, HasSets
    <3>2. naluList' = naluList \o Offsets(input)
      BY <1>4, <3>1 DEF Extract
    <3>3. naluList = <<>> /\ decodeNaluIndex[1] = 2
      BY <2>2 DEF FirstSession
    <3>. QED  BY <3>1, <3>2, <3>3, ListGrows
  <2>. QED  BY <2>1, <2>2 DEF FirstSession
<1>5. CASE MakeCodec \/ OpenCodec \/ Click \/ UNCHANGED vars
  <2>1. UNCHANGED <<input, run, outcome, sessions, naluList, decodeNaluIndex>>
    BY <1>5 DEF MakeCodec, OpenCodec, Click, vars, javaVars
  <2>. QED  BY <2>1 DEF FirstSession
<1>6. CASE InitCodec
  <2>1. sets[sessions] = HasSets(input) /\ sessions > 0
    BY <1>6 DEF InitCodec, Phases
  <2>2. outcome' = outcome \/ ~Playable(input)
    BY <1>6, <2>1 DEF InitCodec, Playable
  <2>3. UNCHANGED <<input, run, sessions, naluList, decodeNaluIndex>>
    BY <1>6 DEF InitCodec, javaVars
  <2>. QED  BY <2>1, <2>2, <2>3 DEF FirstSession
<1>7. ASSUME NEW s \in Session, FrameThrows(s) PROVE FirstSession'
  <2>1. sessions = 1 => ~Playable(input)
    BY <1>7, FrameThere DEF FrameThrows
  <2>2. sessions > 0 /\ UNCHANGED <<input, sessions>>
    BY <1>7 DEF FrameThrows, TypeOK
  <2>. QED  BY <2>1, <2>2 DEF FirstSession
<1>8. ASSUME NEW s \in Session, WriteFrame(s) \/ CloseFile(s) PROVE FirstSession'
  <2>1. /\ decoding # {} /\ Advance
        /\ UNCHANGED <<input, run, outcome, sessions, naluList>>
    BY <1>8 DEF WriteFrame, CloseFile
  <2>2. sessions > 0
    BY <1>8 DEF WriteFrame, CloseFile, TypeOK
  <2>3. sessions = 1 /\ Playable(input) => decodeNaluIndex'[1] < Len(input)
    BY <2>1, AdvanceStays
  <2>. QED  BY <2>1, <2>2, <2>3 DEF FirstSession
<1>. QED
  BY <1>1, <1>2, <1>3, <1>4, <1>5, <1>6, <1>7, <1>8 DEF Next, Prepare, Decode

----------------------------------------------------------------------------
(* Who writes to the recording. *)

\* Opening the file anew makes its owner the newest of all.
LEMMA HoldersStep ==
  ASSUME IInv, [Next]_vars, TypeOK'
  PROVE  Holders' /\ OwnBytesOnly'
<1>. USE Numbers DEF IInv
<1>1. CASE Launch
  <2>1. /\ UNCHANGED recording /\ run' = run + 1 /\ run \in Nat
        /\ \A s \in Session : handle'[s] = "none"
    BY <1>1 DEF Launch, TypeOK
  <2>2. recording.owner # None => recording.owner[1] < run + 1
    BY <2>1 DEF Holders, TypeOK, Recording, Stamp, Run
  <2>3. recording.index # None => recording.index[1] < run + 1
    BY <2>1 DEF Holders, TypeOK, Recording, Stamp, Run
  <2>. QED  BY <2>1, <2>2, <2>3 DEF Holders, OwnBytesOnly, TypeOK, Recording, Stamp, Run
<1>2. CASE Kill \/ NoFile \/ Extract \/ OpenCodec \/ Click \/ UNCHANGED vars
  <2>1. UNCHANGED <<run, mExtractor, handle, recording>>
    BY <1>2 DEF Kill, NoFile, Extract, OpenCodec, Click, vars, javaVars, recVars
  <2>. QED  BY <2>1 DEF Holders, OwnBytesOnly
<1>3. CASE MakeCodec
  <2>1. /\ sessions \in Session /\ mExtractor < sessions /\ mExtractor' = sessions
        /\ UNCHANGED run
    BY <1>3 DEF MakeCodec, Phases, TypeOK, Session
  <2>2. CASE UNCHANGED <<handle, recording>>
    BY <2>1, <2>2 DEF Holders, OwnBytesOnly, TypeOK, Recording, Stamp, Session
  <2>3. ASSUME handle' = [handle EXCEPT ![sessions] = "open"],
               recording' = [NoRecording EXCEPT !.owner = Me(sessions)]
        PROVE  Holders' /\ OwnBytesOnly'
    <3>1. /\ recording'.owner = <<run, sessions>> /\ recording'.parts = {} /\ recording'.index = None
      BY <2>3 DEF NoRecording, Me
    <3>2. \A s \in Session : handle'[s] # "none" => s <= sessions
      BY <2>1, <2>3 DEF Holders, TypeOK, Recording, Stamp, Session
    <3>3. <<run, sessions>> \in Stamp
      BY <1>3, <2>1 DEF MakeCodec, Running, TypeOK, Run, Stamp
    <3>4. <<run, sessions>> # None
      BY <3>3, InputsAssumption
    <3>5. run \in Nat /\ sessions \in Nat
      BY DEF TypeOK
    <3>6. <<run, sessions>>[1] = run /\ <<run, sessions>>[2] = sessions
      OBVIOUS
    <3>7. Holders'
      BY <2>1, <3>1, <3>2, <3>4, <3>6, <3>5 DEF Holders
    <3>. QED  BY <3>1, <3>7 DEF OwnBytesOnly
  <2>. QED  BY <1>3, <2>2, <2>3 DEF MakeCodec, recVars
<1>4. ASSUME NEW s \in Session, Running, recording' = Written(s), UNCHANGED <<run, mExtractor, handle>>
      PROVE  Holders' /\ OwnBytesOnly'
  <2>1. /\ UNCHANGED <<recording.owner, recording.index>>
        /\ recording'.parts = IF handle[s] = "open" THEN recording.parts \cup {Me(s)}
                                                    ELSE recording.parts
    BY <1>4, WrittenIs
  <2>2. handle[s] = "open" =>
          recording.owner # None /\ recording.owner[1] = run /\ s <= recording.owner[2]
    BY DEF Holders
  <2>. QED  BY <1>4, <2>1, <2>2 DEF Holders, OwnBytesOnly, Me
<1>5. CASE InitCodec
  <2>1. sessions \in Session /\ Running
    BY <1>5 DEF InitCodec, Phases, TypeOK, Session
  <2>2. UNCHANGED <<run, mExtractor, handle>>
    BY <1>5 DEF InitCodec, javaVars
  <2>3. CASE recording' = Written(sessions)
    BY <1>4, <2>1, <2>2, <2>3
  <2>4. CASE UNCHANGED recording
    BY <2>2, <2>4 DEF Holders, OwnBytesOnly
  <2>. QED  BY <1>5, <2>3, <2>4 DEF InitCodec
<1>6. ASSUME NEW s \in Session, FrameThrows(s) PROVE Holders' /\ OwnBytesOnly'
  BY <1>6 DEF FrameThrows, Holders, OwnBytesOnly, javaVars, recVars
<1>7. ASSUME NEW s \in Session, WriteFrame(s) PROVE Holders' /\ OwnBytesOnly'
  BY <1>4, <1>7 DEF WriteFrame
<1>8. ASSUME NEW s \in Session, CloseFile(s) PROVE Holders' /\ OwnBytesOnly'
  <2>1. UNCHANGED <<run, mExtractor>>
    BY <1>8 DEF CloseFile
  <2>2. CASE handle[s] # "open"
    BY <1>8, <2>1, <2>2 DEF CloseFile, Holders, OwnBytesOnly, recVars
  <2>3. CASE handle[s] = "open"
    <3>1. handle' = [handle EXCEPT ![s] = "closed"]
      BY <1>8, <2>3 DEF CloseFile
    <3>2. recording' = [recording EXCEPT !.index = Me(s), !.parts = @ \cup {Me(s)}]
      BY <1>8, <2>3 DEF CloseFile
    <3>3. /\ recording'.owner = recording.owner /\ recording'.index = <<run, s>>
          /\ recording'.parts = recording.parts \cup {<<run, s>>}
      BY <3>2 DEF TypeOK, Recording, Me
    <3>4. /\ recording.owner # None /\ recording.owner[1] = run /\ s <= recording.owner[2]
          /\ recording.owner[2] <= mExtractor
      BY <2>3 DEF Holders, TypeOK
    <3>5. \A t \in Session : handle'[t] # "none" => handle[t] # "none"
      BY <2>3, <3>1 DEF TypeOK
    <3>6. handle'[s] = "closed" /\ run \in Nat
      BY <3>1 DEF TypeOK
    <3>. QED  BY <2>1, <3>3, <3>4, <3>5, <3>6 DEF Holders, OwnBytesOnly
  <2>. QED  BY <2>2, <2>3
<1>. QED
  BY <1>1, <1>2, <1>3, <1>5, <1>6, <1>7, <1>8 DEF Next, Prepare, Decode

----------------------------------------------------------------------------
(* The theorems. *)

LEMMA NextInv == IInv /\ [Next]_vars => IInv'
<1>. SUFFICES ASSUME IInv, [Next]_vars PROVE IInv'
  OBVIOUS
<1>. QED  BY TypeStep, PhasesStep, ListStep, FirstStep, HoldersStep DEF IInv

\* The state of prepare, the list, the index and the holders of the recording,
\* as an inductive invariant.
THEOREM Invariance == Spec => []IInv
<1>. QED  BY InitInv, NextInv, PTL DEF Spec

\* Types, for every set of input files: the index never points at a parameter
\* set, and only sessions of this life have a thread.
THEOREM TypeCorrect == Spec => []TypeOK
<1>1. IInv => TypeOK
  BY DEF IInv
<1>. QED  BY <1>1, Invariance, PTL

\* prepare and the first session end the process only if the file is to blame.
THEOREM ThrowsForBadFiles == Spec => []ThrowsOnlyForBadFiles
<1>1. IInv => ThrowsOnlyForBadFiles
  BY DEF IInv, Phases, FirstSession, ThrowsOnlyForBadFiles
<1>. QED  BY <1>1, Invariance, PTL

\* A recording holds bytes of its own life, of its creator and of sessions
\* before that.
THEOREM RecordsOwnBytes == Spec => []OwnBytesOnly
<1>1. IInv => OwnBytesOnly
  BY DEF IInv
<1>. QED  BY <1>1, Invariance, PTL

\* A finished recording of a first session is lost only to one made anew.
THEOREM FinishedRemains == Spec => FinishedStays
<1>. DEFINE Kept == Finished /\ recording.owner[2] = 1 =>
                      recording'.owner # recording.owner /\ input # Missing
<1>1. IInv /\ [Next]_vars => [Kept]_recording
  <2>. SUFFICES ASSUME IInv, Next, recording' # recording, Finished, recording.owner[2] = 1
                PROVE  recording'.owner # recording.owner /\ input # Missing
    BY DEF vars, recVars
  <2>. USE Numbers DEF IInv
  <2>1. ASSUME NEW s \in Session PROVE handle[s] # "open"
    <3>. SUFFICES ASSUME handle[s] = "open" PROVE FALSE
      OBVIOUS
    <3>1. recording.owner[1] = run /\ s <= 1
      BY DEF Holders
    <3>2. s = 1 /\ recording.index = <<run, 1>>
      BY <3>1 DEF Finished, Session, TypeOK, Recording, Stamp
    <3>. QED  BY <3>2, InputsAssumption DEF Holders, Finished, TypeOK
  <2>2. \A s \in Session : Written(s) = recording
    BY <2>1 DEF Written
  <2>3. CASE MakeCodec
    <3>1. recording' = [NoRecording EXCEPT !.owner = Me(sessions)]
      BY <2>3 DEF MakeCodec, recVars
    <3>2. recording'.owner = <<run, sessions>>
      BY <3>1 DEF NoRecording, Me
    <3>3. mExtractor < sessions /\ input # Missing
      BY <2>3 DEF MakeCodec, Phases
    <3>4. recording.owner # <<run, sessions>>
      BY <3>3 DEF Finished, Holders, TypeOK
    <3>. QED  BY <3>2, <3>3, <3>4
  <2>4. CASE InitCodec
    <3>1. sessions \in Session
      BY <2>4 DEF InitCodec, Phases, TypeOK, Session
    <3>. QED  BY <2>2, <2>4, <3>1 DEF InitCodec
  <2>5. ASSUME NEW s \in Session, Decode(s) PROVE FALSE
    BY <2>1, <2>2, <2>5 DEF Decode, FrameThrows, WriteFrame, CloseFile, recVars
  <2>6. CASE Launch \/ Kill \/ NoFile \/ Extract \/ OpenCodec \/ Click
    BY <2>6 DEF Launch, Kill, NoFile, Extract, OpenCodec, Click, recVars
  <2>. QED  BY <2>3, <2>4, <2>5, <2>6 DEF Next, Prepare
<1>. QED  BY <1>1, Invariance, PTL DEF Spec, FinishedStays
=============================================================================
