-------------------------- MODULE NaluSourceProofs --------------------------
(***************************************************************************)
(* Proofs about NaluSource, for every length of the file and every number  *)
(* of sessions.                                                            *)
(*                                                                         *)
(* FirstFramesWhole rests on three facts: the list is a chain of scans     *)
(* (Contents), only the first Decode thread ever works on the first        *)
(* extractor (Private), and so what that thread has read stays true until  *)
(* it moves the index itself, however much the list grows (Reading).       *)
(* Single describes the one pass after the other of a single session.      *)
(***************************************************************************)
EXTENDS NaluSource, TLAPS

\* TypeOK without the two flags.
Types ==
  /\ naluList \in Seq(Offset)
  /\ sessions \in 0..MaxSessions
  /\ offset \in 0..(Nalus + 1)
  /\ mExtractor \in 0..MaxSessions
  /\ decodeNaluIndex \in [Session -> Nat \ {0, 1}]
  /\ pc \in [Session -> {"off", "start", "next", "count", "test", "wrap", "load", "store"}]
  /\ obj \in [Session -> Session]
  /\ start \in [Session -> Offset]
  /\ next \in [Session -> Offset]
  /\ loaded \in [Session -> Nat \ {0, 1}]
  /\ frame \in [Session -> FrameType]

Inside == {"next", "count", "test", "wrap", "load", "store"}
Taken  == {"test", "wrap", "load", "store"}

\* The list is one scan after the other: each entry follows the one before it,
\* or starts a new scan behind the length of the file.
Contents ==
  /\ \A i \in 1..(Len(naluList) - 1) :
       \/ naluList[i + 1] = naluList[i] + 1
       \/ naluList[i + 1] = 0 /\ naluList[i] = Nalus
  /\ scanning /\ offset > 0 => Len(naluList) > 0
  /\ Len(naluList) > 0 =>
       naluList[Len(naluList)] = (IF scanning /\ offset > 0 THEN offset - 1 ELSE Nalus)

\* A Decode thread runs once its extractor is the current one, and the
\* current extractor only changes to a newer one.
Private ==
  /\ mExtractor <= sessions
  /\ \A s \in Session : pc[s] # "off" => s <= mExtractor
  /\ \A s \in Session : pc[s] \in Inside /\ obj[s] = 1 => s = 1

\* What the first thread has read of the first extractor still holds.
Reading ==
  LET i == decodeNaluIndex[1] IN
  obj[1] = 1 =>
    /\ pc[1] \in {"next", "count"} => Has(i) /\ start[1] = Get(i)
    /\ pc[1] = "count" => Has(i + 1) /\ next[1] = Get(i + 1)
    /\ pc[1] \in Taken => IsUnit(frame[1])

\* One session: the list is one scan, and the index walks over it.
Successor(n) == IF n \in {0, Nalus - 1} THEN 2 ELSE n + 1

Single ==
  sessions <= 1 =>
    /\ ~failed
    /\ sessions = 0 => ~scanning /\ naluList = <<>>
    /\ \A i \in 1..Len(naluList) : naluList[i] = i - 1
    /\ sessions = 1 => Len(naluList) = (IF scanning THEN offset ELSE Nalus + 1)
    /\ pc[1] # "off" => sessions = 1 /\ ~scanning /\ mExtractor = 1
    /\ obj[1] = 1
    /\ decodeNaluIndex[1] < Nalus
    /\ pc[1] \in {"off", "start", "next", "count"} =>
         decodeNaluIndex[1] = Successor(frame[1].at)
    /\ pc[1] \in Taken => frame[1].at = decodeNaluIndex[1]
    /\ pc[1] = "wrap" => decodeNaluIndex[1] = Nalus - 1
    /\ pc[1] \in {"load", "store"} => decodeNaluIndex[1] < Nalus - 1
    /\ pc[1] = "store" => loaded[1] = decodeNaluIndex[1]

IInv == TypeOK /\ Contents /\ Private /\ Reading /\ Single

----------------------------------------------------------------------------
\* There is a first session and a third NAL unit.
LEMMA Sizes == Nalus \in Nat /\ Nalus > 2 /\ MaxSessions \in Nat /\ 1 \in Session
  BY FileAssumption DEF FileAssumption, Session

\* The invariant holds at the start.
LEMMA InitInv == Init => IInv
<1> SUFFICES ASSUME Init PROVE IInv
  OBVIOUS
<1>1. TypeOK
  <2>1. /\ scanning \in BOOLEAN /\ failed \in BOOLEAN
    BY DEF Init
  <2>2. /\ naluList \in Seq(Offset) /\ sessions \in 0..MaxSessions /\ offset \in 0..(Nalus + 1)
        /\ mExtractor \in 0..MaxSessions
    BY Sizes DEF Init
  <2>3. /\ decodeNaluIndex \in [Session -> Nat \ {0, 1}] /\ loaded \in [Session -> Nat \ {0, 1}]
        /\ start \in [Session -> Offset] /\ next \in [Session -> Offset]
    BY Sizes DEF Init, Offset
  <2>4. frame \in [Session -> FrameType]
    BY Sizes DEF Init, FrameType, Unit, Offset
  <2>5. QED
    BY <2>1, <2>2, <2>3, <2>4 DEF Init, TypeOK
<1>2. Contents /\ Private /\ Reading
  BY Sizes DEF Init, Contents, Private, Reading, Session, Inside, Taken
<1>3. Single
  BY Sizes DEF Init, Single, Session, Unit, Successor, Taken
<1>4. QED
  BY <1>1, <1>2, <1>3 DEF IInv

\* Every step keeps the types.
LEMMA TypesStep == Types /\ Private /\ [Next]_vars => Types'
<1> SUFFICES ASSUME Types, Private, [Next]_vars PROVE Types'
  OBVIOUS
<1> USE Sizes
<1>1. CASE UNCHANGED vars
  BY <1>1, Zenon DEF vars, scanVars, getVars, Types
<1>2. CASE StartScan
  BY <1>2 DEF StartScan, getVars, Types
<1>3. CASE ScanNalu
  BY <1>3 DEF ScanNalu, getVars, Types, Offset
<1>4. CASE StartDecode
  BY <1>4 DEF StartDecode, getVars, Types
<1>5. ASSUME NEW s \in Session, GetFrame(s) PROVE Types'
  <2>1. CASE Throw(s)
    <3>1. UNCHANGED <<scanVars, getVars>>
      BY <2>1 DEF Throw
    <3>2. QED
      BY <3>1, Zenon DEF scanVars, getVars, Types
  <2>2. CASE ReadStart(s)
    <3>1. mExtractor \in Session
      BY <2>2 DEF ReadStart, At, Types, Private, Session
    <3>2. Get(decodeNaluIndex[mExtractor]) \in Offset
      BY <2>2, <3>1 DEF ReadStart, Has, Get, Types
    <3>3. QED
      BY <2>2, <3>1, <3>2 DEF ReadStart, GoTo, scanVars, Types
  <2>3. CASE ReadNext(s)
    <3>1. Get(decodeNaluIndex[obj[s]] + 1) \in Offset
      BY <2>3 DEF ReadNext, Has, Get, Types
    <3>2. QED
      BY <2>3, <3>1 DEF ReadNext, GoTo, scanVars, Types
  <2>4. CASE ReadCount(s)
    <3>1. Get(decodeNaluIndex[obj[s]]) \in Offset
      BY <2>4 DEF ReadCount, Has, Get, Types
    <3>2. QED
      BY <2>4, <3>1 DEF ReadCount, GoTo, scanVars, Types, FrameType
  <2>5. CASE TestEnd(s)
    BY <2>5 DEF TestEnd, At, GoTo, scanVars, Types
  <2>6. CASE Wrap(s)
    BY <2>6 DEF Wrap, At, GoTo, scanVars, Types
  <2>7. CASE Load(s)
    BY <2>7 DEF Load, At, GoTo, scanVars, Types
  <2>8. CASE Store(s)
    BY <2>8 DEF Store, At, GoTo, scanVars, Types
  <2>9. QED
    BY <1>5, <2>1, <2>2, <2>3, <2>4, <2>5, <2>6, <2>7, <2>8 DEF GetFrame
<1>6. QED
  BY <1>1, <1>2, <1>3, <1>4, <1>5 DEF Next

\* Every step keeps the list a chain of scans.
LEMMA ContentsStep == Types /\ Contents /\ [Next]_vars => Contents'
<1> SUFFICES ASSUME Types, Contents, [Next]_vars PROVE Contents'
  OBVIOUS
<1> USE Sizes
<1>1. CASE UNCHANGED scanVars
  BY <1>1 DEF scanVars, Contents
<1>2. CASE StartScan
  BY <1>2 DEF StartScan, Types, Contents
<1>3. CASE ScanNalu
  <2> DEFINE n == Len(naluList)
  <2>1. /\ n \in Nat /\ Len(naluList') = n + 1 /\ naluList'[n + 1] = offset
        /\ \A i \in 1..n : naluList'[i] = naluList[i] /\ naluList[i] \in Offset
    BY <1>3 DEF ScanNalu, Types
  <2>2. offset \in Nat /\ offset' = offset + 1 /\ scanning' = scanning /\ scanning
    BY <1>3 DEF ScanNalu, Types
  <2>3. n > 0 => naluList[n] = (IF offset > 0 THEN offset - 1 ELSE Nalus)
    BY <2>2 DEF Contents
  <2>4. n = 0 => offset = 0
    BY <2>1, <2>2 DEF Contents
  <2>5. ASSUME NEW i \in 1..n
        PROVE  \/ naluList'[i + 1] = naluList'[i] + 1
               \/ naluList'[i + 1] = 0 /\ naluList'[i] = Nalus
    <3>1. CASE i = n
      BY <3>1, <2>1, <2>2, <2>3
    <3>2. CASE i # n
      BY <3>2, <2>1 DEF Contents
    <3>3. QED
      BY <3>1, <3>2
  <2>6. QED
    BY <2>1, <2>2, <2>5 DEF Contents
<1>4. CASE StartDecode
  BY <1>4 DEF StartDecode, Types, Contents
<1>5. ASSUME NEW s \in Session, GetFrame(s) PROVE UNCHANGED scanVars
  BY <1>5 DEF GetFrame, ReadStart, ReadNext, ReadCount, Throw, TestEnd, Wrap, Load, Store
<1>6. QED
  BY <1>1, <1>2, <1>3, <1>4, <1>5 DEF Next, vars

\* Every step leaves the first extractor to the first thread.
LEMMA PrivateStep == Types /\ Private /\ [Next]_vars => Private'
<1> SUFFICES ASSUME Types, Private, [Next]_vars PROVE Private'
  OBVIOUS
<1> USE Sizes
<1>1. CASE UNCHANGED <<sessions, mExtractor, pc, obj>>
  BY <1>1 DEF Private
<1>2. CASE StartScan
  BY <1>2 DEF StartScan, getVars, Types, Private
<1>3. CASE StartDecode
  <2>1. /\ mExtractor' = sessions /\ sessions' = sessions /\ mExtractor <= sessions
        /\ pc' = [pc EXCEPT ![sessions] = "start"] /\ obj' = obj
    BY <1>3 DEF StartDecode, Private
  <2>2. mExtractor' <= sessions' /\ mExtractor <= mExtractor' /\ sessions \in Nat
    BY <2>1 DEF Types
  <2>3. ASSUME NEW s \in Session
        PROVE  /\ pc'[s] # "off" => s <= mExtractor'
               /\ pc'[s] \in Inside /\ obj'[s] = 1 => s = 1
    <3>1. CASE s = sessions
      <4>1. pc'[s] = "start" /\ mExtractor' = s /\ s \in Nat
        BY <3>1, <2>1, <2>2 DEF Types
      <4>2. pc'[s] \notin Inside
        BY <4>1 DEF Inside
      <4>3. s <= mExtractor'
        BY <4>1
      <4>4. QED
        BY <4>2, <4>3
    <3>2. CASE s # sessions
      <4>1. pc'[s] = pc[s] /\ obj'[s] = obj[s]
        BY <3>2, <2>1 DEF Types
      <4>2. pc[s] # "off" => s <= mExtractor'
        BY <2>1, <2>2 DEF Types, Private, Session
      <4>3. QED
        BY <4>1, <4>2 DEF Private
    <3>3. QED
      BY <3>1, <3>2
  <2>4. QED
    BY <2>2, <2>3 DEF Private
<1>4. ASSUME NEW s \in Session, GetFrame(s) PROVE Private'
  <2>1. pc[s] # "off" /\ UNCHANGED <<sessions, mExtractor>>
    BY <1>4 DEF GetFrame, ReadStart, ReadNext, ReadCount, Throw, TestEnd, Wrap, Load, Store,
                At, scanVars
  <2>2. CASE ReadStart(s)
    <3>1. obj' = [obj EXCEPT ![s] = mExtractor] /\ pc' = [pc EXCEPT ![s] = "next"]
      BY <2>2 DEF ReadStart, GoTo
    <3>2. s <= mExtractor /\ s \in Nat /\ s >= 1 /\ mExtractor \in Nat
      BY <2>1 DEF Types, Private, Session
    <3>3. ASSUME NEW t \in Session
          PROVE  /\ pc'[t] # "off" => t <= mExtractor
                 /\ pc'[t] \in Inside /\ obj'[t] = 1 => t = 1
      <4>1. CASE t = s
        BY <4>1, <3>1, <3>2 DEF Types
      <4>2. CASE t # s
        BY <4>2, <3>1 DEF Types, Private
      <4>3. QED
        BY <4>1, <4>2
    <3>4. QED
      BY <2>1, <3>3 DEF Private
  <2>3. CASE ~ReadStart(s)
    <3>1. obj' = obj /\ \E place : pc' = [pc EXCEPT ![s] = place] /\ (place \in Inside => pc[s] \in Inside)
      <4>1. CASE Throw(s)
        BY <4>1 DEF Throw, getVars, Types
      <4>2. CASE ReadNext(s) \/ ReadCount(s)
        BY <4>2 DEF ReadNext, ReadCount, At, GoTo, Inside
      <4>3. CASE TestEnd(s) \/ Wrap(s) \/ Load(s) \/ Store(s)
        BY <4>3 DEF TestEnd, Wrap, Load, Store, At, GoTo, Inside
      <4>4. QED
        BY <1>4, <2>3, <4>1, <4>2, <4>3 DEF GetFrame
    <3>2. QED
      BY <2>1, <3>1 DEF Types, Private
  <2>4. QED
    BY <2>2, <2>3
<1>5. QED
  BY <1>1, <1>2, <1>3, <1>4 DEF Next, ScanNalu, getVars, vars, scanVars

\* What the first thread has read survives the steps of the others.
LEMMA ReadingStep == Types /\ Contents /\ Private /\ Reading /\ [Next]_vars => Reading'
<1> SUFFICES ASSUME Types, Contents, Private, Reading, [Next]_vars PROVE Reading'
  OBVIOUS
<1> USE Sizes
<1>1. CASE UNCHANGED <<naluList, decodeNaluIndex, pc, obj, start, next, frame>>
  BY <1>1 DEF Reading, Has, Get
<1>2. CASE ScanNalu
  <2>1. /\ Len(naluList) \in Nat /\ Len(naluList') = Len(naluList) + 1
        /\ \A i \in 1..Len(naluList) : naluList'[i] = naluList[i]
        /\ UNCHANGED getVars
    BY <1>2 DEF ScanNalu, Types
  <2>2. decodeNaluIndex[1] \in Nat
    BY DEF Types
  <2>3. QED
    BY <2>1, <2>2 DEF Reading, Has, Get, getVars
<1>3. CASE StartDecode
  <2>1. pc'[1] = pc[1] \/ pc'[1] = "start"
    BY <1>3 DEF StartDecode, Types
  <2>2. UNCHANGED <<naluList, decodeNaluIndex, obj, start, next, frame>>
    BY <1>3 DEF StartDecode
  <2>3. QED
    BY <2>1, <2>2 DEF Reading, Has, Get, Taken
<1>4. ASSUME NEW s \in Session, GetFrame(s) PROVE Reading'
  <2> DEFINE i == decodeNaluIndex[1]
  <2>1. CASE Throw(s)
    BY <2>1, <1>1 DEF Throw, scanVars, getVars
  <2>2. CASE s # 1
    \* Another thread: nothing of the first one's changes, nor its index.
    <3>1. naluList' = naluList
      BY <1>4 DEF GetFrame, ReadStart, ReadNext, ReadCount, Throw, TestEnd, Wrap, Load, Store,
                  scanVars
    <3>2. /\ pc'[1] = pc[1] /\ obj'[1] = obj[1] /\ start'[1] = start[1]
          /\ next'[1] = next[1] /\ frame'[1] = frame[1]
      <4>1. CASE ReadStart(s) \/ ReadNext(s)
        BY <4>1, <2>2 DEF ReadStart, ReadNext, GoTo, Types
      <4>2. CASE ReadCount(s) \/ TestEnd(s)
        BY <4>2, <2>2 DEF ReadCount, TestEnd, GoTo, Types
      <4>3. CASE Wrap(s) \/ Load(s) \/ Store(s)
        BY <4>3, <2>2 DEF Wrap, Load, Store, GoTo, Types
      <4>4. CASE Throw(s)
        BY <4>4 DEF Throw, getVars
      <4>5. QED
        BY <1>4, <4>1, <4>2, <4>3, <4>4 DEF GetFrame
    <3>3. decodeNaluIndex'[1] = decodeNaluIndex[1]
      <4>1. CASE Wrap(s) \/ Store(s)
        <5>1. obj[s] # 1
          BY <4>1, <2>2 DEF Wrap, Store, At, Private, Inside
        <5>2. QED
          BY <4>1, <5>1 DEF Wrap, Store, Types
      <4>2. CASE ~(Wrap(s) \/ Store(s))
        BY <1>4, <4>2 DEF GetFrame, ReadStart, ReadNext, ReadCount, Throw, TestEnd, Load, getVars
      <4>3. QED
        BY <4>1, <4>2
    <3>4. QED
      BY <3>1, <3>2, <3>3 DEF Reading, Has, Get
  <2>3. CASE s = 1 /\ ReadStart(s)
    <3>1. pc'[1] = "next" /\ obj'[1] = mExtractor
      BY <2>3 DEF ReadStart, GoTo, Types
    <3>2. obj'[1] = 1 => Has(i) /\ start'[1] = Get(i)
      BY <2>3, <3>1 DEF ReadStart, Types
    <3>3. UNCHANGED <<naluList, decodeNaluIndex>>
      BY <2>3 DEF ReadStart, scanVars
    <3>4. QED
      BY <3>1, <3>2, <3>3 DEF Reading, Has, Get, Taken
  <2>4. CASE s = 1 /\ ReadNext(s)
    <3>1. /\ pc[1] = "next" /\ pc'[1] = "count"
          /\ UNCHANGED <<naluList, decodeNaluIndex, obj, start>>
      BY <2>4 DEF ReadNext, At, GoTo, Types, scanVars
    <3>2. obj[1] = 1 => Has(i + 1) /\ next'[1] = Get(i + 1)
      BY <2>4 DEF ReadNext, Types
    <3>3. QED
      BY <3>1, <3>2 DEF Reading, Has, Get, Taken
  <2>5. CASE s = 1 /\ ReadCount(s)
    <3>1. /\ pc[1] = "count" /\ pc'[1] = "test" /\ obj' = obj
      BY <2>5 DEF ReadCount, At, GoTo, Types
    <3>2. ASSUME obj[1] = 1 PROVE IsUnit(frame'[1])
      <4>1. /\ Has(i + 1) /\ start[1] = Get(i) /\ next[1] = Get(i + 1)
        BY <3>1, <3>2 DEF Reading
      <4>2. Get(i) <= next[1] /\ frame'[1] = [at |-> start[1], from |-> Get(i), to |-> next[1]]
        BY <2>5, <3>2 DEF ReadCount, Types
      <4>3. i + 1 \in 1..(Len(naluList) - 1)
        BY <4>1 DEF Has, Types
      <4>4. Get(i + 1) = Get(i) + 1 \/ (Get(i + 1) = 0 /\ Get(i) = Nalus)
        BY <4>3 DEF Contents, Get, Types
      <4>5. next[1] = Get(i) + 1
        BY <4>1, <4>2, <4>4
      <4>6. QED
        BY <4>1, <4>2, <4>5 DEF IsUnit, Unit
    <3>3. QED
      BY <3>1, <3>2 DEF Reading, Taken
  <2>6. CASE s = 1 /\ (TestEnd(s) \/ Load(s))
    <3>1. /\ pc[1] \in Taken /\ pc'[1] \in Taken /\ UNCHANGED <<obj, frame>>
      BY <2>6 DEF TestEnd, Load, At, GoTo, Types, Taken
    <3>2. QED
      BY <3>1 DEF Reading, Taken
  <2>7. CASE s = 1 /\ (Wrap(s) \/ Store(s))
    <3>1. pc'[1] = "start"
      BY <2>7 DEF Wrap, Store, GoTo, Types
    <3>2. QED
      BY <3>1 DEF Reading, Taken
  <2>8. QED
    BY <1>4, <2>1, <2>2, <2>3, <2>4, <2>5, <2>6, <2>7 DEF GetFrame
<1>5. CASE StartScan
  BY <1>5, <1>1 DEF StartScan, getVars
<1>6. QED
  BY <1>1, <1>2, <1>3, <1>4, <1>5 DEF Next, vars, scanVars, getVars

\* Every step of a single session keeps the index within its scan.
LEMMA SingleStep ==
  Types /\ Private /\ Reading /\ Private' /\ Types' /\ Single /\ [Next]_vars => Single'
<1> SUFFICES ASSUME Types, Private, Reading, Private', Types', Single, [Next]_vars, sessions' <= 1
             PROVE  Single'
  BY DEF Single
<1> USE Sizes
<1> DEFINE i == decodeNaluIndex[1]
<1>1. sessions <= 1 /\ sessions \in Nat /\ i \in Nat /\ 2 <= i
  <2>1. sessions <= sessions'
    BY DEF Next, StartScan, ScanNalu, StartDecode, GetFrame, ReadStart, ReadNext, ReadCount,
           Throw, TestEnd, Wrap, Load, Store, scanVars, vars, Types
  <2>2. QED
    BY <2>1 DEF Types
<1>2. CASE UNCHANGED vars
  BY <1>2 DEF vars, scanVars, getVars, Single, Taken, Successor
<1>3. CASE StartScan
  BY <1>1, <1>3 DEF StartScan, getVars, Single, Taken, Successor, Types, Private
<1>4. CASE ScanNalu
  BY <1>1, <1>4 DEF ScanNalu, getVars, Single, Taken, Successor, Types
<1>5. CASE StartDecode
  BY <1>1, <1>5 DEF StartDecode, Single, Taken, Successor, Types
<1>6. ASSUME NEW s \in Session, GetFrame(s) PROVE Single'
  <2>1. pc[s] # "off"
    BY <1>6 DEF GetFrame, ReadStart, ReadNext, ReadCount, Throw, TestEnd, Wrap, Load, Store, At
  <2>2. s = 1
    BY <1>1, <2>1 DEF Private, Session, Types
  <2>3. /\ sessions = 1 /\ ~scanning /\ mExtractor = 1 /\ obj[1] = 1 /\ i < Nalus /\ ~failed
        /\ Len(naluList) = Nalus + 1
    BY <1>1, <2>1, <2>2 DEF Single
  <2>4. \A k \in 1..(Nalus + 1) : naluList[k] = k - 1
    BY <1>1, <2>3 DEF Single
  <2>5. /\ Has(i) /\ Get(i) = i /\ Has(i + 1) /\ Get(i + 1) = i + 1
    <3>1. i + 1 \in 1..(Nalus + 1) /\ i + 2 \in 1..(Nalus + 1)
      BY <1>1, <2>3
    <3>2. i < Len(naluList) /\ i + 1 < Len(naluList)
      BY <1>1, <2>3
    <3>3. naluList[i + 1] = i /\ naluList[(i + 1) + 1] = i + 1
      BY <1>1, <2>4, <3>1
    <3>4. QED
      BY <3>2, <3>3 DEF Has, Get
  <2>6. ~Throw(s)
    <3>1. pc[1] = "count" => next[1] = i + 1
      BY <2>3, <2>5 DEF Reading
    <3>2. QED
      BY <1>1, <2>2, <2>3, <2>5, <3>1 DEF Throw, At
  <2>7. UNCHANGED <<sessions, scanning, offset, naluList, mExtractor, failed>>
    BY <1>6, <2>6 DEF GetFrame, ReadStart, ReadNext, ReadCount, TestEnd, Wrap, Load, Store, scanVars
  \* What Single says about the thread itself.
  <2>8. SUFFICES
          /\ obj'[1] = 1 /\ decodeNaluIndex'[1] < Nalus
          /\ pc'[1] \in {"off", "start", "next", "count"} =>
               decodeNaluIndex'[1] = Successor(frame'[1].at)
          /\ pc'[1] \in Taken => frame'[1].at = decodeNaluIndex'[1]
          /\ pc'[1] = "wrap" => decodeNaluIndex'[1] = Nalus - 1
          /\ pc'[1] \in {"load", "store"} => decodeNaluIndex'[1] < Nalus - 1
          /\ pc'[1] = "store" => loaded'[1] = decodeNaluIndex'[1]
    BY <2>3, <2>4, <2>7 DEF Single
  <2>9. /\ pc[1] \in {"start", "next", "count"} => i = Successor(frame[1].at)
        /\ pc[1] \in Taken => frame[1].at = i
        /\ pc[1] = "wrap" => i = Nalus - 1
        /\ pc[1] \in {"load", "store"} => i < Nalus - 1
        /\ pc[1] = "store" => loaded[1] = i
    BY <1>1 DEF Single
  <2>10. CASE ReadStart(s) \/ ReadNext(s)
    BY <2>2, <2>3, <2>9, <2>10 DEF ReadStart, ReadNext, At, GoTo, Types, Taken
  <2>11. CASE ReadCount(s)
    <3>1. start[1] = i
      BY <2>2, <2>3, <2>5, <2>11 DEF ReadCount, At, Reading
    <3>2. QED
      BY <2>2, <2>3, <2>11, <3>1 DEF ReadCount, At, GoTo, Types, Taken
  <2>12. CASE TestEnd(s)
    <3>1. pc'[1] = (IF i + 2 = Nalus + 1 THEN "wrap" ELSE "load") /\ pc[1] \in Taken
      BY <2>2, <2>3, <2>12 DEF TestEnd, At, GoTo, Types, Taken
    <3>2. i + 2 = Nalus + 1 => i = Nalus - 1
      BY <1>1
    <3>3. i + 2 # Nalus + 1 => i < Nalus - 1
      BY <1>1, <2>3
    <3>4. QED
      BY <2>3, <2>9, <2>12, <3>1, <3>2, <3>3 DEF TestEnd, Taken
  <2>13. CASE Wrap(s)
    <3>1. pc'[1] = "start" /\ pc[1] = "wrap" /\ decodeNaluIndex'[1] = 2 /\ UNCHANGED <<obj, frame>>
      BY <2>2, <2>3, <2>13 DEF Wrap, At, GoTo, Types
    <3>2. Successor(frame[1].at) = 2
      BY <2>9, <3>1 DEF Successor, Taken
    <3>3. QED
      BY <2>3, <3>1, <3>2 DEF Taken
  <2>14. CASE Load(s)
    BY <2>2, <2>3, <2>9, <2>14 DEF Load, At, GoTo, Types, Taken
  <2>15. CASE Store(s)
    <3>1. /\ pc'[1] = "start" /\ pc[1] = "store" /\ decodeNaluIndex'[1] = i + 1
          /\ UNCHANGED <<obj, frame>>
      BY <2>2, <2>3, <2>9, <2>15 DEF Store, At, GoTo, Types
    <3>2. Successor(frame[1].at) = i + 1 /\ i + 1 < Nalus
      BY <1>1, <2>9, <3>1 DEF Successor, Taken
    <3>3. QED
      BY <2>3, <3>1, <3>2 DEF Taken
  <2>16. QED
    BY <1>6, <2>6, <2>10, <2>11, <2>12, <2>13, <2>14, <2>15 DEF GetFrame
<1>7. QED
  BY <1>2, <1>3, <1>4, <1>5, <1>6 DEF Next

\* Every step keeps the invariant.
LEMMA NextInv == IInv /\ [Next]_vars => IInv'
<1> SUFFICES ASSUME IInv, [Next]_vars PROVE IInv'
  OBVIOUS
<1>1. Types /\ scanning \in BOOLEAN /\ failed \in BOOLEAN
  BY Zenon DEF IInv, TypeOK, Types
<1>2. scanning' \in BOOLEAN /\ failed' \in BOOLEAN
  BY <1>1 DEF Next, StartScan, ScanNalu, StartDecode, GetFrame, ReadStart, ReadNext, ReadCount,
              Throw, TestEnd, Wrap, Load, Store, scanVars, vars
<1>3. Types' /\ Private'
  BY <1>1, TypesStep, PrivateStep DEF IInv
<1>4. Contents' /\ Reading' /\ Single'
  BY <1>1, <1>3, ContentsStep, ReadingStep, SingleStep DEF IInv
<1>5. TypeOK'
  BY <1>2, <1>3, Zenon DEF TypeOK, Types
<1>6. QED
  BY <1>3, <1>4, <1>5 DEF IInv

\* The strengthened invariant holds of every behaviour.
THEOREM Invariance == Spec => []IInv
  BY InitInv, NextInv, PTL DEF Spec

\* Every variable keeps its type; decodeNaluIndex never points at SPS or PPS.
THEOREM TypeCorrect == Spec => []TypeOK
  BY Invariance, PTL DEF IInv

\* A frame from the first session's extractor is one NAL unit, whatever other
\* sessions do to the shared list meanwhile (FileDataExtractor.java, 60-65).
THEOREM FirstAlwaysWhole == Spec => []FirstFramesWhole
<1>1. IInv => FirstFramesWhole
  <2> SUFFICES ASSUME IInv, NEW s \in Session, obj[s] = 1, pc[s] \in Taken
               PROVE  IsUnit(frame[s])
    BY DEF FirstFramesWhole, Taken
  <2>1. s = 1
    BY DEF IInv, Private, Inside, Taken
  <2>2. QED
    BY <2>1 DEF IInv, Reading
<1>2. QED
  BY <1>1, Invariance, PTL

\* A single session never runs off the list (line 67 wraps in time).
THEOREM SingleSound == Spec => []SingleNeverFails
<1>1. IInv => SingleNeverFails
  BY DEF IInv, Single, SingleNeverFails
<1>2. QED
  BY <1>1, Invariance, PTL

\* A single session gets the NAL units in file order, again and again.
THEOREM SingleInOrder == Spec => InFileOrder
<1>1. ASSUME IInv, [Next]_vars
      PROVE  [sessions' <= 1 =>
                frame'[1].at = IF frame[1].at \in {0, Nalus - 1} THEN 2 ELSE frame[1].at + 1]_frame
  <2> SUFFICES ASSUME sessions' <= 1, frame' # frame
               PROVE  frame'[1].at = Successor(frame[1].at)
    BY DEF Successor
  <2> USE <1>1, Sizes DEF IInv
  <2>1. PICK s \in Session : ReadCount(s)
    BY DEF Next, StartScan, ScanNalu, StartDecode, GetFrame, ReadStart, ReadNext, Throw, TestEnd,
           Wrap, Load, Store, getVars, vars
  <2>2. sessions = sessions' /\ pc[s] = "count" /\ frame'[s].at = start[s]
    BY <2>1 DEF ReadCount, At, scanVars, TypeOK
  <2>3. s = 1
    <3>1. s <= mExtractor /\ mExtractor <= sessions
      BY <2>2 DEF Private
    <3>2. s \in Nat /\ s >= 1 /\ mExtractor \in Nat /\ sessions \in Nat
      BY DEF TypeOK, Session
    <3>3. QED
      BY <2>2, <3>1, <3>2
  <2>4. obj[1] = 1 /\ decodeNaluIndex[1] = Successor(frame[1].at) /\ sessions = 1
        /\ \A k \in 1..Len(naluList) : naluList[k] = k - 1
    BY <2>2, <2>3 DEF Single, TypeOK
  <2>5. Has(decodeNaluIndex[1]) /\ start[1] = Get(decodeNaluIndex[1])
    BY <2>2, <2>3, <2>4 DEF Reading
  <2>6. decodeNaluIndex[1] \in Nat /\ Len(naluList) \in Nat
    BY DEF TypeOK
  <2>7. start[1] = decodeNaluIndex[1]
    BY <2>4, <2>5, <2>6 DEF Has, Get
  <2>8. QED
    BY <2>2, <2>3, <2>4, <2>7
<1>2. QED
  BY <1>1, Invariance, PTL DEF Spec, InFileOrder
=============================================================================
