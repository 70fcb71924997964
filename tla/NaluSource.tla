----------------------------- MODULE NaluSource -----------------------------
(***************************************************************************)
(* Where the Decode threads get their NAL units (FileDataExtractor.java).  *)
(*                                                                         *)
(* Every surfaceCreated makes an extractor that scans the file on the UI   *)
(* thread and becomes StreamCodec.mExtractor; every Decode thread calls    *)
(* getFrame on whatever extractor that is.  The offsets go to naluList,    *)
(* which is static and never cleared.  An offset is abstracted to the      *)
(* number of NAL units before it, so the length of the file is Nalus.      *)
(***************************************************************************)
EXTENDS Naturals, Sequences

CONSTANTS Nalus,       \* NAL units in the file, SPS and PPS first
          MaxSessions  \* bound: surfaceCreated callbacks

Session == 1..MaxSessions
Offset  == 0..Nalus

ASSUME FileAssumption == Nalus \in Nat /\ Nalus > 2 /\ MaxSessions \in Nat \ {0}

VARIABLES
  naluList,   \* FileDataExtractor.naluList
  sessions,   \* extractors made
  scanning,   \* the UI thread is in getNaluList
  offset,     \* the next offset it finds
  mExtractor, \* StreamCodec.mExtractor; 0 before the first
  decodeNaluIndex,  \* of each extractor
  pc, obj,    \* Decode thread: place in getFrame, and the extractor it is called on
  start, next, loaded,  \* its local values
  frame,      \* history: the frame it got last, as bytes copied from and how many
  failed      \* an exception left getFrame: the process is gone

scanVars == <<sessions, scanning, offset, naluList, mExtractor>>
getVars  == <<decodeNaluIndex, pc, obj, start, next, loaded, frame>>
vars == <<scanVars, getVars, failed>>

\* The bytes of NAL unit n; what getFrame copies is a start and a length, and
\* the length is that of the NAL units from one offset up to another.
FrameType == [at : Offset, from : Offset, to : Offset]
Unit(n) == [at |-> n, from |-> n, to |-> n + 1]

\* Types: in particular decodeNaluIndex never comes down to the SPS and PPS, which
\* initMediaCodec has handed over already.
TypeOK ==
  /\ naluList \in Seq(Offset)
  /\ sessions \in 0..MaxSessions
  /\ scanning \in BOOLEAN
  /\ offset \in 0..(Nalus + 1)
  /\ mExtractor \in 0..MaxSessions
  /\ decodeNaluIndex \in [Session -> Nat \ {0, 1}]
  /\ pc \in [Session -> {"off", "start", "next", "count", "test", "wrap", "load", "store"}]
  /\ obj \in [Session -> Session]
  /\ start \in [Session -> Offset]
  /\ next \in [Session -> Offset]
  /\ loaded \in [Session -> Nat \ {0, 1}]
  /\ frame \in [Session -> FrameType]
  /\ failed \in BOOLEAN

Init ==
  /\ naluList = <<>>
  /\ sessions = 0 /\ scanning = FALSE /\ offset = 0
  /\ mExtractor = 0
  /\ decodeNaluIndex = [s \in Session |-> 2]
  /\ pc = [s \in Session |-> "off"]
  /\ obj = [s \in Session |-> s]
  /\ start = [s \in Session |-> 0]
  /\ next = [s \in Session |-> 0]
  /\ loaded = [s \in Session |-> 2]
  /\ frame = [s \in Session |-> Unit(0)]
  /\ failed = FALSE

----------------------------------------------------------------------------
(* The UI thread, in prepare. *)

\* A new extractor starts to scan the file.
StartScan ==
  /\ ~failed /\ ~scanning /\ sessions < MaxSessions
  /\ sessions' = sessions + 1
  /\ scanning' = TRUE
  /\ offset' = 0
  /\ UNCHANGED <<naluList, mExtractor, getVars, failed>>

\* getNaluList adds one offset after the other, and the length of the file.
ScanNalu ==
  /\ ~failed /\ scanning /\ offset <= Nalus
  /\ naluList' = Append(naluList, offset)
  /\ offset' = offset + 1
  /\ UNCHANGED <<sessions, scanning, mExtractor, getVars, failed>>

\* The new StreamCodec takes the extractor over and its Decode thread starts.
StartDecode ==
  /\ ~failed /\ scanning /\ offset = Nalus + 1
  /\ scanning' = FALSE
  /\ mExtractor' = sessions
  /\ pc' = [pc EXCEPT ![sessions] = "start"]
  /\ UNCHANGED <<sessions, offset, naluList, decodeNaluIndex, obj, start, next, loaded,
                 frame, failed>>

----------------------------------------------------------------------------
(* getFrame, on a Decode thread; each read of a shared field is a step. *)

At(s, place) == ~failed /\ pc[s] = place
GoTo(s, place) == pc' = [pc EXCEPT ![s] = place]

\* naluList.get(i) throws when the list has no entry i, counted from 0.
Has(i) == i < Len(naluList)
Get(i) == naluList[i + 1]

\* Mutated ReadStart: the index moves on as the start is read.
ReadStartAndAdvance(s) ==
  /\ At(s, "start")
  /\ LET i == decodeNaluIndex[mExtractor] IN
     /\ Has(i)
     /\ start' = [start EXCEPT ![s] = Get(i)]
     /\ decodeNaluIndex' = [decodeNaluIndex EXCEPT ![mExtractor] = i + 1]
  /\ obj' = [obj EXCEPT ![s] = mExtractor]
  /\ GoTo(s, "next")
  /\ UNCHANGED <<scanVars, next, loaded, frame, failed>>

ReadStart(s) ==
  /\ At(s, "start")
  /\ LET i == decodeNaluIndex[mExtractor] IN
     Has(i) /\ start' = [start EXCEPT ![s] = Get(i)]
  /\ obj' = [obj EXCEPT ![s] = mExtractor]
  /\ GoTo(s, "next")
  /\ UNCHANGED <<scanVars, decodeNaluIndex, next, loaded, frame, failed>>

ReadNext(s) ==
  /\ At(s, "next")
  /\ LET i == decodeNaluIndex[obj[s]] + 1 IN
     Has(i) /\ next' = [next EXCEPT ![s] = Get(i)]
  /\ GoTo(s, "count")
  /\ UNCHANGED <<scanVars, decodeNaluIndex, obj, start, loaded, frame, failed>>

\* The second read of the start makes the length; the bytes are copied.
ReadCount(s) ==
  /\ At(s, "count")
  /\ LET i == decodeNaluIndex[obj[s]] IN
     /\ Has(i) /\ Get(i) <= next[s]
     /\ frame' = [frame EXCEPT ![s] = [at |-> start[s], from |-> Get(i), to |-> next[s]]]
  /\ GoTo(s, "test")
  /\ UNCHANGED <<scanVars, decodeNaluIndex, obj, start, next, loaded, failed>>

\* An index past the list, or an array of negative length: nobody catches it.
Throw(s) ==
  /\ \/ At(s, "start") /\ ~Has(decodeNaluIndex[mExtractor])
     \/ At(s, "next") /\ ~Has(decodeNaluIndex[obj[s]] + 1)
     \/ At(s, "count") /\ ~Has(decodeNaluIndex[obj[s]])
     \/ At(s, "count") /\ next[s] < Get(decodeNaluIndex[obj[s]])
  /\ failed' = TRUE
  /\ UNCHANGED <<scanVars, getVars>>

\* Mutated TestEnd: the entry for the end of the file counts as a frame.
TestEndLate(s) ==
  /\ At(s, "test")
  /\ GoTo(s, IF decodeNaluIndex[obj[s]] + 1 = Len(naluList) THEN "wrap" ELSE "load")
  /\ UNCHANGED <<scanVars, decodeNaluIndex, obj, start, next, loaded, frame, failed>>

\* decodeNaluIndex == naluList.size()-2
TestEnd(s) ==
  /\ At(s, "test")
  /\ GoTo(s, IF decodeNaluIndex[obj[s]] + 2 = Len(naluList) THEN "wrap" ELSE "load")
  /\ UNCHANGED <<scanVars, decodeNaluIndex, obj, start, next, loaded, frame, failed>>

\* Mutated Wrap: the loop starts over with the SPS.
WrapToSps(s) ==
  /\ At(s, "wrap")
  /\ decodeNaluIndex' = [decodeNaluIndex EXCEPT ![obj[s]] = 0]
  /\ GoTo(s, "start")
  /\ UNCHANGED <<scanVars, obj, start, next, loaded, frame, failed>>

Wrap(s) ==
  /\ At(s, "wrap")
  /\ decodeNaluIndex' = [decodeNaluIndex EXCEPT ![obj[s]] = 2]
  /\ GoTo(s, "start")
  /\ UNCHANGED <<scanVars, obj, start, next, loaded, frame, failed>>

\* decodeNaluIndex++ is a read and a write.
Load(s) ==
  /\ At(s, "load")
  /\ loaded' = [loaded EXCEPT ![s] = decodeNaluIndex[obj[s]]]
  /\ GoTo(s, "store")
  /\ UNCHANGED <<scanVars, decodeNaluIndex, obj, start, next, frame, failed>>

Store(s) ==
  /\ At(s, "store")
  /\ decodeNaluIndex' = [decodeNaluIndex EXCEPT ![obj[s]] = loaded[s] + 1]
  /\ GoTo(s, "start")
  /\ UNCHANGED <<scanVars, obj, start, next, loaded, frame, failed>>

GetFrame(s) ==
  \/ ReadStart(s) \/ ReadNext(s) \/ ReadCount(s) \/ Throw(s)
  \/ TestEnd(s) \/ Wrap(s) \/ Load(s) \/ Store(s)

Next ==
  \/ StartScan \/ ScanNalu \/ StartDecode
  \/ \E s \in Session : GetFrame(s)

\* The UI thread finishes prepare, and every Decode thread runs.
Fairness ==
  /\ WF_vars(ScanNalu) /\ WF_vars(StartDecode)
  /\ \A s \in Session : WF_vars(GetFrame(s))

Spec == Init /\ [][Next]_vars /\ Fairness

----------------------------------------------------------------------------
(* What the extractor promises. *)

IsUnit(f) == f = Unit(f.at)

\* The extractor of the first session has one user, so every frame read from
\* it is one NAL unit, also while another scan makes the list longer.
FirstFramesWhole ==
  \A s \in Session :
    obj[s] = 1 /\ pc[s] \in {"test", "wrap", "load", "store"} => IsUnit(frame[s])

\* With one session getFrame never throws: the index stays before the entry
\* that holds the length of the file.
SingleNeverFails == sessions <= 1 => ~failed

\* With one session the frames are the NAL units behind SPS and PPS in file
\* order, and the first of them follows the last.
InFileOrder ==
  [][sessions' <= 1 =>
       frame'[1].at = IF frame[1].at \in {0, Nalus - 1} THEN 2 ELSE frame[1].at + 1]_frame

\* With one session the data is sent again and again; in particular no index past
\* the list ends the process at the wrap.
LoopsForever ==
  \A n \in 2..(Nalus - 1) : <>[](sessions = 1) => []<>(frame[1] = Unit(n))

\* "Get one frame video data" (IDataExtractor.java, line 9): the call returns a
\* frame.  It does not once a second session has doubled the static list.
GetsOneFrame == ~failed
=============================================================================
