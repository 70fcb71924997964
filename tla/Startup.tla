------------------------------ MODULE Startup ------------------------------
(***************************************************************************)
(* From surfaceCreated to the recording on the card, over several lives of *)
(* the process: MyActivity.prepare with every kind of input file, what the *)
(* Decode threads then do to /sdcard/test.mp4, which all sessions of all   *)
(* processes create anew, and what a death of the process leaves of it.    *)
(*                                                                         *)
(* prepare takes four steps here, one for each call that may throw or that *)
(* other threads can see.  A round of a Decode thread is one step: what    *)
(* happens inside it is the subject of NaluSource and Recorder.            *)
(***************************************************************************)
EXTENDS Naturals, Sequences

CONSTANTS Inputs,          \* what /mnt/sdcard/test.h264 may hold
          Missing, Empty,  \* no such file, and a file of no bytes
          None,            \* nobody
          MaxRuns,         \* bound: lives of the process
          MaxSessions      \* bound: surfaceCreated callbacks in one life

\* A file is the sequence of its NAL units.  HUGE is one that is larger than
\* the codec's input buffers.
Unit    == {"SPS", "PPS", "SLICE", "HUGE"}
Run     == 1..MaxRuns
Session == 1..MaxSessions
Stamp   == Run \X Session

ASSUME InputsAssumption ==
  /\ Inputs \subseteq Seq(Unit) \cup {Missing, Empty}
  /\ Missing \notin Seq(Unit) /\ Empty \notin Seq(Unit)
  /\ None \notin Stamp
  /\ MaxRuns \in Nat /\ MaxSessions \in Nat \ {0}

VARIABLES
  input,            \* the input file
  run, outcome,     \* lives so far, and how each went
  ui,               \* how far prepare has come
  sessions,         \* calls of prepare in this life
  naluList,         \* FileDataExtractor.naluList: offsets, counted in NAL units
  sets,             \* whether each extractor has its Sps and its Pps
  decodeNaluIndex,  \* of each extractor
  mExtractor,       \* StreamCodec.mExtractor
  closeWriter,      \* StreamCodec.closeWriter
  handle,           \* mp4_file of each session's writer
  decoding,         \* sessions whose Decode thread runs
  recording         \* /sdcard/test.mp4: who created it, whose bytes are in it,
                    \* and whose close wrote its index last

javaVars == <<naluList, sets, decodeNaluIndex, mExtractor>>
recVars  == <<handle, recording>>
vars == <<input, run, outcome, ui, sessions, javaVars, closeWriter, recVars, decoding>>

Recording == [owner : Stamp \cup {None}, parts : SUBSET Stamp, index : Stamp \cup {None}]

\* Types: in particular decodeNaluIndex never points at SPS or PPS, and only
\* sessions of this life have a thread.
TypeOK ==
  /\ input \in Inputs
  /\ run \in 0..MaxRuns
  /\ outcome \in [Run -> {"none", "running", "killed", "threw"}]
  /\ ui \in {"idle", "extracted", "made", "inited", "threw"}
  /\ sessions \in 0..MaxSessions
  /\ naluList \in Seq(Nat)
  /\ sets \in [Session -> BOOLEAN]
  /\ decodeNaluIndex \in [Session -> Nat \ {0, 1}]
  /\ mExtractor \in 0..sessions
  /\ closeWriter \in BOOLEAN
  /\ handle \in [Session -> {"none", "open", "closed"}]
  /\ decoding \subseteq 1..sessions
  /\ recording \in Recording

NoRecording == [owner |-> None, parts |-> {}, index |-> None]

Init ==
  /\ input \in Inputs
  /\ run = 0 /\ outcome = [r \in Run |-> "none"]
  /\ ui = "idle" /\ sessions = 0 /\ decoding = {}
  /\ naluList = <<>>
  /\ sets = [s \in Session |-> FALSE]
  /\ decodeNaluIndex = [s \in Session |-> 2]
  /\ mExtractor = 0
  /\ closeWriter = FALSE
  /\ handle = [s \in Session |-> "none"]
  /\ recording = NoRecording

Running == run > 0 /\ outcome[run] = "running"
Me(s)   == <<run, s>>

----------------------------------------------------------------------------
(* Around the process. *)

\* The app is started: every static is new and the recording as it was left,
\* while the input file may have been exchanged or removed.
Launch ==
  /\ ~Running /\ run < MaxRuns
  /\ run' = run + 1
  /\ outcome' = [outcome EXCEPT ![run + 1] = "running"]
  /\ ui' = "idle" /\ sessions' = 0 /\ decoding' = {}
  /\ naluList' = <<>>
  /\ sets' = [s \in Session |-> FALSE]
  /\ decodeNaluIndex' = [s \in Session |-> 2]
  /\ mExtractor' = 0
  /\ closeWriter' = FALSE
  /\ handle' = [s \in Session |-> "none"]
  /\ input' \in Inputs
  /\ UNCHANGED recording

\* Android takes the process away at any moment.
Kill ==
  /\ Running
  /\ outcome' = [outcome EXCEPT ![run] = "killed"]
  /\ UNCHANGED <<input, run, ui, sessions, javaVars, closeWriter, recVars, decoding>>

\* An exception nobody catches ends the process.
Throws == outcome' = [outcome EXCEPT ![run] = "threw"]

----------------------------------------------------------------------------
(* prepare, on the UI thread. *)

\* The offsets getNaluList finds, with the length of the file at the end.
Offsets(f) == [n \in 1..(Len(f) + 1) |-> n - 1]

\* The NAL unit at an offset; behind the file the array is full of zeros.
UnitAt(f, at) == IF at < Len(f) THEN f[at + 1] ELSE "none"

\* Mutated Found: a picture parameter set is not looked for.
FoundSps(f, list) == UnitAt(f, list[1]) = "SPS"

\* hasSpsPps looks where the list begins, which is where the first scan of
\* this life has put its offsets.
Found(f, list) == UnitAt(f, list[1]) = "SPS" /\ UnitAt(f, list[2]) = "PPS"

Called == Running /\ ui = "idle" /\ sessions < MaxSessions /\ sessions' = sessions + 1

\* Mutated NoFile: a missing file counts as one that has failed.
NoFileHandled ==
  /\ input = Missing /\ Called
  /\ ui' = "extracted"
  /\ UNCHANGED <<input, run, outcome, javaVars, closeWriter, recVars, decoding>>

\* Nobody looks at the result of openDataExtractor; getData reads from null.
NoFile ==
  /\ input = Missing /\ Called
  /\ Throws /\ ui' = "threw"
  /\ UNCHANGED <<input, run, javaVars, closeWriter, recVars, decoding>>

\* Nor does anybody look at the status of the extractor.
Extract ==
  /\ input # Missing /\ Called
  /\ IF input = Empty
       THEN UNCHANGED <<naluList, sets>>
       ELSE LET list == naluList \o Offsets(input)
            IN  naluList' = list /\ sets' = [sets EXCEPT ![sessions + 1] = Found(input, list)]
  /\ ui' = "extracted"
  /\ UNCHANGED <<input, run, outcome, decodeNaluIndex, mExtractor, closeWriter, recVars, decoding>>

\* Mutated MakeCodec: the file is opened and not truncated.
MakeCodecAppending ==
  /\ Running /\ ui = "extracted"
  /\ mExtractor' = sessions
  /\ handle' = [handle EXCEPT ![sessions] = "open"]
  /\ recording' = [recording EXCEPT !.owner = Me(sessions), !.index = None]
  /\ ui' = "made"
  /\ UNCHANGED <<input, run, outcome, sessions, naluList, sets, decodeNaluIndex, closeWriter, decoding>>

\* new StreamCodec(param): the static extractor is exchanged, and MP4CreateEx
\* truncates the one file there is, if it can open it.
MakeCodec ==
  /\ Running /\ ui = "extracted"
  /\ mExtractor' = sessions
  /\ \/ /\ handle' = [handle EXCEPT ![sessions] = "open"]
        /\ recording' = [NoRecording EXCEPT !.owner = Me(sessions)]
     \/ UNCHANGED recVars
  /\ ui' = "made"
  /\ UNCHANGED <<input, run, outcome, sessions, naluList, sets, decodeNaluIndex, closeWriter, decoding>>

\* Whatever a session writes goes to the file if its handle is open.
Written(s) ==
  IF handle[s] = "open" THEN [recording EXCEPT !.parts = @ \cup {Me(s)}] ELSE recording

\* initMediaCodec reads both parameter sets, which throws if one is null, and
\* then writes both.
InitCodec ==
  /\ Running /\ ui = "made"
  /\ IF sets[sessions]
       THEN ui' = "inited" /\ recording' = Written(sessions) /\ UNCHANGED outcome
       ELSE ui' = "threw" /\ Throws /\ UNCHANGED recording
  /\ UNCHANGED <<input, run, sessions, javaVars, closeWriter, handle, decoding>>

OpenCodec ==
  /\ Running /\ ui = "inited"
  /\ decoding' = decoding \cup {sessions}
  /\ ui' = "idle"
  /\ UNCHANGED <<input, run, outcome, sessions, javaVars, closeWriter, recVars>>

\* onClick -> setCloseWriter(true), once there is a codec.
Click ==
  /\ Running /\ ui = "idle" /\ sessions > 0
  /\ closeWriter' = TRUE
  /\ UNCHANGED <<input, run, outcome, ui, sessions, javaVars, recVars, decoding>>

----------------------------------------------------------------------------
(* A round of a Decode thread. *)

Index == decodeNaluIndex[mExtractor]

\* getFrame has an entry to read, and one behind it that is no smaller; the
\* NAL unit fits the input buffer.
GetsFrame ==
  /\ Index + 2 <= Len(naluList)
  /\ naluList[Index + 1] <= naluList[Index + 2]
  /\ UnitAt(input, naluList[Index + 1]) # "HUGE"

\* Mutated Advance: the wrap goes to the parameter sets.
AdvanceToSps ==
  decodeNaluIndex' =
    [decodeNaluIndex EXCEPT ![mExtractor] = IF @ + 2 = Len(naluList) THEN 0 ELSE @ + 1]

Advance ==
  decodeNaluIndex' =
    [decodeNaluIndex EXCEPT ![mExtractor] = IF @ + 2 = Len(naluList) THEN 2 ELSE @ + 1]

\* getFrame or put throws.
FrameThrows(s) ==
  /\ Running /\ s \in decoding /\ ~GetsFrame
  /\ Throws
  /\ UNCHANGED <<input, run, ui, sessions, javaVars, closeWriter, recVars, decoding>>

WriteFrame(s) ==
  /\ Running /\ s \in decoding /\ GetsFrame /\ ~closeWriter
  /\ Advance
  /\ recording' = Written(s)
  /\ UNCHANGED <<input, run, outcome, ui, sessions, naluList, sets, mExtractor, closeWriter,
                 handle, decoding>>

\* Mutated CloseFile: the handle stays as it is.
CloseFileOpen(s) ==
  /\ Running /\ s \in decoding /\ GetsFrame /\ closeWriter
  /\ Advance
  /\ UNCHANGED <<input, run, outcome, ui, sessions, naluList, sets, mExtractor, closeWriter,
                 recVars, decoding>>

\* writer.close() on an open handle writes the index where the handle is.
CloseFile(s) ==
  /\ Running /\ s \in decoding /\ GetsFrame /\ closeWriter
  /\ Advance
  /\ IF handle[s] = "open"
       THEN /\ handle' = [handle EXCEPT ![s] = "closed"]
            /\ recording' = [recording EXCEPT !.index = Me(s), !.parts = @ \cup {Me(s)}]
       ELSE UNCHANGED recVars
  /\ UNCHANGED <<input, run, outcome, ui, sessions, naluList, sets, mExtractor, closeWriter, decoding>>

Decode(s) == FrameThrows(s) \/ WriteFrame(s) \/ CloseFile(s)

Prepare == MakeCodec \/ InitCodec \/ OpenCodec

Next ==
  \/ Launch \/ Kill
  \/ NoFile \/ Extract \/ Prepare \/ Click
  \/ \E s \in Session : Decode(s)

\* The UI thread finishes prepare, and every Decode thread runs.
Fairness == WF_vars(Prepare) /\ \A s \in Session : WF_vars(Decode(s))

Spec == Init /\ [][Next]_vars /\ Fairness

----------------------------------------------------------------------------
(* What can be relied on. *)

\* The files the program is written for: SPS and PPS in front, and frames of
\* which each fits the codec's buffer.
HasSets(f)  == f \notin {Missing, Empty} /\ Len(f) >= 2 /\ f[1] = "SPS" /\ f[2] = "PPS"
Playable(f) == HasSets(f) /\ Len(f) > 2 /\ \A n \in DOMAIN f : f[n] # "HUGE"

\* prepare, which checks nothing (line 58), throws exactly when it must: a
\* Decode thread runs only on a file with its parameter sets, and with such a
\* file prepare does not throw, also in a session that finds the list full.
\* In the first session a playable file makes nothing throw at all.
ThrowsOnlyForBadFiles ==
  /\ decoding # {} => HasSets(input)
  /\ ui = "threw" => ~HasSets(input)
  /\ run > 0 /\ outcome[run] = "threw" /\ sessions = 1 => ~Playable(input)

\* What a process leaves behind never gets into a later recording, nor do the
\* bytes of a later session into one that an earlier session has created.
OwnBytesOnly ==
  \A part \in recording.parts :
    part[1] = recording.owner[1] /\ part[2] <= recording.owner[2]

Finished == recording.owner # None /\ recording.index = recording.owner

\* A finished recording of the first session is lost only to a session that
\* creates it again, which no launch without an input file does.
FinishedStays ==
  [][Finished /\ recording.owner[2] = 1 =>
       recording'.owner # recording.owner /\ input # Missing]_recording

\* A click finishes the recording of a process that keeps its one session and
\* its life.  A playable file gives it no reason to lose that.
ClickFinishes ==
  \A r \in Run :
    (run = r /\ Running /\ closeWriter /\ handle[1] = "open") ~>
      \/ recording.index = <<r, 1>>
      \/ outcome[r] = "killed"
      \/ outcome[r] = "threw" /\ ~Playable(input)
      \/ sessions > 1
=============================================================================
