------------------------------ MODULE Recorder ------------------------------
(***************************************************************************)
(* Recording the stream while it is decoded: the UI thread makes a session *)
(* and its writer and sets closeWriter on a click, the Decode thread of    *)
(* each session writes every payload it has queued to the decoder and      *)
(* closes the file once it sees the flag (StreamCodec.java, AVCWriter.java *)
(* and mp4_writer.cpp).  closeWriter is static and never taken down.       *)
(***************************************************************************)
EXTENDS Mp4Writer

CONSTANTS Payloads,     \* the payloads of the stream: non-empty sequences of kinds
          MaxSessions,  \* bound: surfaceCreated callbacks
          MaxPayloads   \* bound: payloads of one session that are written, set-up apart

Session == 1..MaxSessions

ASSUME PayloadsAssumption ==
  /\ Payloads \subseteq Seq(Kind) \ {<<>>}
  /\ MaxSessions \in Nat \ {0}
  /\ MaxPayloads \in Nat

VARIABLES
  closeWriter,  \* StreamCodec.closeWriter
  sessions,     \* sessions made
  writer,       \* the writer of each session
  pc, payload,  \* Decode thread: place, and the payload in hand
  diskFull,     \* no sample can be written any more
  given,        \* history: the payloads handed to each writer
  late,         \* history: payloads handed over after the click
  stale         \* history: the session was made after the click

vars == <<closeWriter, sessions, writer, pc, payload, diskFull, given, late, stale>>

\* The bytes of an extractor's SPS and PPS.
SpsPayload == {p \in Payloads : Head(p) \in SpsKinds}
PpsPayload == {p \in Payloads : Head(p) \in PpsKinds}

Writer == [handle : {"none", "open", "closed"}, first : BOOLEAN, sps : BOOLEAN, pps : BOOLEAN,
           samples : Seq(Seq(Kind))]

\* Types: in particular the handle of a writer is always NULL or one that
\* libmp4v2 made, as none is kept when the file cannot be created.
TypeOK ==
  /\ closeWriter \in BOOLEAN
  /\ sessions \in 0..MaxSessions
  /\ writer \in [Session -> Writer]
  /\ pc \in [Session -> {"off", "check", "write", "close", "ended"}]
  /\ payload \in [Session -> Seq(Kind)]
  /\ diskFull \in BOOLEAN
  /\ given \in [Session -> Seq(Payloads)]
  /\ late \in [Session -> Nat]
  /\ stale \in [Session -> BOOLEAN]

Init ==
  /\ closeWriter = FALSE
  /\ sessions = 0
  /\ writer = [s \in Session |-> NewWriter]
  /\ pc = [s \in Session |-> "off"]
  /\ payload = [s \in Session |-> <<>>]
  /\ diskFull = FALSE
  /\ given = [s \in Session |-> <<>>]
  /\ late = [s \in Session |-> 0]
  /\ stale = [s \in Session |-> FALSE]

----------------------------------------------------------------------------
\* surfaceCreated -> prepare: the writer is opened and gets SPS and PPS,
\* whatever closeWriter says; then the Decode thread starts.
SurfaceCreated ==
  /\ sessions < MaxSessions
  /\ LET new == sessions + 1 IN
     /\ sessions' = new
     /\ \E created \in BOOLEAN, sps \in SpsPayload, pps \in PpsPayload :
          LET opened == DoStartRecord(NewWriter, created)
          IN  /\ writer' = [writer EXCEPT ![new] = WriteEncodedVideoFrame(
                   WriteEncodedVideoFrame(opened, sps, diskFull), pps, diskFull)]
              /\ given' = [given EXCEPT ![new] = <<sps, pps>>]
     /\ pc' = [pc EXCEPT ![new] = "check"]
     /\ stale' = [stale EXCEPT ![new] = closeWriter]
  /\ UNCHANGED <<closeWriter, payload, diskFull, late>>

\* onClick -> setCloseWriter(true)
Click ==
  /\ sessions > 0 /\ ~closeWriter
  /\ closeWriter' = TRUE
  /\ UNCHANGED <<sessions, writer, pc, payload, diskFull, given, late, stale>>

\* Mutated CheckFlag: closeWriter is not looked at.
AlwaysWrite(s) ==
  /\ pc[s] = "check"
  /\ Len(given[s]) < MaxPayloads + 2
  /\ pc' = [pc EXCEPT ![s] = "write"]
  /\ \E p \in Payloads : payload' = [payload EXCEPT ![s] = p]
  /\ UNCHANGED <<closeWriter, sessions, writer, diskFull, given, late, stale>>

\* Mutated CheckFlag: the click counts as served when one thread has seen it.
CheckAndReset(s) ==
  /\ pc[s] = "check"
  /\ closeWriter' = FALSE
  /\ IF closeWriter
       THEN pc' = [pc EXCEPT ![s] = "close"] /\ UNCHANGED payload
       ELSE /\ Len(given[s]) < MaxPayloads + 2
            /\ pc' = [pc EXCEPT ![s] = "write"]
            /\ \E p \in Payloads : payload' = [payload EXCEPT ![s] = p]
  /\ UNCHANGED <<sessions, writer, diskFull, given, late, stale>>

\* A payload has been queued to the decoder; look at closeWriter.
CheckFlag(s) ==
  /\ pc[s] = "check"
  /\ IF closeWriter
       THEN pc' = [pc EXCEPT ![s] = "close"] /\ UNCHANGED payload
       ELSE /\ Len(given[s]) < MaxPayloads + 2
            /\ pc' = [pc EXCEPT ![s] = "write"]
            /\ \E p \in Payloads : payload' = [payload EXCEPT ![s] = p]
  /\ UNCHANGED <<closeWriter, sessions, writer, diskFull, given, late, stale>>

\* writer.writeFrame(buf)
WriteFrame(s) ==
  /\ pc[s] = "write"
  /\ writer' = [writer EXCEPT ![s] = WriteEncodedVideoFrame(@, payload[s], diskFull)]
  /\ given' = [given EXCEPT ![s] = Append(@, payload[s])]
  /\ late' = [late EXCEPT ![s] = IF closeWriter THEN @ + 1 ELSE @]
  /\ pc' = [pc EXCEPT ![s] = "check"]
  /\ payload' = [payload EXCEPT ![s] = <<>>]
  /\ UNCHANGED <<closeWriter, sessions, diskFull, stale>>

\* writer.close(), once for every payload that follows the click
Close(s) ==
  /\ pc[s] = "close"
  /\ writer' = [writer EXCEPT ![s] = DoStopRecord(@)]
  /\ pc' = [pc EXCEPT ![s] = "check"]
  /\ UNCHANGED <<closeWriter, sessions, payload, diskFull, given, late, stale>>

\* The source delivers null: the file is closed only if the click came before.
SourceEnds(s) ==
  /\ pc[s] = "check"
  /\ writer' = [writer EXCEPT ![s] = IF closeWriter THEN DoStopRecord(@) ELSE @]
  /\ pc' = [pc EXCEPT ![s] = "ended"]
  /\ UNCHANGED <<closeWriter, sessions, payload, diskFull, given, late, stale>>

\* The file system: the result of MP4WriteSample is not looked at.
DiskFills ==
  /\ ~diskFull
  /\ diskFull' = TRUE
  /\ UNCHANGED <<closeWriter, sessions, writer, pc, payload, given, late, stale>>

Record(s) == CheckFlag(s) \/ WriteFrame(s) \/ Close(s) \/ SourceEnds(s)

Next ==
  \/ SurfaceCreated \/ Click \/ DiskFills
  \/ \E s \in Session : Record(s)

\* The scheduler runs every Decode thread.
Fairness == \A s \in Session : WF_vars(Record(s))

Spec == Init /\ [][Next]_vars /\ Fairness

----------------------------------------------------------------------------
(* What the recording promises. *)

Pictures(payloads) == Only(FlattenSeq(payloads), Kind \ {"SEI"})
Recorded(s) == Pictures(writer[s].samples)

\* The file holds the NAL units handed over, SEI apart, each once and in
\* order, from the first on; all of them unless the disk filled up.  A
\* recording that could not be opened stays empty.
RecordedInOrder ==
  \A s \in 1..sessions :
    /\ IsPrefix(Recorded(s), Pictures(given[s]))
    /\ ~diskFull => Recorded(s) = IF writer[s].handle = "none" THEN <<>> ELSE Pictures(given[s])

\* A file with a slice in it has its parameter sets in the configuration,
\* unless the first ones handed over are of the odd length.
SetsBeforeSlices ==
  \A s \in 1..sessions :
    "SLICE" \in ToSet(Recorded(s)) =>
      /\ Head(given[s][1]) = "SPS" => writer[s].sps
      /\ Head(given[s][2]) = "PPS" => writer[s].pps

\* After the click a Decode thread writes at most the payload it had checked
\* the flag for.
AtMostOneAfterClick == \A s \in Session : late[s] <= 1

\* A session made after the click records its parameter sets and nothing more.
OldClickRecordsNothing ==
  \A s \in 1..sessions : stale[s] => Len(given[s]) = 2

\* A closed file is never written to, nor opened again.
FinalIsFinal ==
  [][\A s \in Session : writer[s].handle = "closed" => writer'[s] = writer[s]]_writer

\* The click closes a recording whose source goes on.
ClickCloses ==
  \A s \in Session :
    (closeWriter /\ writer[s].handle = "open") ~> (writer[s].handle = "closed" \/ pc[s] = "ended")
=============================================================================
