-------------------------- MODULE DecodeLoopProofs --------------------------
(***************************************************************************)
(* Proofs about DecodeLoop, for every number of buffers.                   *)
(*                                                                         *)
(* NoStall is not inductive: what excludes the stall is how much work the  *)
(* loop can have piled up in the codec by the time it waits for an input   *)
(* buffer.  Backlog says so.  A round adds one item and takes one out,     *)
(* except that it takes none when the codec has nothing ready (and then    *)
(* only queued and kept-back work is left), and none when it gets one of   *)
(* the two notices of a new format (which comes when no picture is left).  *)
(***************************************************************************)
EXTENDS DecodeLoop, TLAPS

\* Everything given to the codec that has not come back to the loop.
Load == inQueued + held + ready + (IF eos = "seen" THEN 1 ELSE 0)

Notices == (IF buffersChanged THEN 1 ELSE 0) + (IF formatChanged THEN 1 ELSE 0)

\* The bound at the head of a round.
Bound == InBuffers + (IF Notices > 0 THEN 2 - Notices ELSE Larger(Depth, 2))

\* A round is one item ahead between queueing its input and its output.
Backlog == Load <= Bound + (IF pc = "output" THEN 1 ELSE 0)

\* Facts about the codec's books that the bound rests on.
Books ==
  /\ client = (IF pc \in {"consume", "release"} THEN 1 ELSE 0)
  /\ (eos = "queued" => inQueued > 0)
  /\ (eos \in {"seen", "out"} => inQueued = 0)
  /\ (eos # "none" => inputDone)
  /\ (pc = "await" => ~inputDone)
  /\ (pc = "eos" => eos = "none" /\ inputDone)
  /\ (picture => FramesQueued > 0)
  /\ gen <= reconfigs

\* The array the loop indexes is the codec's, or the loop is about to fetch it.
\* No change can fall between taking a buffer and reading it.
ArrayTracked ==
  /\ buffersChanged \/ pc = "refresh" \/ arrGen = gen
  /\ pc = "consume" => ~buffersChanged

\* The buffer with the end-of-stream flag is the last one to leave.
Draining ==
  /\ eos = "out" => held = 0
  /\ pc = "consume" /\ lastBuffer => eos = "out" /\ ready = 0
  /\ outputDone => eos = "out" /\ ready = 0
  /\ pc = "done" => outputDone

IInv == TypeOK /\ Books /\ Backlog /\ ArrayTracked /\ Draining

----------------------------------------------------------------------------
\* The initial state satisfies the inductive invariant.
LEMMA InitInv == Init => IInv
<1> SUFFICES ASSUME Init PROVE IInv
  OBVIOUS
<1> USE BuffersAssumption DEF BuffersAssumption, Init
<1>1. TypeOK
  <2>1. /\ inputDone \in BOOLEAN /\ outputDone \in BOOLEAN /\ lastBuffer \in BOOLEAN
        /\ picture \in BOOLEAN /\ formatKnown \in BOOLEAN
        /\ buffersChanged \in BOOLEAN /\ formatChanged \in BOOLEAN
    OBVIOUS
  <2>2. QED
    BY <2>1 DEF TypeOK
<1>2. Books
  BY DEF Books, FramesQueued
<1>3. Backlog
  BY DEF Backlog, Load, Notices, Bound, Larger
<1>4. ArrayTracked /\ Draining
  BY DEF ArrayTracked, Draining
<1>5. QED
  BY <1>1, <1>2, <1>3, <1>4 DEF IInv

\* The steps of the loop.
LEMMA LoopInv == IInv /\ Loop => IInv'
<1> SUFFICES ASSUME IInv, Loop PROVE IInv'
  OBVIOUS
<1> USE BuffersAssumption DEF BuffersAssumption, loopVars, outVars, infoVars
<1>1. CASE Exit
  <2>1. TypeOK'
    BY <1>1 DEF Exit, IInv, TypeOK, Books, FramesQueued, FreeOutput
  <2>2. Books'
    BY <1>1 DEF Exit, IInv, TypeOK, Books, FramesQueued
  <2>3. Backlog'
    BY <1>1 DEF Exit, IInv, TypeOK, Books, Backlog, Load, Notices, Bound, Larger, FramesQueued
  <2>4. ArrayTracked'
    BY <1>1 DEF Exit, IInv, TypeOK, Books, ArrayTracked
  <2>5. Draining'
    BY <1>1 DEF Exit, IInv, TypeOK, Books, Draining, FramesQueued
  <2>6. QED
    BY <2>1, <2>2, <2>3, <2>4, <2>5 DEF IInv
<1>2. CASE GetFrame
  <2>1. TypeOK'
    BY <1>2 DEF GetFrame, IInv, TypeOK, Books, FramesQueued, FreeOutput
  <2>2. Books'
    BY <1>2 DEF GetFrame, IInv, TypeOK, Books, FramesQueued
  <2>3. Backlog'
    BY <1>2 DEF GetFrame, IInv, TypeOK, Books, Backlog, Load, Notices, Bound, Larger, FramesQueued
  <2>4. ArrayTracked'
    BY <1>2 DEF GetFrame, IInv, TypeOK, Books, ArrayTracked
  <2>5. Draining'
    BY <1>2 DEF GetFrame, IInv, TypeOK, Books, Draining, FramesQueued
  <2>6. QED
    BY <2>1, <2>2, <2>3, <2>4, <2>5 DEF IInv
<1>3. CASE SkipInput
  <2>1. TypeOK'
    BY <1>3 DEF SkipInput, IInv, TypeOK, Books, FramesQueued, FreeOutput
  <2>2. Books'
    BY <1>3 DEF SkipInput, IInv, TypeOK, Books, FramesQueued
  <2>3. Backlog'
    BY <1>3 DEF SkipInput, IInv, TypeOK, Books, Backlog, Load, Notices, Bound, Larger, FramesQueued
  <2>4. ArrayTracked'
    BY <1>3 DEF SkipInput, IInv, TypeOK, Books, ArrayTracked
  <2>5. Draining'
    BY <1>3 DEF SkipInput, IInv, TypeOK, Books, Draining, FramesQueued
  <2>6. QED
    BY <2>1, <2>2, <2>3, <2>4, <2>5 DEF IInv
<1>4. CASE QueueInput
  <2>1. TypeOK'
    BY <1>4 DEF QueueInput, IInv, TypeOK, Books, FramesQueued, FreeOutput
  <2>2. Books'
    BY <1>4 DEF QueueInput, IInv, TypeOK, Books, FramesQueued
  <2>3. Backlog'
    BY <1>4 DEF QueueInput, IInv, TypeOK, Books, Backlog, Load, Notices, Bound, Larger, FramesQueued
  <2>4. ArrayTracked'
    BY <1>4 DEF QueueInput, IInv, TypeOK, Books, ArrayTracked
  <2>5. Draining'
    BY <1>4 DEF QueueInput, IInv, TypeOK, Books, Draining, FramesQueued
  <2>6. QED
    BY <2>1, <2>2, <2>3, <2>4, <2>5 DEF IInv
<1>5. CASE SendEos
  <2>1. TypeOK'
    BY <1>5 DEF SendEos, IInv, TypeOK, Books, FramesQueued, FreeOutput
  <2>2. Books'
    BY <1>5 DEF SendEos, IInv, TypeOK, Books, FramesQueued
  <2>3. Backlog'
    BY <1>5 DEF SendEos, IInv, TypeOK, Books, Backlog, Load, Notices, Bound, Larger, FramesQueued
  <2>4. ArrayTracked'
    BY <1>5 DEF SendEos, IInv, TypeOK, Books, ArrayTracked
  <2>5. Draining'
    BY <1>5 DEF SendEos, IInv, TypeOK, Books, Draining, FramesQueued
  <2>6. QED
    BY <2>1, <2>2, <2>3, <2>4, <2>5 DEF IInv
<1>6. CASE TryAgainLater
  <2>1. TypeOK'
    BY <1>6 DEF TryAgainLater, IInv, TypeOK, Books, FramesQueued, FreeOutput
  <2>2. Books'
    BY <1>6 DEF TryAgainLater, IInv, TypeOK, Books, FramesQueued
  <2>3. Backlog'
    BY <1>6 DEF TryAgainLater, IInv, TypeOK, Books, Backlog, Load, Notices, Bound, Larger, FramesQueued
  <2>4. ArrayTracked'
    BY <1>6 DEF TryAgainLater, IInv, TypeOK, Books, ArrayTracked
  <2>5. Draining'
    BY <1>6 DEF TryAgainLater, IInv, TypeOK, Books, Draining, FramesQueued
  <2>6. QED
    BY <2>1, <2>2, <2>3, <2>4, <2>5 DEF IInv
<1>7. CASE OutputBuffersChanged
  <2>1. TypeOK'
    BY <1>7 DEF OutputBuffersChanged, IInv, TypeOK, Books, FramesQueued, FreeOutput
  <2>2. Books'
    BY <1>7 DEF OutputBuffersChanged, IInv, TypeOK, Books, FramesQueued
  <2>3. Backlog'
    BY <1>7 DEF OutputBuffersChanged, IInv, TypeOK, Books, Backlog, Load, Notices, Bound, Larger, FramesQueued
  <2>4. ArrayTracked'
    BY <1>7 DEF OutputBuffersChanged, IInv, TypeOK, Books, ArrayTracked
  <2>5. Draining'
    BY <1>7 DEF OutputBuffersChanged, IInv, TypeOK, Books, Draining, FramesQueued
  <2>6. QED
    BY <2>1, <2>2, <2>3, <2>4, <2>5 DEF IInv
<1>8. CASE Refresh
  <2>1. TypeOK'
    BY <1>8 DEF Refresh, IInv, TypeOK, Books, FramesQueued, FreeOutput
  <2>2. Books'
    BY <1>8 DEF Refresh, IInv, TypeOK, Books, FramesQueued
  <2>3. Backlog'
    BY <1>8 DEF Refresh, IInv, TypeOK, Books, Backlog, Load, Notices, Bound, Larger, FramesQueued
  <2>4. ArrayTracked'
    BY <1>8 DEF Refresh, IInv, TypeOK, Books, ArrayTracked
  <2>5. Draining'
    BY <1>8 DEF Refresh, IInv, TypeOK, Books, Draining, FramesQueued
  <2>6. QED
    BY <2>1, <2>2, <2>3, <2>4, <2>5 DEF IInv
<1>9. CASE OutputFormatChanged
  <2>1. TypeOK'
    BY <1>9 DEF OutputFormatChanged, IInv, TypeOK, Books, FramesQueued, FreeOutput
  <2>2. Books'
    BY <1>9 DEF OutputFormatChanged, IInv, TypeOK, Books, FramesQueued
  <2>3. Backlog'
    BY <1>9 DEF OutputFormatChanged, IInv, TypeOK, Books, Backlog, Load, Notices, Bound, Larger, FramesQueued
  <2>4. ArrayTracked'
    BY <1>9 DEF OutputFormatChanged, IInv, TypeOK, Books, ArrayTracked
  <2>5. Draining'
    BY <1>9 DEF OutputFormatChanged, IInv, TypeOK, Books, Draining, FramesQueued
  <2>6. QED
    BY <2>1, <2>2, <2>3, <2>4, <2>5 DEF IInv
<1>10. CASE DequeueOutput
  <2>1. TypeOK'
    BY <1>10 DEF DequeueOutput, IInv, TypeOK, Books, FramesQueued, FreeOutput
  <2>2. Books'
    BY <1>10 DEF DequeueOutput, IInv, TypeOK, Books, FramesQueued
  <2>3. Backlog'
    BY <1>10 DEF DequeueOutput, IInv, TypeOK, Books, Backlog, Load, Notices, Bound, Larger, FramesQueued
  <2>4. ArrayTracked'
    BY <1>10 DEF DequeueOutput, IInv, TypeOK, Books, ArrayTracked
  <2>5. Draining'
    BY <1>10 DEF DequeueOutput, IInv, TypeOK, Books, Draining, FramesQueued
  <2>6. QED
    BY <2>1, <2>2, <2>3, <2>4, <2>5 DEF IInv
<1>11. CASE Consume
  <2>1. TypeOK'
    BY <1>11 DEF Consume, IInv, TypeOK, Books, FramesQueued, FreeOutput
  <2>2. Books'
    BY <1>11 DEF Consume, IInv, TypeOK, Books, FramesQueued
  <2>3. Backlog'
    BY <1>11 DEF Consume, IInv, TypeOK, Books, Backlog, Load, Notices, Bound, Larger, FramesQueued
  <2>4. ArrayTracked'
    BY <1>11 DEF Consume, IInv, TypeOK, Books, ArrayTracked
  <2>5. Draining'
    BY <1>11 DEF Consume, IInv, TypeOK, Books, Draining, FramesQueued
  <2>6. QED
    BY <2>1, <2>2, <2>3, <2>4, <2>5 DEF IInv
<1>12. CASE ReleaseOutput
  <2>1. TypeOK'
    BY <1>12 DEF ReleaseOutput, IInv, TypeOK, Books, FramesQueued, FreeOutput
  <2>2. Books'
    BY <1>12 DEF ReleaseOutput, IInv, TypeOK, Books, FramesQueued
  <2>3. Backlog'
    BY <1>12 DEF ReleaseOutput, IInv, TypeOK, Books, Backlog, Load, Notices, Bound, Larger, FramesQueued
  <2>4. ArrayTracked'
    BY <1>12 DEF ReleaseOutput, IInv, TypeOK, Books, ArrayTracked
  <2>5. Draining'
    BY <1>12 DEF ReleaseOutput, IInv, TypeOK, Books, Draining, FramesQueued
  <2>6. QED
    BY <2>1, <2>2, <2>3, <2>4, <2>5 DEF IInv
<1>13. QED
  BY <1>1, <1>2, <1>3, <1>4, <1>5, <1>6, <1>7, <1>8, <1>9, <1>10, <1>11, <1>12 DEF Loop

\* The steps of the codec.
LEMMA CodecInv == IInv /\ Codec => IInv'
<1> SUFFICES ASSUME IInv, Codec PROVE IInv'
  OBVIOUS
<1> USE BuffersAssumption DEF BuffersAssumption, loopVars, outVars, infoVars
<1>1. CASE Parse
  <2>1. TypeOK'
    <3>1. picture' \in BOOLEAN
      BY <1>1 DEF Parse, IInv, TypeOK
    <3>2. QED
      BY <1>1, <3>1 DEF Parse, IInv, TypeOK, Books, FramesQueued, FreeOutput
  <2>2. Books'
    BY <1>1 DEF Parse, IInv, TypeOK, Books, FramesQueued
  <2>3. Backlog'
    BY <1>1 DEF Parse, IInv, TypeOK, Books, Backlog, Load, Notices, Bound, Larger, FramesQueued
  <2>4. ArrayTracked'
    BY <1>1 DEF Parse, IInv, TypeOK, Books, ArrayTracked
  <2>5. Draining'
    BY <1>1 DEF Parse, IInv, TypeOK, Books, Draining, FramesQueued
  <2>6. QED
    BY <2>1, <2>2, <2>3, <2>4, <2>5 DEF IInv
<1>2. CASE DecodePicture
  <2>1. TypeOK'
    <3>1. picture' \in BOOLEAN
      BY <1>2 DEF DecodePicture, IInv, TypeOK
    <3>2. QED
      BY <1>2, <3>1 DEF DecodePicture, IInv, TypeOK, Books, FramesQueued, FreeOutput
  <2>2. Books'
    BY <1>2 DEF DecodePicture, IInv, TypeOK, Books, FramesQueued
  <2>3. Backlog'
    BY <1>2 DEF DecodePicture, IInv, TypeOK, Books, Backlog, Load, Notices, Bound, Larger, FramesQueued
  <2>4. ArrayTracked'
    BY <1>2 DEF DecodePicture, IInv, TypeOK, Books, ArrayTracked
  <2>5. Draining'
    BY <1>2 DEF DecodePicture, IInv, TypeOK, Books, Draining, FramesQueued
  <2>6. QED
    BY <2>1, <2>2, <2>3, <2>4, <2>5 DEF IInv
<1>3. CASE Emit
  <2>1. TypeOK'
    BY <1>3 DEF Emit, IInv, TypeOK, Books, FramesQueued, FreeOutput
  <2>2. Books'
    BY <1>3 DEF Emit, IInv, TypeOK, Books, FramesQueued
  <2>3. Backlog'
    BY <1>3 DEF Emit, IInv, TypeOK, Books, Backlog, Load, Notices, Bound, Larger, FramesQueued
  <2>4. ArrayTracked'
    BY <1>3 DEF Emit, IInv, TypeOK, Books, ArrayTracked
  <2>5. Draining'
    BY <1>3 DEF Emit, IInv, TypeOK, Books, Draining, FramesQueued
  <2>6. QED
    BY <2>1, <2>2, <2>3, <2>4, <2>5 DEF IInv
<1>4. CASE Reconfigure
  <2>1. TypeOK'
    <3>1. formatKnown' \in BOOLEAN /\ formatChanged' \in BOOLEAN /\ buffersChanged' \in BOOLEAN
      BY <1>4 DEF Reconfigure, IInv, TypeOK
    <3>2. QED
      BY <1>4, <3>1 DEF Reconfigure, IInv, TypeOK, Books, FramesQueued, FreeOutput
  <2>2. Books'
    BY <1>4 DEF Reconfigure, IInv, TypeOK, Books, FramesQueued
  <2>3. Backlog'
    BY <1>4 DEF Reconfigure, IInv, TypeOK, Books, Backlog, Load, Notices, Bound, Larger, FramesQueued
  <2>4. ArrayTracked'
    BY <1>4 DEF Reconfigure, IInv, TypeOK, Books, ArrayTracked
  <2>5. Draining'
    BY <1>4 DEF Reconfigure, IInv, TypeOK, Books, Draining, FramesQueued
  <2>6. QED
    BY <2>1, <2>2, <2>3, <2>4, <2>5 DEF IInv
<1>5. CASE SeeEos
  <2>1. TypeOK'
    BY <1>5 DEF SeeEos, IInv, TypeOK, Books, FramesQueued, FreeOutput
  <2>2. Books'
    BY <1>5 DEF SeeEos, IInv, TypeOK, Books, FramesQueued
  <2>3. Backlog'
    BY <1>5 DEF SeeEos, IInv, TypeOK, Books, Backlog, Load, Notices, Bound, Larger, FramesQueued
  <2>4. ArrayTracked'
    BY <1>5 DEF SeeEos, IInv, TypeOK, Books, ArrayTracked
  <2>5. Draining'
    BY <1>5 DEF SeeEos, IInv, TypeOK, Books, Draining, FramesQueued
  <2>6. QED
    BY <2>1, <2>2, <2>3, <2>4, <2>5 DEF IInv
<1>6. CASE EmitEos
  <2>1. TypeOK'
    BY <1>6 DEF EmitEos, IInv, TypeOK, Books, FramesQueued, FreeOutput
  <2>2. Books'
    BY <1>6 DEF EmitEos, IInv, TypeOK, Books, FramesQueued
  <2>3. Backlog'
    BY <1>6 DEF EmitEos, IInv, TypeOK, Books, Backlog, Load, Notices, Bound, Larger, FramesQueued
  <2>4. ArrayTracked'
    BY <1>6 DEF EmitEos, IInv, TypeOK, Books, ArrayTracked
  <2>5. Draining'
    BY <1>6 DEF EmitEos, IInv, TypeOK, Books, Draining, FramesQueued
  <2>6. QED
    BY <2>1, <2>2, <2>3, <2>4, <2>5 DEF IInv
<1>7. QED
  BY <1>1, <1>2, <1>3, <1>4, <1>5, <1>6 DEF Codec

\* A step that changes nothing keeps the invariant.
LEMMA StutterInv == IInv /\ UNCHANGED vars => IInv'
  BY DEF IInv, TypeOK, Books, Backlog, ArrayTracked, Draining, Load, Notices, Bound,
     FramesQueued, vars, loopVars, outVars, infoVars

\* The invariant holds throughout.
THEOREM Invariance == Spec => []IInv
<1>1. IInv /\ [Next]_vars => IInv'
  BY LoopInv, CodecInv, StutterInv DEF Next
<1>2. QED
  BY InitInv, <1>1, PTL DEF Spec

\* Every variable keeps its type: in particular the loop never holds more than
\* one output buffer, and the codec never hands out more than it has.
THEOREM TypeCorrect == Spec => []TypeOK
  BY Invariance, PTL DEF IInv

\* The loop and the codec never wait for each other, whatever the number of
\* input buffers, if the codec has enough output buffers (line 261).
THEOREM NeverStalls == Spec => []NoStall
<1>1. IInv => NoStall
  BY BuffersAssumption DEF BuffersAssumption, IInv, TypeOK, Books, Backlog, Load, Notices, Bound, Larger,
     NoStall, Stalled, FreeOutput
<1>2. QED
  BY Invariance, <1>1, PTL

\* The output array is never used across a change of the buffers (line 335).
THEOREM AlwaysFresh == Spec => []ArrayFresh
<1>1. IInv => ArrayFresh
  BY DEF IInv, TypeOK, Books, ArrayTracked, ArrayFresh
<1>2. QED
  BY Invariance, <1>1, PTL

\* Nothing is left in the codec when the loop ends.
THEOREM EndsDrained == Spec => []DrainedAtEnd
<1>1. IInv => DrainedAtEnd
  BY DEF IInv, TypeOK, Books, Draining, DrainedAtEnd
<1>2. QED
  BY Invariance, <1>1, PTL
=============================================================================
