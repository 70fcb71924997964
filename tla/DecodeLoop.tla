---------------------------- MODULE DecodeLoop ----------------------------
(***************************************************************************)
(* The loop of a Decode thread around MediaCodec (StreamCodec.Decode.run). *)
(*                                                                         *)
(* Each round hands at most one input buffer to the codec, waiting for it  *)
(* without a limit, and then asks for at most one output buffer, waiting   *)
(* 10 ms.  The codec (external) decodes concurrently.  Buffers are counted *)
(* and their contents left out: what matters is who owns how many.  The    *)
(* data a round copies out of a buffer is the subject of Display.          *)
(***************************************************************************)
EXTENDS Integers

CONSTANTS InBuffers,    \* the codec's input buffers
          OutBuffers,   \* its output buffers
          Depth,        \* pictures it may keep back for reordering
          MaxReconfigs  \* bound: changes of the output format

ASSUME BuffersAssumption ==
  /\ InBuffers \in Nat \ {0}
  /\ OutBuffers \in Nat \ {0}
  /\ Depth \in Nat
  /\ MaxReconfigs \in Nat

VARIABLES
  pc,           \* where the loop is
  inputDone, outputDone,
  arrGen,       \* generation of the buffers in decoderOutputBuffers
  lastBuffer,   \* the buffer in hand carries BUFFER_FLAG_END_OF_STREAM
  inQueued,     \* input buffers the codec has not given back
  picture,      \* the input at the head is a picture that needs an output buffer
  held, ready,  \* output buffers kept back, and waiting to be dequeued
  client,       \* output buffers the loop has not released
  formatKnown,  \* the codec has set up its output buffers
  gen,          \* generation of the codec's output buffers
  reconfigs,    \* history: changes of the output format
  buffersChanged, formatChanged,  \* notices not yet delivered
  eos           \* the end-of-stream mark: "none", "queued", "seen" or "out"

loopVars  == <<pc, inputDone, outputDone, arrGen, lastBuffer>>
outVars   == <<held, ready, client>>
infoVars  == <<formatKnown, gen, reconfigs, buffersChanged, formatChanged>>
vars == <<loopVars, inQueued, picture, outVars, infoVars, eos>>

\* Types: in particular the loop has at most one output buffer in hand, and the
\* two sides together never more than there are.
TypeOK ==
  /\ pc \in {"top", "await", "eos", "output", "refresh", "consume", "release", "done"}
  /\ inputDone \in BOOLEAN /\ outputDone \in BOOLEAN /\ lastBuffer \in BOOLEAN
  /\ inQueued \in 0..InBuffers
  /\ picture \in BOOLEAN
  /\ held \in 0..Depth
  /\ ready \in 0..OutBuffers
  /\ client \in 0..1
  /\ held + ready + client <= OutBuffers
  /\ formatKnown \in BOOLEAN /\ buffersChanged \in BOOLEAN /\ formatChanged \in BOOLEAN
  /\ reconfigs \in 0..MaxReconfigs
  /\ gen \in 0..MaxReconfigs
  /\ arrGen \in 0..MaxReconfigs
  /\ eos \in {"none", "queued", "seen", "out"}

Init ==
  /\ pc = "top" /\ inputDone = FALSE /\ outputDone = FALSE /\ lastBuffer = FALSE
  /\ inQueued = 0 /\ picture = FALSE
  /\ held = 0 /\ ready = 0 /\ client = 0
  /\ formatKnown = FALSE /\ buffersChanged = FALSE /\ formatChanged = FALSE
  /\ gen = 0 /\ arrGen = 0 /\ reconfigs = 0
  /\ eos = "none"

----------------------------------------------------------------------------
(* The loop. *)

\* while (!outputDone)
Exit ==
  /\ pc = "top" /\ outputDone
  /\ pc' = "done"
  /\ UNCHANGED <<inputDone, outputDone, arrGen, lastBuffer, inQueued, picture, outVars,
                 infoVars, eos>>

\* getFrame delivers a NAL unit, or null at the end of the source.
GetFrame ==
  /\ pc = "top" /\ ~outputDone /\ ~inputDone
  /\ \/ pc' = "await" /\ UNCHANGED inputDone
     \/ pc' = "eos" /\ inputDone' = TRUE
  /\ UNCHANGED <<outputDone, arrGen, lastBuffer, inQueued, picture, outVars, infoVars, eos>>

SkipInput ==
  /\ pc = "top" /\ ~outputDone /\ inputDone
  /\ pc' = "output"
  /\ UNCHANGED <<inputDone, outputDone, arrGen, lastBuffer, inQueued, picture, outVars,
                 infoVars, eos>>

\* Mutated QueueInput: go on feeding before asking for output.
QueueInputGreedy ==
  /\ pc = "await" /\ inQueued < InBuffers
  /\ inQueued' = inQueued + 1
  /\ pc' \in {"top", "output"}
  /\ UNCHANGED <<inputDone, outputDone, arrGen, lastBuffer, picture, outVars, infoVars, eos>>

\* dequeueInputBuffer(-1) blocks until a buffer is free; fill it and queue it.
QueueInput ==
  /\ pc = "await" /\ inQueued < InBuffers
  /\ inQueued' = inQueued + 1
  /\ pc' = "output"
  /\ UNCHANGED <<inputDone, outputDone, arrGen, lastBuffer, picture, outVars, infoVars, eos>>

\* dequeueInputBuffer(TIMEOUT_USEC): without a free buffer the mark is not sent,
\* and inputDone is set already.
SendEos ==
  /\ pc = "eos"
  /\ IF inQueued < InBuffers
       THEN inQueued' = inQueued + 1 /\ eos' = "queued"
       ELSE UNCHANGED <<inQueued, eos>>
  /\ pc' = "output"
  /\ UNCHANGED <<inputDone, outputDone, arrGen, lastBuffer, picture, outVars, infoVars>>

\* dequeueOutputBuffer: a notice comes before any buffer, the change of the
\* buffers before the change of the format.
TryAgainLater ==
  /\ pc = "output" /\ ~buffersChanged /\ ~formatChanged /\ ready = 0
  /\ pc' = "top"
  /\ UNCHANGED <<inputDone, outputDone, arrGen, lastBuffer, inQueued, picture, outVars,
                 infoVars, eos>>

OutputBuffersChanged ==
  /\ pc = "output" /\ buffersChanged
  /\ buffersChanged' = FALSE
  /\ pc' = "refresh"
  /\ UNCHANGED <<inputDone, outputDone, arrGen, lastBuffer, inQueued, picture, outVars,
                 formatKnown, gen, reconfigs, formatChanged, eos>>

\* Mutated Refresh: the array fetched at start-up is kept.
RefreshForgotten ==
  /\ pc = "refresh"
  /\ pc' = "top"
  /\ UNCHANGED <<inputDone, outputDone, arrGen, lastBuffer, inQueued, picture, outVars,
                 infoVars, eos>>

\* decoderOutputBuffers = codec.getOutputBuffers()
Refresh ==
  /\ pc = "refresh"
  /\ arrGen' = gen
  /\ pc' = "top"
  /\ UNCHANGED <<inputDone, outputDone, lastBuffer, inQueued, picture, outVars, infoVars, eos>>

OutputFormatChanged ==
  /\ pc = "output" /\ ~buffersChanged /\ formatChanged
  /\ formatChanged' = FALSE
  /\ pc' = "top"
  /\ UNCHANGED <<inputDone, outputDone, arrGen, lastBuffer, inQueued, picture, outVars,
                 formatKnown, gen, reconfigs, buffersChanged, eos>>

DequeueOutput ==
  /\ pc = "output" /\ ~buffersChanged /\ ~formatChanged /\ ready > 0
  /\ ready' = ready - 1
  /\ client' = client + 1
  /\ lastBuffer' = (eos = "out" /\ ready = 1)
  /\ pc' = "consume"
  /\ UNCHANGED <<inputDone, outputDone, arrGen, inQueued, picture, held, infoVars, eos>>

\* Mutated Consume: dropping a frame goes on to the next round at once.
ConsumeAndKeep ==
  /\ pc = "consume"
  /\ \/ outputDone' = (outputDone \/ lastBuffer) /\ pc' = "release"
     \/ UNCHANGED outputDone /\ pc' = "top"
  /\ UNCHANGED <<inputDone, arrGen, lastBuffer, inQueued, picture, outVars, infoVars, eos>>

\* Mutated Consume: a frame that is dropped does not get its flags looked at.
ConsumeMissingFlag ==
  /\ pc = "consume"
  /\ outputDone' \in {outputDone, outputDone \/ lastBuffer}
  /\ pc' = "release"
  /\ UNCHANGED <<inputDone, arrGen, lastBuffer, inQueued, picture, outVars, infoVars, eos>>

\* Mutated Consume: the output counts as done with the input.
ConsumeUntilInputDone ==
  /\ pc = "consume"
  /\ outputDone' = inputDone
  /\ pc' = "release"
  /\ UNCHANGED <<inputDone, arrGen, lastBuffer, inQueued, picture, outVars, infoVars, eos>>

\* Read decoderOutputBuffers[status], publish or drop it, look at the flags.
Consume ==
  /\ pc = "consume"
  /\ outputDone' = (outputDone \/ lastBuffer)
  /\ pc' = "release"
  /\ UNCHANGED <<inputDone, arrGen, lastBuffer, inQueued, picture, outVars, infoVars, eos>>

ReleaseOutput ==
  /\ pc = "release"
  /\ client' = client - 1
  /\ pc' = "top"
  /\ UNCHANGED <<inputDone, outputDone, arrGen, lastBuffer, inQueued, picture, held, ready,
                 infoVars, eos>>

Loop ==
  \/ Exit \/ GetFrame \/ SkipInput \/ QueueInput \/ SendEos
  \/ TryAgainLater \/ OutputBuffersChanged \/ Refresh \/ OutputFormatChanged
  \/ DequeueOutput \/ Consume \/ ReleaseOutput

----------------------------------------------------------------------------
(* MediaCodec: external, as far as the loop relies on it. *)

FramesQueued == inQueued - (IF eos = "queued" THEN 1 ELSE 0)
FreeOutput == held + ready + client < OutBuffers

\* The next input is a parameter set or SEI and is used up, or a picture.
Parse ==
  /\ FramesQueued > 0 /\ ~picture
  /\ \/ inQueued' = inQueued - 1 /\ UNCHANGED picture
     \/ formatKnown /\ picture' = TRUE /\ UNCHANGED inQueued
  /\ UNCHANGED <<loopVars, outVars, infoVars, eos>>

\* A picture needs a free output buffer; it is kept back, if there is room
\* for one more, or some picture is ready.
DecodePicture ==
  /\ picture /\ FreeOutput
  /\ picture' = FALSE
  /\ inQueued' = inQueued - 1
  /\ \/ held < Depth /\ held' = held + 1 /\ UNCHANGED ready
     \/ ready' = ready + 1 /\ UNCHANGED held
  /\ UNCHANGED <<loopVars, client, infoVars, eos>>

Emit ==
  /\ held > 0
  /\ held' = held - 1
  /\ ready' = ready + 1
  /\ UNCHANGED <<loopVars, inQueued, picture, client, infoVars, eos>>

\* New parameter sets: once all pictures of the old format are out, the format
\* changes, with or without new output buffers.
Reconfigure ==
  /\ FramesQueued > 0 /\ ~picture /\ held = 0 /\ ready = 0 /\ client = 0
  /\ reconfigs < MaxReconfigs
  /\ reconfigs' = reconfigs + 1
  /\ formatKnown' = TRUE
  /\ formatChanged' = TRUE
  /\ \/ buffersChanged' = TRUE /\ gen' = gen + 1
     \/ UNCHANGED <<buffersChanged, gen>>
  /\ UNCHANGED <<loopVars, inQueued, picture, outVars, eos>>

\* The mark reaches the codec, and leaves in an output buffer of its own after
\* the last picture.
SeeEos ==
  /\ eos = "queued" /\ inQueued = 1
  /\ inQueued' = 0
  /\ eos' = "seen"
  /\ UNCHANGED <<loopVars, picture, outVars, infoVars>>

EmitEos ==
  /\ eos = "seen" /\ held = 0 /\ FreeOutput
  /\ ready' = ready + 1
  /\ eos' = "out"
  /\ UNCHANGED <<loopVars, inQueued, picture, held, client, infoVars>>

Codec == Parse \/ DecodePicture \/ Emit \/ Reconfigure \/ SeeEos \/ EmitEos

Next == Loop \/ Codec

\* The thread runs; the codec works on what it has, and empties itself once
\* it has seen the end of the stream.
Fairness ==
  /\ WF_vars(Loop)
  /\ WF_vars(Parse) /\ WF_vars(DecodePicture)
  /\ WF_vars(SeeEos) /\ WF_vars(eos = "seen" /\ Emit) /\ WF_vars(EmitEos)

Spec == Init /\ [][Next]_vars /\ Fairness

----------------------------------------------------------------------------
(* What the loop relies on and what it promises. *)

\* The loop waits for an input buffer that cannot come free: all are queued,
\* and the codec waits for an output buffer that only the loop can release.
Stalled == pc = "await" /\ inQueued = InBuffers /\ ~FreeOutput

Larger(a, b) == IF a > b THEN a ELSE b

\* The wait without a limit at line 261 cannot lock the loop and the codec
\* against each other if the codec has more output buffers than it keeps back
\* and than two, the rounds the two notices of a new format may cost.
NoStall == OutBuffers > Larger(Depth, 2) => ~Stalled

\* decoderOutputBuffers[status] (line 335) is an entry of the codec's present
\* buffers, never of ones it has unmapped (the comment at 321-323).
ArrayFresh == pc = "consume" => arrGen = gen

\* The loop ends only when the codec has nothing left to deliver.
DrainedAtEnd == pc = "done" => inQueued = 0 /\ held + ready + client = 0

\* A round always gets its input buffer.
InputComesFree == pc = "await" ~> pc # "await"

\* Once the end-of-stream mark is queued the loop ends.
EosEndsLoop == eos = "queued" ~> pc = "done"
=============================================================================
