----------------------------- MODULE FrameSlot -----------------------------
(***************************************************************************)
(* What the Decode thread and the render thread promise each other, seen   *)
(* from outside: a slot for one frame.  Frames go in one at a time, each   *)
(* is put on the screen whole, exactly once and in the order they were     *)
(* decoded, until the process stops.  Display implements it when there is  *)
(* one thread of each kind.                                                *)
(***************************************************************************)
EXTENDS Naturals

CONSTANT MaxFrames   \* bound: frames put

VARIABLES put,      \* the last frame put
          slot,     \* the frame waiting to be shown; 0 if none
          shown,    \* the frames the screen shows pixels of
          stopped   \* the process has ended

vars == <<put, slot, shown, stopped>>

Init == put = 0 /\ slot = 0 /\ shown = {0} /\ stopped = FALSE

\* The producer never waits for the slot, and never overwrites it.
Put ==
  /\ ~stopped /\ slot = 0 /\ put < MaxFrames
  /\ put' = put + 1
  /\ slot' = put + 1
  /\ UNCHANGED <<shown, stopped>>

Show ==
  /\ ~stopped /\ slot # 0
  /\ shown' = {slot}
  /\ slot' = 0
  /\ UNCHANGED <<put, stopped>>

Stop == ~stopped /\ stopped' = TRUE /\ UNCHANGED <<put, slot, shown>>

Next == Put \/ Show \/ Stop

\* What is put is shown, unless the process stops.
Spec == Init /\ [][Next]_vars /\ WF_vars(Show)
=============================================================================
