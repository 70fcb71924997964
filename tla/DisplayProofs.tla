--------------------------- MODULE DisplayProofs ---------------------------
(***************************************************************************)
(* Proofs about Display, for every number of sessions, render threads,     *)
(* frames and clicks.                                                      *)
(*                                                                         *)
(* TypeOK needs Lifecycle: a thread that has started belongs to a session  *)
(* or a render thread that exists.  NoTornPicture needs the hand-over      *)
(* protocol itself (HandOver): while the Decode thread writes the flag is  *)
(* down, while the render thread draws it is up, and pixels are whole      *)
(* wherever the other side may read them.                                  *)
(***************************************************************************)
EXTENDS Display, Integers, TLAPS

Writing == {"convert1", "convert2", "copy1", "copy2", "grab", "publish"}

\* Threads exist only for sessions and render threads that have been made.
Lifecycle ==
  /\ surface # "none" => sessions > 0
  /\ renderers > 0 => sessions > 0 /\ viewBitmap > 0
  /\ viewBitmap <= sessions
  /\ \A s \in Session : dpc[s] # "off" => s <= sessions
  /\ \A s \in Session : dpc[s] \in Writing \cup {"trigger", "spawn"} => frame[s] > 0
  /\ \A r \in Renderer : rpc[r] # "off" => r <= renderers

\* The newest frame of the only session, all over.
Fresh == [h \in Half |-> <<1, frame[1]>>]

\* The protocol between one Decode thread and one render thread: who may be
\* where while the flag is down or up, ...
Turns ==
  /\ dpc[1] \in Writing => ~framePrepared
  /\ \A r \in Renderer : rpc[r] \notin {"off", "poll"} => framePrepared

\* ... which pixels the Decode thread has written so far, ...
Written ==
  /\ dpc[1] \in Writing \ {"convert1"} => brgb[1] = <<1, frame[1]>>
  /\ dpc[1] \in Writing \ {"convert1", "convert2"} => brgb[2] = <<1, frame[1]>>
  /\ dpc[1] = "copy2" => bitmap[1][1] = <<1, frame[1]>> /\ target[1] = 1
  /\ dpc[1] \in {"grab", "publish"} \/ framePrepared =>
       bitmap[1][1] = <<1, frame[1]>> /\ bitmap[1][2] = <<1, frame[1]>>

\* ... and which the render thread has read.
Drawn ==
  /\ \A r \in Renderer :
       /\ rpc[r] = "draw2" => source[r] = 1 /\ pic[r][1] = <<1, frame[1]>>
       /\ rpc[r] = "post" => pic[r] = Fresh
       /\ rpc[r] = "clear" => shown = Fresh
  /\ Whole(shown)

Protocol == Turns /\ Written /\ Drawn

HandOver == SinglePair => Protocol

IInv == TypeOK /\ Lifecycle /\ HandOver

\* A Capture thread belongs to a click its session has received; a request that is up
\* belongs to a click no thread was started for, and is up still when it is served.
Unserved(s) ==
  /\ \A k \in DOMAIN captures : captures[k].session = s => captures[k].click <= clicks[s]
  /\ captureFrame[s] =>
       /\ clicks[s] > 0
       /\ \A k \in DOMAIN captures : captures[k].session = s => captures[k].click < clicks[s]
  /\ dpc[s] = "spawn" => captureFrame[s]

Requests == ClickServedOnce /\ \A s \in Session : Unserved(s)

\* The pixels a session has left where it may write: a pixel of session s is of
\* frame n or a later one.
AtLeast(p, s, n) == p[1] = s => p[2] >= n

\* The frame that half h of brgb, and a bitmap, is known to have passed.
Converted(s, h) ==
  IF dpc[s] = "convert1" \/ (h = 2 /\ dpc[s] = "convert2") THEN frame[s] - 1 ELSE frame[s]
Passed(s) == IF dpc[s] \in {"convert1", "convert2", "copy1"} THEN frame[s] - 1 ELSE frame[s]
HalfPassed(s, h, b) ==
  IF h = 2 /\ dpc[s] = "copy2" /\ b = target[s] THEN frame[s] - 1 ELSE Passed(s)

\* Old pixels of a session are gone from brgb as soon as it has converted over them,
\* and from its bitmap as soon as it has copied.  A bitmap that has just become the newest
\* has none that are older, as all of it was copied from brgb since.
Gone ==
  /\ \A s \in Session, h \in Half : AtLeast(brgb[h], s, Converted(s, h))
  /\ \A s \in Session, h \in Half, b \in Session :
       b = target[s] \/ b = sessions => AtLeast(bitmap[b][h], s, HalfPassed(s, h, b))
  /\ \A b \in Session : b > sessions => bitmap[b] = BlankPicture
  /\ \A s \in Session : target[s] <= sessions \/ target[s] = s
----------------------------------------------------------------------------
(* Types and the life of the threads.                                      *)

TypeInv == TypeOK /\ Lifecycle

\* The frames and pictures the actions build are frames and pictures.
LEMMA FrameFacts ==
  /\ Blank \in Frame
  /\ \A s \in Session, n \in 1..MaxFrames : <<s, n>> \in Frame
  /\ BlankPicture \in Picture
  /\ 1 \in Half /\ 2 \in Half
  BY BoundsAssumption DEF BoundsAssumption, Frame, Blank, Picture, BlankPicture, Half

\* A thread that is past the check is working on a frame.
LEMMA CurrentFrame ==
  ASSUME TypeInv, NEW s \in Session, dpc[s] \in Writing
  PROVE  Current(s) \in Frame /\ s <= sessions /\ sessions \in Session
<1>1. s <= sessions /\ frame[s] > 0
  BY DEF TypeInv, Lifecycle, Writing
<1>2. frame[s] \in 1..MaxFrames /\ sessions \in Session
  BY <1>1, BoundsAssumption DEF BoundsAssumption, TypeInv, TypeOK, Session
<1>3. QED
  BY <1>1, <1>2, FrameFacts DEF Current

\* The initial state is well typed.
LEMMA TypeInit == Init => TypeInv
<1> SUFFICES ASSUME Init PROVE TypeInv
  OBVIOUS
<1> USE BoundsAssumption DEF BoundsAssumption, Init
<1>1. framePrepared \in BOOLEAN /\ crashed \in BOOLEAN
  OBVIOUS
<1>2. captures \in Seq(CaptureThread)
  OBVIOUS
<1>3. TypeOK
  BY <1>1, <1>2, FrameFacts DEF TypeOK, Session, Picture
<1>4. Lifecycle
  BY DEF Lifecycle, Session, Renderer, Writing
<1>5. QED
  BY <1>3, <1>4 DEF TypeInv

\* The callbacks of the UI thread.
LEMMA UiTypes ==
  ASSUME TypeInv,
         SurfaceCreated \/ SurfaceChanged \/ SurfaceDestroyed \/ Click
  PROVE  TypeInv'
<1> USE BoundsAssumption DEF BoundsAssumption, uiVars, decVars, drwVars, capVars
<1>1. CASE SurfaceCreated
  <2>1. sessions \in Nat /\ sessions + 1 \in Session /\ sessions' \in 0..MaxSessions
    BY <1>1 DEF SurfaceCreated, TypeInv, TypeOK, Session
  <2>2. dpc' = [dpc EXCEPT ![sessions + 1] = "check"] /\ sessions' = sessions + 1
    BY <1>1 DEF SurfaceCreated
  <2>3. TypeOK'
    BY <1>1, <2>1, <2>2 DEF SurfaceCreated, TypeInv, TypeOK
  <2>4. viewBitmap' <= sessions'
    BY <1>1, <2>1 DEF SurfaceCreated, TypeInv, TypeOK, Lifecycle
  <2>5. \A s \in Session : dpc'[s] # "off" => s <= sessions'
    BY <2>1, <2>2 DEF TypeInv, TypeOK, Lifecycle, Session
  <2>6. Lifecycle'
    BY <1>1, <2>1, <2>2, <2>4, <2>5 DEF SurfaceCreated, TypeInv, TypeOK, Lifecycle, Writing
  <2>7. QED
    BY <2>3, <2>6 DEF TypeInv
<1>2. CASE SurfaceChanged
  <2>1. TypeOK'
    BY <1>2 DEF SurfaceChanged, TypeInv, TypeOK, Renderer
  <2>2. Lifecycle'
    BY <1>2 DEF SurfaceChanged, TypeInv, TypeOK, Lifecycle, Renderer
  <2>3. QED
    BY <2>1, <2>2 DEF TypeInv
<1>3. CASE SurfaceDestroyed
  <2>1. TypeOK'
    BY <1>3 DEF SurfaceDestroyed, TypeInv, TypeOK
  <2>2. Lifecycle'
    BY <1>3 DEF SurfaceDestroyed, TypeInv, TypeOK, Lifecycle
  <2>3. QED
    BY <2>1, <2>2 DEF TypeInv
<1>4. CASE Click
  <2>0. sessions \in Session
    BY <1>4 DEF Click, TypeInv, TypeOK, Session
  <2>1. captureFrame' \in [Session -> BOOLEAN] /\ late' \in [Session -> BOOLEAN]
    <3>1. captureFrame' \in [Session -> BOOLEAN]
      BY <1>4, <2>0 DEF Click, TypeInv, TypeOK
    <3>2. (IF captureFrame[sessions] THEN late[sessions]
           ELSE dpc[sessions] \in {"publish", "trigger"}) \in BOOLEAN
      <4>1. CASE captureFrame[sessions]
        BY <4>1, <2>0, Zenon DEF TypeInv, TypeOK
      <4>2. CASE ~captureFrame[sessions]
        <5>1. (dpc[sessions] \in {"publish", "trigger"}) \in BOOLEAN
          OBVIOUS
        <5>2. QED
          BY <4>2, <5>1, Zenon
      <4>3. QED
        BY <4>1, <4>2
    <3>3. late' \in [Session -> BOOLEAN]
      BY <1>4, <2>0, <3>2, Zenon DEF Click, TypeInv, TypeOK
    <3>4. QED
      BY <3>1, <3>3
  <2>2. clicks' \in [Session -> 0..MaxClicks]
    <3>1. clicks[sessions] + 1 \in 0..MaxClicks
      BY <1>4, <2>0 DEF Click, TypeInv, TypeOK
    <3>2. QED
      BY <1>4, <2>0, <3>1 DEF Click, TypeInv, TypeOK
  <2>3. TypeOK'
    BY <1>4, <2>1, <2>2 DEF Click, TypeInv, TypeOK
  <2>4. Lifecycle'
    BY <1>4 DEF Click, TypeInv, Lifecycle
  <2>5. QED
    BY <2>3, <2>4 DEF TypeInv
<1>5. QED
  BY <1>1, <1>2, <1>3, <1>4

\* The steps of a Decode thread.
LEMMA DecodeTypes ==
  ASSUME TypeInv, NEW s \in Session, Decode(s)
  PROVE  TypeInv'
<1> USE BoundsAssumption DEF BoundsAssumption, At, GoTo, uiVars, decVars, drwVars, capVars
<1>1. CASE StartFrame(s)
  <2>1. frame' \in [Session -> 0..MaxFrames]
    BY <1>1 DEF StartFrame, TypeInv, TypeOK
  <2>2. TypeOK'
    BY <1>1, <2>1 DEF StartFrame, TypeInv, TypeOK
  <2>3. Lifecycle'
    BY <1>1 DEF StartFrame, TypeInv, TypeOK, Lifecycle, Writing
  <2>4. QED
    BY <2>2, <2>3 DEF TypeInv
<1>2. CASE DropFrame(s)
  <2>1. TypeOK'
    BY <1>2 DEF DropFrame, TypeInv, TypeOK
  <2>2. Lifecycle'
    BY <1>2 DEF DropFrame, TypeInv, TypeOK, Lifecycle, Writing
  <2>3. QED
    BY <2>1, <2>2 DEF TypeInv
<1>3. ASSUME NEW h \in Half, Convert(s, h) PROVE TypeInv'
  <2>1. dpc[s] \in Writing
    BY <1>3 DEF Convert, Writing
  <2>2. Current(s) \in Frame
    BY <2>1, CurrentFrame
  <2>3. TypeOK'
    BY <1>3, <2>2 DEF Convert, TypeInv, TypeOK, Picture
  <2>4. Lifecycle'
    BY <1>3 DEF Convert, TypeInv, TypeOK, Lifecycle, Writing
  <2>5. QED
    BY <2>3, <2>4 DEF TypeInv
<1>4. CASE CopyFirst(s)
  <2>1. sessions \in Session
    BY <1>4, CurrentFrame DEF CopyFirst, Writing
  <2>2. brgb[1] \in Frame /\ bitmap[sessions] \in Picture
    BY <2>1, FrameFacts DEF TypeInv, TypeOK, Picture
  <2>3. bitmap' \in [Session -> Picture]
    BY <1>4, <2>1, <2>2 DEF CopyFirst, TypeInv, TypeOK, Picture
  <2>4. TypeOK'
    BY <1>4, <2>1, <2>3 DEF CopyFirst, TypeInv, TypeOK
  <2>5. Lifecycle'
    BY <1>4 DEF CopyFirst, TypeInv, TypeOK, Lifecycle, Writing
  <2>6. QED
    BY <2>4, <2>5 DEF TypeInv
<1>5. CASE CopySecond(s)
  <2>1. brgb[2] \in Frame /\ target[s] \in Session /\ bitmap[target[s]] \in Picture
    BY FrameFacts DEF TypeInv, TypeOK, Picture
  <2>2. bitmap' \in [Session -> Picture]
    BY <1>5, <2>1 DEF CopySecond, TypeInv, TypeOK, Picture
  <2>3. TypeOK'
    BY <1>5, <2>2 DEF CopySecond, TypeInv, TypeOK
  <2>4. Lifecycle'
    BY <1>5 DEF CopySecond, TypeInv, TypeOK, Lifecycle, Writing
  <2>5. QED
    BY <2>3, <2>4 DEF TypeInv
<1>6. CASE Grab(s)
  <2>1. bitmap[sessions] \in Picture
    BY <1>6, CurrentFrame DEF Grab, Writing, TypeInv, TypeOK
  <2>2. TypeOK'
    BY <1>6, <2>1 DEF Grab, TypeInv, TypeOK
  <2>3. Lifecycle'
    BY <1>6 DEF Grab, TypeInv, TypeOK, Lifecycle, Writing
  <2>4. QED
    BY <2>2, <2>3 DEF TypeInv
<1>7. CASE Publish(s)
  <2>1. framePrepared' \in BOOLEAN
    BY <1>7 DEF Publish
  <2>2. TypeOK'
    BY <1>7, <2>1 DEF Publish, TypeInv, TypeOK
  <2>3. Lifecycle'
    BY <1>7 DEF Publish, TypeInv, TypeOK, Lifecycle, Writing
  <2>4. QED
    BY <2>2, <2>3 DEF TypeInv
<1>8. CASE Trigger(s)
  <2>1. TypeOK'
    BY <1>8 DEF Trigger, TypeInv, TypeOK
  <2>2. Lifecycle'
    BY <1>8 DEF Trigger, TypeInv, TypeOK, Lifecycle, Writing
  <2>3. QED
    BY <2>1, <2>2 DEF TypeInv
<1>9. CASE Spawn(s)
  <2>1. captureFrame' \in [Session -> BOOLEAN]
    BY <1>9 DEF Spawn, TypeInv, TypeOK
  <2>2. Started(s) \in CaptureThread
    BY DEF Started, TypeInv, TypeOK, CaptureThread
  <2>3. captures' \in Seq(CaptureThread)
    BY <1>9, <2>2 DEF Spawn, TypeInv, TypeOK
  <2>4. TypeOK'
    BY <1>9, <2>1, <2>3 DEF Spawn, TypeInv, TypeOK
  <2>5. Lifecycle'
    BY <1>9 DEF Spawn, TypeInv, TypeOK, Lifecycle, Writing
  <2>6. QED
    BY <2>4, <2>5 DEF TypeInv
<1>10. QED
  BY <1>1, <1>2, <1>3, <1>4, <1>5, <1>6, <1>7, <1>8, <1>9 DEF Decode

\* The steps of a render thread.
LEMMA RenderTypes ==
  ASSUME TypeInv, NEW r \in Renderer, Render(r)
  PROVE  TypeInv'
<1> USE BoundsAssumption DEF BoundsAssumption, In, uiVars, decVars, drwVars, capVars
<1>1. CASE Poll(r)
  <2>1. TypeOK'
    BY <1>1 DEF Poll, TypeInv, TypeOK
  <2>2. Lifecycle'
    BY <1>1 DEF Poll, TypeInv, TypeOK, Lifecycle
  <2>3. QED
    BY <2>1, <2>2 DEF TypeInv
<1>2. CASE Lock(r)
  <2>1. TypeOK'
    BY <1>2 DEF Lock, TypeInv, TypeOK
  <2>2. Lifecycle'
    BY <1>2 DEF Lock, TypeInv, TypeOK, Lifecycle
  <2>3. QED
    BY <2>1, <2>2 DEF TypeInv
<1>3. CASE DrawOnNull(r)
  <2>1. crashed' \in BOOLEAN
    BY <1>3 DEF DrawOnNull
  <2>2. TypeOK'
    BY <1>3, <2>1 DEF DrawOnNull, TypeInv, TypeOK
  <2>3. Lifecycle'
    BY <1>3 DEF DrawOnNull, TypeInv, TypeOK, Lifecycle
  <2>4. QED
    BY <2>2, <2>3 DEF TypeInv
<1>4. CASE DrawFirst(r)
  <2>1. r <= renderers
    BY <1>4 DEF DrawFirst, TypeInv, TypeOK, Lifecycle
  <2>2. viewBitmap \in Session
    BY <2>1 DEF TypeInv, TypeOK, Lifecycle, Session, Renderer
  <2>3. bitmap[viewBitmap][1] \in Frame
    BY <2>2, FrameFacts DEF TypeInv, TypeOK, Picture
  <2>4. pic' \in [Renderer -> Picture]
    BY <1>4, <2>3 DEF DrawFirst, TypeInv, TypeOK, Picture
  <2>5. TypeOK'
    BY <1>4, <2>2, <2>4 DEF DrawFirst, TypeInv, TypeOK
  <2>6. Lifecycle'
    BY <1>4 DEF DrawFirst, TypeInv, TypeOK, Lifecycle
  <2>7. QED
    BY <2>5, <2>6 DEF TypeInv
<1>5. CASE DrawSecond(r)
  <2>1. bitmap[source[r]][2] \in Frame
    BY FrameFacts DEF TypeInv, TypeOK, Picture
  <2>2. pic' \in [Renderer -> Picture]
    BY <1>5, <2>1 DEF DrawSecond, TypeInv, TypeOK, Picture
  <2>3. TypeOK'
    BY <1>5, <2>2 DEF DrawSecond, TypeInv, TypeOK
  <2>4. Lifecycle'
    BY <1>5 DEF DrawSecond, TypeInv, TypeOK, Lifecycle
  <2>5. QED
    BY <2>3, <2>4 DEF TypeInv
<1>6. CASE Post(r)
  <2>1. TypeOK'
    BY <1>6 DEF Post, TypeInv, TypeOK
  <2>2. Lifecycle'
    BY <1>6 DEF Post, TypeInv, TypeOK, Lifecycle
  <2>3. QED
    BY <2>1, <2>2 DEF TypeInv
<1>7. CASE Clear(r)
  <2>1. framePrepared' \in BOOLEAN
    BY <1>7 DEF Clear
  <2>2. TypeOK'
    BY <1>7, <2>1 DEF Clear, TypeInv, TypeOK
  <2>3. Lifecycle'
    BY <1>7 DEF Clear, TypeInv, TypeOK, Lifecycle
  <2>4. QED
    BY <2>2, <2>3 DEF TypeInv
<1>8. QED
  BY <1>1, <1>2, <1>3, <1>4, <1>5, <1>6, <1>7 DEF Render

\* The step of a Capture thread.
LEMMA CaptureTypes ==
  ASSUME TypeInv, NEW k \in DOMAIN captures, Capture(k)
  PROVE  TypeInv'
<1> USE DEF uiVars, decVars, drwVars
<1>1. captures[k] \in CaptureThread /\ captureBitmap \in Picture \cup {None}
  BY DEF TypeInv, TypeOK
<1>2. [captures[k] EXCEPT !.done = TRUE, !.saved = captureBitmap] \in CaptureThread
  BY <1>1 DEF CaptureThread
<1>3. captures' = [captures EXCEPT ![k] = [captures[k] EXCEPT !.done = TRUE,
                                                            !.saved = captureBitmap]]
  BY DEF Capture
<1>4. captures' \in Seq(CaptureThread)
  BY <1>2, <1>3 DEF TypeInv, TypeOK
<1>5. TypeOK'
  BY <1>4 DEF Capture, TypeInv, TypeOK
<1>6. Lifecycle'
  BY DEF Capture, TypeInv, Lifecycle
<1>7. QED
  BY <1>5, <1>6 DEF TypeInv

\* Every step keeps the types and the life of the threads.
LEMMA TypeStep == TypeInv /\ [Next]_vars => TypeInv'
<1> SUFFICES ASSUME TypeInv, [Next]_vars PROVE TypeInv'
  OBVIOUS
<1>1. CASE UNCHANGED vars
  BY <1>1 DEF vars, uiVars, decVars, drwVars, capVars, TypeInv, TypeOK, Lifecycle
<1>2. CASE Next
  BY <1>2, UiTypes, DecodeTypes, RenderTypes, CaptureTypes DEF Next
<1>3. QED
  BY <1>1, <1>2

\* Every variable keeps its type, and no thread runs before it was started.
THEOREM TypeCorrect == Spec => []TypeOK
<1>1. TypeInv => TypeOK
  BY DEF TypeInv
<1>2. QED
  BY TypeInit, TypeStep, <1>1, PTL DEF Spec

----------------------------------------------------------------------------
(* The hand-over between one Decode thread and one render thread.          *)

\* With one of each, whichever thread runs is the first of its kind.
LEMMA OnlyOne ==
  ASSUME TypeInv, SinglePair
  PROVE  /\ 1 \in Session
         /\ \A s \in Session : dpc[s] # "off" => s = 1 /\ sessions = 1
         /\ \A r \in Renderer : rpc[r] # "off" =>
              r = 1 /\ renderers = 1 /\ sessions = 1 /\ viewBitmap = 1
<1>1. sessions \in 0..1 /\ renderers \in 0..1 /\ 1 \in Session
  <2>1. sessions \in 0..MaxSessions /\ renderers \in 0..MaxRenderers
    BY DEF TypeInv, TypeOK
  <2>2. 1 \in Session
    BY BoundsAssumption DEF BoundsAssumption, Session
  <2>3. QED
    BY <2>1, <2>2, BoundsAssumption DEF BoundsAssumption, SinglePair
<1>2. ASSUME NEW s \in Session, dpc[s] # "off" PROVE s = 1 /\ sessions = 1
  BY <1>1, <1>2 DEF TypeInv, Lifecycle, Session
<1>3. ASSUME NEW r \in Renderer, rpc[r] # "off"
      PROVE  r = 1 /\ renderers = 1 /\ sessions = 1 /\ viewBitmap = 1
  <2>1. r = 1 /\ renderers = 1
    BY <1>1, <1>3 DEF TypeInv, Lifecycle, Renderer
  <2>2. QED
    BY <1>1, <2>1 DEF TypeInv, TypeOK, Lifecycle
<1>4. QED
  BY <1>1, <1>2, <1>3

\* Sessions and render threads are only ever added.
LEMMA SinglePairBefore ==
  ASSUME TypeInv, [Next]_vars, SinglePair'
  PROVE  SinglePair
<1>1. sessions \in Nat /\ renderers \in Nat
  BY BoundsAssumption DEF BoundsAssumption, TypeInv, TypeOK
<1>2. \/ UNCHANGED <<sessions, renderers>>
      \/ sessions' = sessions + 1 /\ UNCHANGED renderers
      \/ renderers' = renderers + 1 /\ UNCHANGED sessions
  <2>1. CASE UNCHANGED vars
    BY <2>1 DEF vars, uiVars
  <2>2. CASE SurfaceCreated \/ SurfaceChanged \/ SurfaceDestroyed \/ Click
    BY <2>2 DEF SurfaceCreated, SurfaceChanged, SurfaceDestroyed, Click, uiVars
  <2>3. ASSUME NEW s \in Session, Decode(s) PROVE UNCHANGED <<sessions, renderers>>
    BY <2>3 DEF Decode, StartFrame, DropFrame, Convert, CopyFirst, CopySecond, Grab, Publish,
       Trigger, Spawn, uiVars
  <2>4. ASSUME NEW r \in Renderer, Render(r) PROVE UNCHANGED <<sessions, renderers>>
    BY <2>4 DEF Render, Poll, Lock, DrawOnNull, DrawFirst, DrawSecond, Post, Clear, uiVars
  <2>5. ASSUME NEW k \in DOMAIN captures, Capture(k) PROVE UNCHANGED <<sessions, renderers>>
    BY <2>5 DEF Capture, uiVars
  <2>6. QED
    BY <2>1, <2>2, <2>3, <2>4, <2>5 DEF Next
<1>3. QED
  BY <1>1, <1>2 DEF SinglePair

\* No callback of the UI thread disturbs the hand-over.
LEMMA HandOverUi ==
  ASSUME TypeInv, TypeInv', SinglePair, Protocol,
         SurfaceCreated \/ SurfaceChanged \/ SurfaceDestroyed \/ Click
  PROVE  Protocol'
<1> USE OnlyOne DEF Protocol, Turns, Written, Drawn, Fresh, Whole, Half, Writing, uiVars, decVars, drwVars, capVars
<1>1. CASE SurfaceCreated
  BY <1>1 DEF SurfaceCreated, TypeInv, TypeOK, Picture
<1>2. CASE SurfaceChanged
  BY <1>2 DEF SurfaceChanged, TypeInv, TypeOK, Picture
<1>3. CASE SurfaceDestroyed
  BY <1>3 DEF SurfaceDestroyed, TypeInv, TypeOK, Picture
<1>4. CASE Click
  BY <1>4 DEF Click, TypeInv, TypeOK, Picture
<1>5. QED
  BY <1>1, <1>2, <1>3, <1>4

\* The Decode thread keeps the hand-over: it writes only while the flag is down.
LEMMA HandOverDecode ==
  ASSUME TypeInv, TypeInv', SinglePair, Protocol, NEW s \in Session, Decode(s)
  PROVE  Protocol'
<1> USE OnlyOne DEF Protocol, Turns, Written, Drawn, Fresh, Whole, Half, Writing, At, GoTo, Current, uiVars, decVars,
        drwVars, capVars
<1>1. CASE StartFrame(s)
  BY <1>1 DEF StartFrame, TypeInv, TypeOK, Picture
<1>2. CASE DropFrame(s)
  BY <1>2 DEF DropFrame, TypeInv, TypeOK, Picture
<1>3. ASSUME NEW h \in Half, Convert(s, h) PROVE Protocol'
  BY <1>3 DEF Convert, TypeInv, TypeOK, Picture
<1>4. CASE CopyFirst(s)
  BY <1>4 DEF CopyFirst, TypeInv, TypeOK, Picture
<1>5. CASE CopySecond(s)
  BY <1>5 DEF CopySecond, TypeInv, TypeOK, Picture
<1>6. CASE Grab(s)
  BY <1>6 DEF Grab, TypeInv, TypeOK, Picture
<1>7. CASE Publish(s)
  <2>1. Turns'
    BY <1>7 DEF Publish, TypeInv, TypeOK, Picture
  <2>2. Written'
    <3>0. dpc = [x \in Session |-> dpc[x]]
      BY DEF TypeInv, TypeOK
    <3>1. s = 1 /\ dpc[1] = "publish" /\ dpc'[1] = "trigger" /\ bitmap' = bitmap /\ frame' = frame
      <4>1. dpc[s] = "publish" /\ dpc' = [dpc EXCEPT ![s] = "trigger"]
        BY <1>7 DEF Publish
      <4>2. bitmap' = bitmap /\ frame' = frame
        BY <1>7 DEF Publish
      <4>3. s = 1
        BY <4>1
      <4>4. QED
        BY <3>0, <4>1, <4>2, <4>3
    <3>2. bitmap[1][1] = <<1, frame[1]>> /\ bitmap[1][2] = <<1, frame[1]>>
      BY <3>1
    <3>3. QED
      BY <3>1, <3>2
  <2>3. Drawn'
    BY <1>7 DEF Publish, TypeInv, TypeOK, Picture
  <2>4. QED
    BY <2>1, <2>2, <2>3
<1>8. CASE Trigger(s)
  BY <1>8 DEF Trigger, TypeInv, TypeOK, Picture
<1>9. CASE Spawn(s)
  BY <1>9 DEF Spawn, TypeInv, TypeOK, Picture
<1>10. QED
  BY <1>1, <1>2, <1>3, <1>4, <1>5, <1>6, <1>7, <1>8, <1>9 DEF Decode

\* The render thread keeps the hand-over: it reads only while the flag is up.
LEMMA HandOverRender ==
  ASSUME TypeInv, TypeInv', SinglePair, Protocol, NEW r \in Renderer, Render(r)
  PROVE  Protocol'
<1> USE OnlyOne DEF Protocol, Turns, Written, Drawn, Fresh, Whole, Half, Writing, In, uiVars, decVars, drwVars, capVars
<1>1. CASE Poll(r)
  BY <1>1 DEF Poll, TypeInv, TypeOK, Picture
<1>2. CASE Lock(r)
  <2>1. Turns'
    BY <1>2 DEF Lock, TypeInv, TypeOK, Picture
  <2>2. Written'
    BY <1>2 DEF Lock, TypeInv, TypeOK, Picture
  <2>3. Drawn'
    BY <1>2 DEF Lock, TypeInv, TypeOK, Picture
  <2>4. QED
    BY <2>1, <2>2, <2>3
<1>3. CASE DrawOnNull(r)
  BY <1>3 DEF DrawOnNull, TypeInv, TypeOK, Picture
<1>4. CASE DrawFirst(r)
  BY <1>4 DEF DrawFirst, TypeInv, TypeOK, Picture
<1>5. CASE DrawSecond(r)
  <2>1. Turns'
    BY <1>5 DEF DrawSecond, TypeInv, TypeOK, Picture
  <2>2. Written'
    BY <1>5 DEF DrawSecond, TypeInv, TypeOK, Picture
  <2>3. Drawn'
    <3>1. r = 1 /\ renderers = 1 /\ source[1] = 1 /\ pic[1][1] = <<1, frame[1]>>
      BY <1>5 DEF DrawSecond
    <3>2. bitmap[1][2] = <<1, frame[1]>>
      BY <1>5 DEF DrawSecond
    <3>3. pic' = [pic EXCEPT ![1] = [pic[1] EXCEPT ![2] = <<1, frame[1]>>]]
      BY <1>5, <3>1, <3>2 DEF DrawSecond
    <3>4. pic'[1] = [pic[1] EXCEPT ![2] = <<1, frame[1]>>] /\ pic[1] \in [Half -> Frame]
      BY <3>1, <3>3 DEF TypeInv, TypeOK, Picture
    <3>5. pic'[1] = [h \in Half |-> <<1, frame[1]>>]
      BY <3>1, <3>4
    <3>6. rpc'[1] = "post" /\ shown' = shown /\ frame' = frame
      BY <1>5, <3>1 DEF DrawSecond, TypeInv, TypeOK
    <3>7. \A q \in Renderer : q # 1 => rpc'[q] = "off"
      BY <1>5, <3>1 DEF DrawSecond, TypeInv, TypeOK
    <3>8. QED
      BY <3>5, <3>6, <3>7
  <2>4. QED
    BY <2>1, <2>2, <2>3
<1>6. CASE Post(r)
  <2>1. Turns'
    BY <1>6 DEF Post, TypeInv, TypeOK, Picture
  <2>2. Written'
    BY <1>6 DEF Post, TypeInv, TypeOK, Picture
  <2>3. Drawn'
    <3>1. r = 1 /\ renderers = 1 /\ pic[1] = [h \in Half |-> <<1, frame[1]>>]
      BY <1>6 DEF Post
    <3>2. rpc'[1] = "clear" /\ shown' = pic[1] /\ frame' = frame
      BY <1>6, <3>1 DEF Post, TypeInv, TypeOK
    <3>3. \A q \in Renderer : q # 1 => rpc'[q] = "off"
      BY <1>6, <3>1 DEF Post, TypeInv, TypeOK
    <3>4. QED
      BY <3>1, <3>2, <3>3
  <2>4. QED
    BY <2>1, <2>2, <2>3
<1>7. CASE Clear(r)
  BY <1>7 DEF Clear, TypeInv, TypeOK, Picture
<1>8. QED
  BY <1>1, <1>2, <1>3, <1>4, <1>5, <1>6, <1>7 DEF Render

\* Capture threads touch nothing of the hand-over.
LEMMA HandOverCapture ==
  ASSUME Protocol, NEW k \in DOMAIN captures, Capture(k)
  PROVE  Protocol'
  BY DEF Protocol, Turns, Written, Drawn, Fresh, Capture, uiVars, decVars, drwVars

\* At the start nothing has been written and the flag is down.
LEMMA HandOverInit == Init => HandOver
<1> SUFFICES ASSUME Init PROVE Protocol
  BY DEF HandOver
<1>1. 1 \in Session
  BY BoundsAssumption DEF BoundsAssumption, Session
<1>2. dpc[1] = "off" /\ ~framePrepared /\ (\A r \in Renderer : rpc[r] = "off")
  BY <1>1 DEF Init
<1>3. Turns /\ Written
  BY <1>2 DEF Turns, Written, Writing
<1>4. Drawn
  BY <1>2 DEF Init, Drawn, Whole, BlankPicture, Half
<1>5. QED
  BY <1>3, <1>4 DEF Protocol

\* Every step keeps the hand-over, as long as there is one thread of each kind.
LEMMA HandOverStep == TypeInv /\ HandOver /\ [Next]_vars => HandOver'
<1> SUFFICES ASSUME TypeInv, HandOver, [Next]_vars, SinglePair' PROVE Protocol'
  BY DEF HandOver
<1>1. TypeInv' /\ SinglePair /\ Protocol
  BY TypeStep, SinglePairBefore DEF HandOver
<1>2. CASE UNCHANGED vars
  BY <1>1, <1>2 DEF Protocol, Turns, Written, Drawn, Fresh, vars, uiVars, decVars, drwVars
<1>3. CASE Next
  BY <1>1, <1>3, HandOverUi, HandOverDecode, HandOverRender, HandOverCapture DEF Next
<1>4. QED
  BY <1>2, <1>3

\* The inductive invariant holds throughout.
THEOREM Invariance == Spec => []IInv
<1>1. Init => TypeInv /\ HandOver
  BY TypeInit, HandOverInit
<1>2. TypeInv /\ HandOver /\ [Next]_vars => TypeInv' /\ HandOver'
  BY TypeStep, HandOverStep
<1>3. TypeInv /\ HandOver <=> IInv
  BY DEF TypeInv, IInv
<1>4. QED
  BY <1>1, <1>2, <1>3, PTL DEF Spec

\* No picture on the screen mixes two frames (lines 384-395 of StreamCodec.java
\* against lines 53-55 of MySurfaceView.java).
THEOREM NeverTorn == Spec => []NoTornPicture
<1>1. IInv => NoTornPicture
  BY DEF IInv, HandOver, Protocol, Drawn, NoTornPicture
<1>2. QED
  BY Invariance, <1>1, PTL

\* A step that takes the flag down is a render thread's, after it has posted
\* the newest frame.
LEMMA OnlyClearLowers ==
  ASSUME TypeInv, [Next]_vars, framePrepared, ~framePrepared'
  PROVE  \E r \in Renderer : Clear(r)
<1>1. Next
  BY DEF vars
<1>2. ~(SurfaceCreated \/ SurfaceChanged \/ SurfaceDestroyed \/ Click)
  BY DEF SurfaceCreated, SurfaceChanged, SurfaceDestroyed, Click
<1>3. ~ \E s \in Session : Decode(s)
  BY DEF Decode, StartFrame, DropFrame, Convert, CopyFirst, CopySecond, Grab, Publish,
     Trigger, Spawn
<1>4. ~ \E k \in DOMAIN captures : Capture(k)
  BY DEF Capture
<1>5. PICK r \in Renderer : Render(r)
  BY <1>1, <1>2, <1>3, <1>4 DEF Next
<1>6. Clear(r)
  BY <1>5 DEF Render, Poll, Lock, DrawOnNull, DrawFirst, DrawSecond, Post
<1>7. QED
  BY <1>6

\* No frame is announced in vain: the flag comes down only when the frame it
\* announced is the picture on the screen (line 55 of MySurfaceView.java).
THEOREM NoneLost == Spec => NoFrameLost
<1>1. IInv /\ [Next]_vars =>
        [SinglePair' /\ framePrepared /\ ~framePrepared' =>
           shown = [h \in Half |-> <<1, frame[1]>>]]_framePrepared
  <2> SUFFICES ASSUME IInv, [Next]_vars, SinglePair', framePrepared, ~framePrepared'
               PROVE  shown = [h \in Half |-> <<1, frame[1]>>]
    OBVIOUS
  <2>1. TypeInv /\ Drawn
    BY SinglePairBefore DEF IInv, TypeInv, HandOver, Protocol
  <2>2. PICK r \in Renderer : Clear(r)
    BY <2>1, OnlyClearLowers
  <2>3. rpc[r] = "clear"
    BY <2>2 DEF Clear, In
  <2>4. QED
    BY <2>1, <2>3 DEF Drawn, Fresh
<1>2. QED
  BY <1>1, Invariance, PTL DEF Spec, NoFrameLost

----------------------------------------------------------------------------
(* Snapshots.                                                              *)

\* The clicks of the Capture threads are numbers.
LEMMA ThreadClicks ==
  ASSUME TypeInv
  PROVE  /\ captures \in Seq(CaptureThread)
         /\ \A k \in DOMAIN captures : captures[k] \in CaptureThread /\ captures[k].click \in Nat
         /\ clicks \in [Session -> Nat] /\ captureFrame \in [Session -> BOOLEAN]
<1>1. captures \in Seq(CaptureThread)
  BY DEF TypeInv, TypeOK
<1>2. \A c \in CaptureThread : c.click \in Nat
  BY BoundsAssumption DEF BoundsAssumption, CaptureThread
<1>3. \A k \in DOMAIN captures : captures[k] \in CaptureThread
  BY <1>1
<1>4. clicks \in [Session -> Nat]
  BY BoundsAssumption DEF BoundsAssumption, TypeInv, TypeOK
<1>5. QED
  BY <1>1, <1>2, <1>3, <1>4 DEF TypeInv, TypeOK

\* At the start there are no Capture threads and no requests.
LEMMA RequestsInit == Init => Requests
  BY DEF Init, Requests, Unserved, ClickServedOnce

\* Where neither a thread starts nor a click arrives, only a request moves a Decode
\* thread on to start one.
LEMMA RequestsStay ==
  ASSUME TypeInv, Requests, UNCHANGED <<clicks, captureFrame>>,
         DOMAIN captures' = DOMAIN captures,
         \A k \in DOMAIN captures : /\ captures'[k].session = captures[k].session
                                    /\ captures'[k].click = captures[k].click,
         \A t \in Session : dpc'[t] = "spawn" => dpc[t] = "spawn" \/ captureFrame[t]
  PROVE  Requests'
<1>1. \A k \in DOMAIN captures : k \in Nat /\ \A j \in 1..(k - 1) : j \in DOMAIN captures
  BY ThreadClicks
<1>2. ClickServedOnce'
  BY <1>1 DEF Requests, ClickServedOnce
<1>3. \A s \in Session : Unserved(s)'
  BY DEF Requests, Unserved
<1>4. QED
  BY <1>2, <1>3 DEF Requests

\* A click is newer than all that Capture threads have been started for.
LEMMA RequestsClick ==
  ASSUME TypeInv, Requests, Click
  PROVE  Requests'
<1>1. /\ sessions \in Session
      /\ clicks' = [clicks EXCEPT ![sessions] = clicks[sessions] + 1]
      /\ captureFrame' = [captureFrame EXCEPT ![sessions] = TRUE]
      /\ captures' = captures /\ dpc' = dpc
  BY DEF Click, TypeInv, TypeOK, Session, decVars
<1>2. ASSUME NEW s \in Session PROVE Unserved(s)'
  <2>1. Unserved(s)
    BY DEF Requests
  <2>2. CASE s = sessions
    <3>1. captureFrame'[s] /\ clicks'[s] = clicks[s] + 1 /\ clicks[s] \in Nat
      BY <1>1, <2>2, ThreadClicks
    <3>2. \A k \in DOMAIN captures : captures[k].session = s => captures[k].click < clicks'[s]
      BY <2>1, <3>1, ThreadClicks DEF Unserved
    <3>3. QED
      BY <1>1, <3>1, <3>2, ThreadClicks DEF Unserved
  <2>3. CASE s # sessions
    <3>1. captureFrame'[s] = captureFrame[s] /\ clicks'[s] = clicks[s]
      BY <1>1, <2>3, ThreadClicks
    <3>2. QED
      BY <1>1, <2>1, <3>1 DEF Unserved
  <2>4. QED
    BY <2>2, <2>3
<1>3. ClickServedOnce'
  BY <1>1 DEF Requests, ClickServedOnce
<1>4. QED
  BY <1>2, <1>3 DEF Requests

\* A Capture thread takes the request down, and gets the newest click.
LEMMA RequestsSpawn ==
  ASSUME TypeInv, Requests, NEW s \in Session, Spawn(s)
  PROVE  Requests'
<1> DEFINE n == Len(captures) + 1
           new == Started(s)
<1>1. /\ captures' = Append(captures, new)
      /\ captureFrame' = [captureFrame EXCEPT ![s] = FALSE]
      /\ dpc' = [dpc EXCEPT ![s] = "check"] /\ dpc = [t \in Session |-> dpc[t]]
      /\ clicks' = clicks
      /\ dpc[s] = "spawn"
  BY DEF Spawn, At, GoTo, TypeInv, TypeOK
<1>2. new.session = s /\ new.click = clicks[s]
  BY DEF Started
<1> HIDE DEF new
<1>3. /\ n \in Nat \ {0} /\ DOMAIN captures = 1..(n - 1) /\ DOMAIN captures' = 1..n
      /\ \A k \in 1..(n - 1) : captures'[k] = captures[k]
      /\ captures'[n] = new
  BY <1>1, ThreadClicks
<1> HIDE DEF n
<1>4. /\ captureFrame[s] /\ clicks[s] \in Nat /\ clicks[s] > 0
      /\ \A k \in 1..(n - 1) : captures[k].session = s => captures[k].click < clicks[s]
  BY <1>1, <1>3, ThreadClicks DEF Requests, Unserved
<1>5. ClickServedOnce'
  <2> SUFFICES ASSUME NEW k \in 1..n
               PROVE  /\ captures'[k].click > 0
                      /\ \A j \in 1..(k - 1) : captures'[j].session = captures'[k].session
                                                 => captures'[j].click < captures'[k].click
    BY <1>3 DEF ClickServedOnce
  <2>1. \A j \in 1..(k - 1) : j \in 1..(n - 1)
    BY <1>3
  <2>2. CASE k = n
    BY <1>2, <1>3, <1>4, <2>1, <2>2
  <2>3. CASE k # n
    <3>1. k \in 1..(n - 1)
      BY <1>3, <2>3
    <3>2. QED
      BY <1>3, <2>1, <3>1 DEF Requests, ClickServedOnce
  <2>4. QED
    BY <2>2, <2>3
<1>6. ASSUME NEW t \in Session PROVE Unserved(t)'
  <2>1. Unserved(t)
    BY DEF Requests
  <2>2. \A k \in 1..n : captures'[k].session = t => captures'[k].click <= clicks[t]
    <3>1. \A k \in 1..(n - 1) : captures[k].session = t => captures[k].click <= clicks[t]
      BY <1>3, <2>1 DEF Unserved
    <3>2. new.session = t => new.click <= clicks[t]
      BY <1>2, <1>4
    <3>3. QED
      BY <1>3, <3>1, <3>2
  <2>3. CASE t = s
    <3>1. ~captureFrame'[t] /\ dpc'[t] = "check"
      BY <1>1, <2>3, ThreadClicks
    <3>2. QED
      BY <1>1, <1>3, <2>2, <3>1 DEF Unserved
  <2>4. CASE t # s
    <3>1. captureFrame'[t] = captureFrame[t] /\ dpc'[t] = dpc[t]
      BY <1>1, <2>4, ThreadClicks
    <3>2. \A k \in 1..n : captures'[k].session = t => k \in 1..(n - 1) /\ captures'[k] = captures[k]
      BY <1>2, <1>3, <2>4
    <3>3. QED
      BY <1>1, <1>3, <2>1, <2>2, <3>1, <3>2 DEF Unserved
  <2>5. QED
    BY <2>3, <2>4
<1>7. QED
  BY <1>5, <1>6 DEF Requests

\* Every step keeps the books of requests: only clicks and Spawn touch them.
LEMMA RequestsStep == TypeInv /\ Requests /\ [Next]_vars => Requests'
<1> SUFFICES ASSUME TypeInv, Requests, [Next]_vars PROVE Requests'
  OBVIOUS
<1>1. dpc = [t \in Session |-> dpc[t]]
  BY DEF TypeInv, TypeOK
<1>2. ASSUME NEW s \in Session, Decode(s), ~Spawn(s) PROVE Requests'
  <2>1. UNCHANGED <<captures, clicks, captureFrame>>
    BY <1>2 DEF Decode, StartFrame, DropFrame, Convert, CopyFirst, CopySecond, Grab, Publish,
       Trigger, capVars
  <2>2. \A t \in Session : dpc'[t] = "spawn" => dpc[t] = "spawn" \/ captureFrame[t]
    BY <1>1, <1>2 DEF Decode, StartFrame, DropFrame, Convert, CopyFirst, CopySecond, Grab,
       Publish, Trigger, GoTo, At
  <2>3. QED
    BY <2>1, <2>2, RequestsStay
<1>3. ASSUME NEW k \in DOMAIN captures, Capture(k) PROVE Requests'
  <2>1. captures' = [captures EXCEPT ![k] = [captures[k] EXCEPT !.done = TRUE,
                                                              !.saved = captureBitmap]]
    BY <1>3 DEF Capture
  <2>2. DOMAIN captures' = DOMAIN captures
    BY <2>1
  <2>3. \A j \in DOMAIN captures : /\ captures'[j].session = captures[j].session
                                   /\ captures'[j].click = captures[j].click
    BY <2>1, ThreadClicks DEF CaptureThread
  <2>4. UNCHANGED <<clicks, captureFrame, dpc>>
    BY <1>3 DEF Capture, decVars
  <2>5. QED
    BY <2>2, <2>3, <2>4, RequestsStay
<1>4. ASSUME \/ SurfaceCreated \/ SurfaceChanged \/ SurfaceDestroyed
             \/ \E r \in Renderer : Render(r)
             \/ UNCHANGED vars
      PROVE  Requests'
  <2>1. UNCHANGED <<captures, clicks, captureFrame>>
    BY <1>4 DEF SurfaceCreated, SurfaceChanged, SurfaceDestroyed, Render, Poll, Lock, DrawOnNull,
       DrawFirst, DrawSecond, Post, Clear, vars, capVars
  <2>2. dpc' = dpc \/ dpc' = [dpc EXCEPT ![sessions + 1] = "check"]
    BY <1>4 DEF SurfaceCreated, SurfaceChanged, SurfaceDestroyed, Render, Poll, Lock, DrawOnNull,
       DrawFirst, DrawSecond, Post, Clear, vars, decVars
  <2>3. \A t \in Session : dpc'[t] = "spawn" => dpc[t] = "spawn"
    BY <1>1, <2>2
  <2>4. QED
    BY <2>1, <2>3, RequestsStay
<1>5. QED
  BY <1>2, <1>3, <1>4, RequestsClick, RequestsSpawn DEF Next

\* However clicks and frames fall, each Capture thread of a session serves a click
\* that no thread before it has served (lines 392-400 of StreamCodec.java).
THEOREM ServedAtMostOnce == Spec => []ClickServedOnce
<1>1. Requests => ClickServedOnce
  BY DEF Requests
<1>2. Init => TypeInv /\ Requests
  BY TypeInit, RequestsInit
<1>3. TypeInv /\ Requests /\ [Next]_vars => TypeInv' /\ Requests'
  BY TypeStep, RequestsStep
<1>4. QED
  BY <1>1, <1>2, <1>3, PTL DEF Spec

----------------------------------------------------------------------------
(* Several sessions on one brgb and one bitmap: old pixels do not come back. *)

\* Frames are numbered.
LEMMA FrameNumbers == \A f \in Frame : f[2] \in Nat
<1>. SUFFICES ASSUME NEW f \in Frame PROVE f[2] \in Nat
  OBVIOUS
<1>1. CASE f = <<0, 0>>
  BY <1>1
<1>2. CASE f \in Session \X (1..MaxFrames)
  BY <1>2, BoundsAssumption DEF BoundsAssumption
<1>. QED  BY <1>1, <1>2 DEF Frame, Blank

\* Pixels are numbered by frames, and those never written belong to no session.
LEMMA PixelFacts ==
  ASSUME TypeInv
  PROVE  /\ frame \in [Session -> Nat] /\ target \in [Session -> Session] /\ sessions \in Nat
         /\ \A s \in Session : s \in Nat
         /\ \A h \in Half : brgb[h][2] \in Nat
         /\ \A b \in Session, h \in Half : bitmap[b][h][2] \in Nat
         /\ \A s \in Session, h \in Half : \A n : AtLeast(BlankPicture[h], s, n)
<1>1. \A f \in Frame : f[2] \in Nat
  BY FrameNumbers
<1>2. \A h \in Half : brgb[h] \in Frame
  BY DEF TypeInv, TypeOK, Picture
<1>3. \A b \in Session, h \in Half : bitmap[b][h] \in Frame
  BY DEF TypeInv, TypeOK, Picture
<1>4. frame \in [Session -> Nat] /\ target \in [Session -> Session] /\ sessions \in Nat
  BY BoundsAssumption DEF BoundsAssumption, TypeInv, TypeOK
<1>5. \A s \in Session : s \in Nat /\ s # 0
  BY BoundsAssumption DEF BoundsAssumption, Session
<1>6. \A s \in Session, h \in Half : \A n : AtLeast(BlankPicture[h], s, n)
  BY <1>5 DEF AtLeast, BlankPicture, Blank
<1>. QED  BY <1>1, <1>2, <1>3, <1>4, <1>5, <1>6

\* A frame is converted before it is copied, and copied by halves.
LEMMA PassedInOrder ==
  ASSUME TypeInv, NEW s \in Session, NEW h \in Half, NEW b
  PROVE  /\ FramesCopied(s) \in Int /\ HalfPassed(s, h, b) \in Int /\ Converted(s, h) \in Int
         /\ FramesCopied(s) <= HalfPassed(s, h, b) /\ HalfPassed(s, h, b) <= Converted(s, h)
<1>1. frame[s] \in Nat /\ h \in {1, 2}
  BY PixelFacts DEF Half
<1>. QED  BY <1>1 DEF FramesCopied, HalfPassed, Passed, Converted

\* At the start all is blank.
LEMMA GoneInit == Init => TypeInv /\ Gone
<1>. SUFFICES ASSUME Init PROVE Gone
  BY TypeInit
<1>1. TypeInv
  BY TypeInit
<1>2. brgb = BlankPicture /\ bitmap = [s \in Session |-> BlankPicture]
      /\ target = [s \in Session |-> s]
  BY DEF Init
<1>. QED  BY <1>1, <1>2, PixelFacts DEF Gone

\* A step that leaves the bitmaps, and how far each session is with them, alone.
LEMMA GoneKept ==
  ASSUME Gone, UNCHANGED <<bitmap, target, sessions>>,
         \A s \in Session, h \in Half, b \in Session : HalfPassed(s, h, b)' = HalfPassed(s, h, b),
         \A s \in Session, h \in Half : AtLeast(brgb'[h], s, Converted(s, h)')
  PROVE  Gone'
  BY DEF Gone

\* Threads that move between places at which nothing is written.
Quiet == {"check", "sleep", "grab", "publish", "trigger", "spawn"}

LEMMA GoneQuiet ==
  ASSUME Gone, UNCHANGED <<bitmap, brgb, target, sessions, frame>>,
         \A t \in Session : dpc'[t] = dpc[t] \/ (dpc[t] \in Quiet /\ dpc'[t] \in Quiet)
  PROVE  Gone'
<1>1. \A s \in Session, h \in Half, b \in Session : HalfPassed(s, h, b)' = HalfPassed(s, h, b)
  BY DEF HalfPassed, Passed, Quiet
<1>2. \A s \in Session, h \in Half : Converted(s, h)' = Converted(s, h)
  BY DEF Converted, Quiet
<1>3. \A s \in Session, h \in Half : AtLeast(brgb'[h], s, Converted(s, h)')
  BY <1>2 DEF Gone
<1>. QED  BY <1>1, <1>3, GoneKept

\* A new frame has passed no more than the one before it had.
LEMMA GoneStartFrame ==
  ASSUME TypeInv, Gone, NEW s \in Session, StartFrame(s)
  PROVE  Gone'
<1>1. /\ UNCHANGED <<bitmap, brgb, target, sessions>>
      /\ frame'[s] = frame[s] + 1 /\ frame[s] \in Nat
      /\ dpc[s] = "check" /\ dpc'[s] = "convert1"
      /\ \A t \in Session \ {s} : frame'[t] = frame[t] /\ dpc'[t] = dpc[t]
  BY PixelFacts DEF StartFrame, At, GoTo, uiVars, TypeInv, TypeOK
<1>2. ASSUME NEW t \in Session, NEW h \in Half, NEW b \in Session
      PROVE  HalfPassed(t, h, b)' = HalfPassed(t, h, b) /\ Converted(t, h)' = Converted(t, h)
  <2>1. CASE t = s
    BY <1>1, <2>1 DEF HalfPassed, Passed, Converted
  <2>2. CASE t # s
    BY <1>1, <2>2 DEF HalfPassed, Passed, Converted
  <2>. QED  BY <2>1, <2>2
<1>3. \A t \in Session, h \in Half : AtLeast(brgb'[h], t, Converted(t, h)')
  BY <1>1, <1>2 DEF Gone
<1>. QED  BY <1>1, <1>2, <1>3, GoneKept

\* Converting overwrites a half of brgb with the frame in work.
LEMMA GoneConvert ==
  ASSUME TypeInv, Gone, NEW s \in Session, NEW h \in Half, Convert(s, h)
  PROVE  Gone'
<1>1. /\ UNCHANGED <<bitmap, target, sessions, frame>>
      /\ dpc[s] = (IF h = 1 THEN "convert1" ELSE "convert2")
      /\ dpc'[s] = (IF h = 1 THEN "convert2" ELSE "copy1")
      /\ \A t \in Session \ {s} : dpc'[t] = dpc[t]
  BY DEF Convert, At, GoTo, uiVars, TypeInv, TypeOK
<1>2. /\ brgb'[h] = <<s, frame[s]>>
      /\ \A g \in Half \ {h} : brgb'[g] = brgb[g]
  BY DEF Convert, Current, TypeInv, TypeOK, Picture
<1>3. \A t \in Session, g \in Half, b \in Session : HalfPassed(t, g, b)' = HalfPassed(t, g, b)
  BY <1>1 DEF HalfPassed, Passed
<1>4. ASSUME NEW t \in Session, NEW g \in Half
      PROVE  AtLeast(brgb'[g], t, Converted(t, g)')
  <2>1. frame[t] \in Nat
    BY PixelFacts
  <2>2. CASE g = h
    <3>1. Converted(t, g)' <= frame[t]
      BY <1>1, <2>1 DEF Converted
    <3>. QED  BY <1>2, <2>1, <2>2, <3>1 DEF AtLeast
  <2>3. CASE g # h
    <3>1. Converted(t, g)' = Converted(t, g)
      BY <1>1, <2>3 DEF Converted, Half
    <3>. QED  BY <1>2, <2>3, <3>1 DEF Gone
  <2>. QED  BY <2>2, <2>3
<1>. QED  BY <1>1, <1>3, <1>4, GoneKept

\* The bitmap of a new session is blank.
LEMMA GoneCreated ==
  ASSUME TypeInv, Gone, SurfaceCreated
  PROVE  Gone'
<1>. DEFINE n == sessions + 1
<1>1. /\ sessions \in Nat /\ n \in Session /\ sessions' = n
      /\ UNCHANGED <<bitmap, brgb, target, frame>>
      /\ dpc' = [dpc EXCEPT ![n] = "check"]
  <2>1. sessions \in Nat /\ sessions < MaxSessions
    BY PixelFacts DEF SurfaceCreated
  <2>2. n \in Session
    BY <2>1, BoundsAssumption DEF BoundsAssumption, Session
  <2>3. /\ sessions' = n
        /\ UNCHANGED <<bitmap, brgb, target, frame>>
        /\ dpc' = [dpc EXCEPT ![n] = "check"]
    BY DEF SurfaceCreated
  <2>. QED  BY <2>1, <2>2, <2>3
<1>2. /\ dpc[n] = "off" /\ dpc'[n] = "check"
      /\ \A t \in Session \ {n} : dpc'[t] = dpc[t]
  BY <1>1 DEF TypeInv, TypeOK, Lifecycle
<1>. HIDE DEF n
<1>3. \A t \in Session, h \in Half, b \in Session :
        HalfPassed(t, h, b)' = HalfPassed(t, h, b) /\ Converted(t, h)' = Converted(t, h)
  BY <1>1, <1>2 DEF HalfPassed, Passed, Converted
<1>4. \A t \in Session, h \in Half : AtLeast(brgb'[h], t, Converted(t, h)')
  BY <1>1, <1>3 DEF Gone
<1>5. n > sessions /\ \A b \in Session : b > n => b > sessions
  BY <1>1, PixelFacts DEF n
<1>6. ASSUME NEW t \in Session, NEW h \in Half, NEW b \in Session, b = target[t] \/ b = n
      PROVE  AtLeast(bitmap[b][h], t, HalfPassed(t, h, b))
  <2>1. CASE b = n
    BY <1>1, <1>5, <2>1, PixelFacts DEF Gone
  <2>2. CASE b = target[t]
    BY <2>2 DEF Gone
  <2>. QED  BY <1>6, <2>1, <2>2
<1>7. \A b \in Session : b > n => bitmap[b] = BlankPicture
  BY <1>5 DEF Gone
<1>8. \A t \in Session : target[t] <= n \/ target[t] = t
  BY <1>1, PixelFacts DEF Gone, n
<1>. QED  BY <1>1, <1>3, <1>4, <1>6, <1>7, <1>8 DEF Gone

\* The first half copied goes to the newest bitmap, from now on the target.
LEMMA GoneCopyFirst ==
  ASSUME TypeInv, Gone, NEW s \in Session, CopyFirst(s)
  PROVE  Gone'
<1>1. /\ UNCHANGED <<sessions, brgb, frame>>
      /\ dpc[s] = "copy1" /\ dpc'[s] = "copy2"
      /\ target'[s] = sessions
      /\ \A t \in Session \ {s} : dpc'[t] = dpc[t] /\ target'[t] = target[t]
  BY DEF CopyFirst, At, GoTo, uiVars, TypeInv, TypeOK
<1>2. sessions \in Session
  <2>1. s <= sessions
    BY <1>1 DEF TypeInv, Lifecycle
  <2>. QED  BY <2>1, BoundsAssumption DEF BoundsAssumption, Session, TypeInv, TypeOK
<1>3. /\ bitmap'[sessions][1] = brgb[1] /\ bitmap'[sessions][2] = bitmap[sessions][2]
      /\ \A b \in Session \ {sessions} : bitmap'[b] = bitmap[b]
  BY <1>2 DEF CopyFirst, TypeInv, TypeOK, Picture, Half
<1>4. \A t \in Session, h \in Half : Converted(t, h)' = Converted(t, h)
  BY <1>1 DEF Converted
<1>5. \A t \in Session \ {s}, h \in Half, b \in Session : HalfPassed(t, h, b)' = HalfPassed(t, h, b)
  BY <1>1 DEF HalfPassed, Passed
<1>6. \A h \in Half, b \in Session :
        h = 2 /\ b = sessions => HalfPassed(s, h, b)' = HalfPassed(s, h, b)
  BY <1>1 DEF HalfPassed, Passed
<1>7. \A t \in Session, h \in Half, b \in Session :
        h = 1 => HalfPassed(t, h, b)' <= Converted(t, h) /\ HalfPassed(t, h, b)' \in Int
  BY <1>1, PixelFacts DEF HalfPassed, Passed, Converted
<1>8. ASSUME NEW t \in Session, NEW h \in Half, NEW b \in Session, b = target'[t] \/ b = sessions
      PROVE  AtLeast(bitmap'[b][h], t, HalfPassed(t, h, b)')
  <2>1. CASE b = sessions /\ h = 1
    <3>1. bitmap'[b][h] = brgb[h] /\ AtLeast(brgb[h], t, Converted(t, h))
      BY <1>3, <2>1 DEF Gone
    <3>2. brgb[h][2] \in Nat /\ Converted(t, h) \in Int
      BY PixelFacts DEF Converted
    <3>3. HalfPassed(t, h, b)' <= Converted(t, h) /\ HalfPassed(t, h, b)' \in Int
      BY <1>7, <2>1
    <3>. QED  BY <3>1, <3>2, <3>3 DEF AtLeast
  <2>2. CASE b = sessions /\ h = 2
    <3>1. bitmap'[b][h] = bitmap[b][h] /\ AtLeast(bitmap[b][h], t, HalfPassed(t, h, b))
      BY <1>3, <2>2 DEF Gone
    <3>2. HalfPassed(t, h, b)' = HalfPassed(t, h, b)
      BY <1>5, <1>6, <2>2
    <3>. QED  BY <3>1, <3>2
  <2>3. CASE b # sessions
    <3>1. t # s /\ b = target[t]
      BY <1>1, <1>8, <2>3
    <3>2. AtLeast(bitmap[b][h], t, HalfPassed(t, h, b))
      BY <3>1 DEF Gone
    <3>. QED  BY <1>3, <1>5, <2>3, <3>1, <3>2
  <2>. QED  BY <2>1, <2>2, <2>3 DEF Half
<1>9. \A t \in Session, h \in Half : AtLeast(brgb'[h], t, Converted(t, h)')
  BY <1>1, <1>4 DEF Gone
<1>10. \A b \in Session : b > sessions => bitmap'[b] = BlankPicture
  BY <1>2, <1>3, PixelFacts DEF Gone
<1>11. \A t \in Session : target'[t] <= sessions \/ target'[t] = t
  BY <1>1, PixelFacts DEF Gone
<1>. QED  BY <1>1, <1>8, <1>9, <1>10, <1>11 DEF Gone

\* The second half goes to the bitmap of the first, also when it is no longer the newest.
LEMMA GoneCopySecond ==
  ASSUME TypeInv, Gone, NEW s \in Session, CopySecond(s)
  PROVE  Gone'
<1>. DEFINE c == target[s]
<1>1. /\ UNCHANGED <<sessions, brgb, frame, target>>
      /\ dpc[s] = "copy2" /\ dpc'[s] = "grab"
      /\ \A t \in Session \ {s} : dpc'[t] = dpc[t]
  BY DEF CopySecond, At, GoTo, uiVars, TypeInv, TypeOK
<1>2. c \in Session /\ c <= sessions
  <2>1. s <= sessions
    BY <1>1 DEF TypeInv, Lifecycle
  <2>. QED  BY <2>1, PixelFacts DEF Gone
<1>3. /\ bitmap'[c][2] = brgb[2] /\ bitmap'[c][1] = bitmap[c][1]
      /\ \A b \in Session \ {c} : bitmap'[b] = bitmap[b]
  BY <1>2 DEF CopySecond, TypeInv, TypeOK, Picture, Half
<1>4. \A t \in Session, h \in Half : Converted(t, h)' = Converted(t, h)
  BY <1>1 DEF Converted
<1>5. \A t \in Session, h \in Half, b \in Session :
        ~(b = c /\ h = 2) => HalfPassed(t, h, b)' = HalfPassed(t, h, b)
  BY <1>1 DEF HalfPassed, Passed
<1>6. \A t \in Session, h \in Half, b \in Session :
        h = 2 => HalfPassed(t, h, b)' <= Converted(t, h) /\ HalfPassed(t, h, b)' \in Int
  BY <1>1, PixelFacts DEF HalfPassed, Passed, Converted
<1>. HIDE DEF c
<1>7. ASSUME NEW t \in Session, NEW h \in Half, NEW b \in Session, b = target[t] \/ b = sessions
      PROVE  AtLeast(bitmap'[b][h], t, HalfPassed(t, h, b)')
  <2>1. CASE b = c /\ h = 2
    <3>1. bitmap'[b][h] = brgb[h] /\ AtLeast(brgb[h], t, Converted(t, h))
      BY <1>3, <2>1 DEF Gone
    <3>2. brgb[h][2] \in Nat /\ Converted(t, h) \in Int
      BY PixelFacts DEF Converted
    <3>3. HalfPassed(t, h, b)' <= Converted(t, h) /\ HalfPassed(t, h, b)' \in Int
      BY <1>6, <2>1
    <3>. QED  BY <3>1, <3>2, <3>3 DEF AtLeast
  <2>2. CASE ~(b = c /\ h = 2)
    <3>1. bitmap'[b][h] = bitmap[b][h]
      BY <1>2, <1>3, <2>2 DEF Half
    <3>2. AtLeast(bitmap[b][h], t, HalfPassed(t, h, b))
      BY <1>7 DEF Gone
    <3>. QED  BY <1>5, <2>2, <3>1, <3>2
  <2>. QED  BY <2>1, <2>2
<1>8. \A t \in Session, h \in Half : AtLeast(brgb'[h], t, Converted(t, h)')
  BY <1>1, <1>4 DEF Gone
<1>9. \A b \in Session : b > sessions => bitmap'[b] = BlankPicture
  BY <1>2, <1>3, PixelFacts DEF Gone
<1>. QED  BY <1>1, <1>7, <1>8, <1>9 DEF Gone

\* Every step keeps old pixels away.
LEMMA GoneStep == TypeInv /\ Gone /\ [Next]_vars => Gone'
<1>. SUFFICES ASSUME TypeInv, Gone, [Next]_vars PROVE Gone'
  OBVIOUS
<1>1. dpc = [t \in Session |-> dpc[t]]
  BY DEF TypeInv, TypeOK
<1>2. ASSUME NEW s \in Session, DropFrame(s) \/ Grab(s) \/ Publish(s) \/ Trigger(s) \/ Spawn(s)
      PROVE  Gone'
  <2>1. UNCHANGED <<bitmap, brgb, target, sessions, frame>>
    BY <1>2 DEF DropFrame, Grab, Publish, Trigger, Spawn, uiVars
  <2>2. \A t \in Session : dpc'[t] = dpc[t] \/ (dpc[t] \in Quiet /\ dpc'[t] \in Quiet)
    BY <1>1, <1>2 DEF DropFrame, Grab, Publish, Trigger, Spawn, At, GoTo, Quiet
  <2>. QED  BY <2>1, <2>2, GoneQuiet
<1>3. ASSUME NEW s \in Session, Decode(s) PROVE Gone'
  BY <1>2, <1>3, GoneStartFrame, GoneConvert, GoneCopyFirst, GoneCopySecond DEF Decode
<1>4. ASSUME \/ SurfaceChanged \/ SurfaceDestroyed \/ Click
             \/ \E r \in Renderer : Render(r)
             \/ \E k \in DOMAIN captures : Capture(k)
             \/ UNCHANGED vars
      PROVE  Gone'
  <2>1. UNCHANGED <<dpc, bitmap, brgb, target, sessions, frame>>
    BY <1>4 DEF SurfaceChanged, SurfaceDestroyed, Click, Render, Poll, Lock, DrawOnNull,
       DrawFirst, DrawSecond, Post, Clear, Capture, vars, decVars, uiVars
  <2>. QED  BY <2>1, GoneQuiet
<1>. QED  BY <1>3, <1>4, GoneCreated DEF Next

\* The bitmap a Decode thread copies to keeps nothing of its frames before the last one
\* copied, with any number of sessions on brgb and the bitmaps (lines 387-390 of StreamCodec.java).
THEOREM OldPixelsGone == Spec => []NoOldPixels
<1>1. TypeInv /\ Gone => NoOldPixels
  <2>. SUFFICES ASSUME TypeInv, Gone, NEW s \in Session, NEW h \in Half,
                       bitmap[target[s]][h][1] = s
                PROVE  bitmap[target[s]][h][2] >= FramesCopied(s)
    BY DEF NoOldPixels
  <2>1. target[s] \in Session /\ bitmap[target[s]][h][2] \in Nat
    BY PixelFacts
  <2>2. bitmap[target[s]][h][2] >= HalfPassed(s, h, target[s])
    BY <2>1 DEF Gone, AtLeast
  <2>. QED  BY <2>1, <2>2, PassedInOrder
<1>2. TypeInv /\ Gone /\ [Next]_vars => TypeInv' /\ Gone'
  BY TypeStep, GoneStep
<1>. QED  BY <1>1, <1>2, GoneInit, PTL DEF Spec

----------------------------------------------------------------------------
(* One session and any number of render threads: the order of the pictures *)
(* on the screen, and the age of a snapshot.                               *)
(*                                                                         *)
(* With a second render thread the flag no longer keeps the two sides      *)
(* apart and pictures may be torn.  What is left is the order: each half   *)
(* of the screen is no newer than that half of the bitmap, which is no     *)
(* newer than the frame in work, and whoever draws has the canvas alone.   *)
(*                                                                         *)
(* With at most one render thread, every step of Display is a step of      *)
(* FrameSlot or none at all: that comes last.  The fairness of the slot    *)
(* stays with TLC.                                                         *)


\* The number of the frame a half of a picture shows.
Age(p, h) == p[h][2]

\* A thread that draws has locked the canvas.
Locked == \A r \in Renderer : rpc[r] \in {"draw1", "draw2", "post"} => canvas = r

\* The copies of the newest frame, as far as its Decode thread has made them.
Copied ==
  /\ dpc[1] \in Writing \ {"convert1"} => brgb[1] = <<1, frame[1]>>
  /\ dpc[1] \in Writing \ {"convert1", "convert2"} => brgb[2] = <<1, frame[1]>>
  /\ dpc[1] = "copy2" => bitmap[1][1] = <<1, frame[1]>> /\ target[1] = 1
  /\ dpc[1] = "grab" => bitmap[1] = Fresh
  /\ \A h \in Half : Age(bitmap[1], h) <= frame[1]

\* What is on the screen, or read for it, is between the last post and the bitmap.
Screen ==
  /\ \A h \in Half : Age(shown, h) <= Age(bitmap[1], h)
  /\ \A r \in Renderer :
       /\ rpc[r] = "draw2" =>
            /\ source[r] = 1
            /\ Age(shown, 1) <= Age(pic[r], 1) /\ Age(pic[r], 1) <= Age(bitmap[1], 1)
       /\ rpc[r] = "post" =>
            \A h \in Half :
              Age(shown, h) <= Age(pic[r], h) /\ Age(pic[r], h) <= Age(bitmap[1], h)

\* A whole picture, of frame n or a newer one.
Recent(p, n) == p # None /\ Whole(p) /\ Age(p, 1) >= n

\* A thread started for a click in time finds the frame it was started on, or
\* a newer one, in captureBitmap.
Snapshots ==
  /\ dpc[1] \in {"publish", "trigger", "spawn"} /\ captureFrame[1] /\ ~late[1] =>
       captureBitmap = Fresh
  /\ dpc[1] = "spawn" => captureFrame[1]
  /\ \A k \in DOMAIN captures :
       /\ captures[k].frame <= frame[1]
       /\ ~captures[k].late => Recent(captureBitmap, captures[k].frame)
       /\ captures[k].done /\ ~captures[k].late => Recent(captures[k].saved, captures[k].frame)

OneSession == SingleSession => Copied /\ Screen /\ Snapshots

Ordered == TypeInv /\ Locked /\ OneSession

----------------------------------------------------------------------------
(* Facts. *)

\* The pixels of a picture are numbered by their frames.
LEMMA Ages ==
  ASSUME NEW p \in Picture
  PROVE  Age(p, 1) \in Nat /\ Age(p, 2) \in Nat
<1>1. \A f \in Frame : f[2] \in Nat
  BY FrameNumbers
<1>2. p[1] \in Frame /\ p[2] \in Frame
  BY DEF Picture, Half
<1>. QED  BY <1>1, <1>2 DEF Age

\* With one session there is one Decode thread, and one bitmap to draw.
LEMMA OnlySession ==
  ASSUME TypeInv, SingleSession
  PROVE  /\ 1 \in Session /\ frame[1] \in Nat /\ sessions \in {0, 1}
         /\ \A s \in Session : dpc[s] # "off" => s = 1 /\ sessions = 1
         /\ \A r \in Renderer : rpc[r] # "off" => sessions = 1 /\ viewBitmap = 1
<1>1. sessions \in {0, 1} /\ 1 \in Session
  <2>1. sessions \in 0..MaxSessions /\ MaxSessions \in Nat \ {0}
    BY BoundsAssumption DEF BoundsAssumption, TypeInv, TypeOK
  <2>. QED  BY <2>1 DEF SingleSession, Session
<1>2. ASSUME NEW s \in Session, dpc[s] # "off" PROVE s = 1 /\ sessions = 1
  BY <1>1, <1>2 DEF TypeInv, Lifecycle, Session
<1>3. ASSUME NEW r \in Renderer, rpc[r] # "off" PROVE sessions = 1 /\ viewBitmap = 1
  <2>1. renderers > 0
    BY <1>3, BoundsAssumption DEF BoundsAssumption, TypeInv, TypeOK, Lifecycle, Renderer
  <2>. QED  BY <1>1, <2>1 DEF TypeInv, TypeOK, Lifecycle
<1>4. frame[1] \in Nat
  BY <1>1 DEF TypeInv, TypeOK
<1>. QED  BY <1>1, <1>2, <1>3, <1>4

\* Sessions are only ever added.
LEMMA SingleBefore ==
  ASSUME TypeInv, [Next]_vars, SingleSession'
  PROVE  SingleSession
<1>1. sessions \in Nat
  BY BoundsAssumption DEF BoundsAssumption, TypeInv, TypeOK
<1>2. UNCHANGED sessions \/ sessions' = sessions + 1
  BY DEF Next, SurfaceCreated, SurfaceChanged, SurfaceDestroyed, Click, Decode, StartFrame, DropFrame,
         Convert, CopyFirst, CopySecond, Grab, Publish, Trigger, Spawn, Render, Poll, Lock,
         DrawOnNull, DrawFirst, DrawSecond, Post, Clear, Capture, vars, uiVars
<1>. QED  BY <1>1, <1>2 DEF SingleSession

\* The pictures in the state.
LEMMA StateAges ==
  ASSUME TypeInv, SingleSession
  PROVE  /\ Age(shown, 1) \in Nat /\ Age(shown, 2) \in Nat
         /\ Age(bitmap[1], 1) \in Nat /\ Age(bitmap[1], 2) \in Nat
         /\ \A r \in Renderer : Age(pic[r], 1) \in Nat /\ Age(pic[r], 2) \in Nat
<1>1. /\ shown \in Picture /\ bitmap[1] \in Picture
      /\ \A r \in Renderer : pic[r] \in Picture
  BY OnlySession DEF TypeInv, TypeOK
<1>. QED  BY <1>1, Ages

\* Capture threads are started on frames.
LEMMA ThreadFrames ==
  ASSUME TypeInv
  PROVE  /\ captures \in Seq(CaptureThread)
         /\ \A k \in DOMAIN captures : captures[k] \in CaptureThread /\ captures[k].frame \in Nat
<1>1. captures \in Seq(CaptureThread)
  BY DEF TypeInv, TypeOK
<1>2. \A c \in CaptureThread : c.frame \in Nat
  BY BoundsAssumption DEF BoundsAssumption, CaptureThread
<1>. QED  BY <1>1, <1>2

----------------------------------------------------------------------------
(* The steps. *)

\* lockCanvas waits for the lock.
LEMMA LockedStep ==
  ASSUME TypeInv, Locked, [Next]_vars
  PROVE  Locked'
<1>0. rpc \in [Renderer -> {"off", "poll", "lock", "draw1", "draw2", "post", "clear"}]
  BY DEF TypeInv, TypeOK
<1>1. ASSUME NEW r \in Renderer, Render(r) PROVE Locked'
  <2>1. CASE Poll(r) \/ DrawOnNull(r) \/ Clear(r)
    BY <1>0, <2>1 DEF Poll, DrawOnNull, Clear, In, drwVars, Locked
  <2>2. CASE Lock(r)
    BY <1>0, <2>2, BoundsAssumption DEF Lock, In, Locked, Renderer
  <2>3. CASE DrawFirst(r) \/ DrawSecond(r)
    BY <1>0, <2>3 DEF DrawFirst, DrawSecond, In, Locked
  <2>4. CASE Post(r)
    BY <1>0, <2>4 DEF Post, In, Locked
  <2>. QED  BY <1>1, <2>1, <2>2, <2>3, <2>4 DEF Render
<1>2. CASE SurfaceChanged
  BY <1>0, <1>2 DEF SurfaceChanged, Locked
<1>3. CASE \/ SurfaceCreated \/ SurfaceDestroyed \/ Click \/ UNCHANGED vars
           \/ \E s \in Session : Decode(s)
           \/ \E k \in DOMAIN captures : Capture(k)
  <2>1. UNCHANGED <<rpc, canvas>>
    BY <1>3 DEF SurfaceCreated, SurfaceDestroyed, Click, Decode, StartFrame, DropFrame, Convert,
                CopyFirst, CopySecond, Grab, Publish, Trigger, Spawn, Capture, vars, drwVars
  <2>. QED  BY <2>1 DEF Locked
<1>. QED  BY <1>1, <1>2, <1>3 DEF Next

\* A step of the Decode thread makes its copies of the newest frame.
LEMMA CopiedDecode ==
  ASSUME TypeInv, TypeInv', SingleSession, Copied, NEW s \in Session, Decode(s)
  PROVE  /\ Copied' /\ frame'[1] >= frame[1]
         /\ \A h \in Half : Age(bitmap'[1], h) >= Age(bitmap[1], h)
<1>0. s = 1 /\ sessions = 1 /\ 1 \in Session /\ frame[1] \in Nat
  BY OnlySession DEF Decode, StartFrame, DropFrame, Convert, CopyFirst, CopySecond, Grab, Publish,
     Trigger, Spawn, At
<1>1. Age(bitmap[1], 1) \in Nat /\ Age(bitmap[1], 2) \in Nat
  BY StateAges
<1> USE <1>0, <1>1 DEF Copied, Fresh, Half, Writing, At, GoTo, decVars
<1>2. CASE StartFrame(s)
  BY <1>2 DEF StartFrame, TypeInv, TypeOK
<1>3. CASE DropFrame(s)
  BY <1>3 DEF DropFrame, TypeInv, TypeOK
<1>4. ASSUME NEW h \in Half, Convert(s, h)
      PROVE  /\ Copied' /\ frame'[1] >= frame[1]
             /\ \A g \in Half : Age(bitmap'[1], g) >= Age(bitmap[1], g)
  BY <1>4 DEF Convert, Current, TypeInv, TypeOK, Picture
<1>5. CASE CopyFirst(s)
  <2>1. /\ bitmap'[1][1] = <<1, frame[1]>> /\ bitmap'[1][2] = bitmap[1][2] /\ target'[1] = 1
        /\ dpc'[1] = "copy2" /\ UNCHANGED <<frame, brgb>> /\ dpc[1] = "copy1"
    BY <1>5 DEF CopyFirst, TypeInv, TypeOK, Picture
  <2>. QED  BY <2>1 DEF Age
<1>6. CASE CopySecond(s)
  <2>1. /\ bitmap'[1][2] = <<1, frame[1]>> /\ bitmap'[1][1] = bitmap[1][1]
        /\ bitmap[1][1] = <<1, frame[1]>>
        /\ dpc'[1] = "grab" /\ UNCHANGED <<frame, brgb>> /\ dpc[1] = "copy2"
    BY <1>6 DEF CopySecond, TypeInv, TypeOK, Picture
  <2>2. bitmap'[1] = Fresh'
    BY <2>1 DEF TypeInv, TypeOK, Picture
  <2>. QED  BY <2>1, <2>2 DEF Age
<1>7. CASE Grab(s) \/ Publish(s) \/ Trigger(s) \/ Spawn(s)
  <2>1. /\ UNCHANGED <<frame, target, brgb, bitmap>>
        /\ dpc' \in {[dpc EXCEPT ![s] = p] : p \in {"publish", "trigger", "spawn", "check"}}
    BY <1>7 DEF Grab, Publish, Trigger, Spawn, TypeInv, TypeOK
  <2>2. dpc'[1] \in {"publish", "trigger", "spawn", "check"}
    BY <2>1 DEF TypeInv, TypeOK
  <2>3. dpc'[1] = "publish" => dpc[1] = "grab"
    BY <1>7 DEF Grab, Publish, Trigger, Spawn, TypeInv, TypeOK
  <2>. QED  BY <2>1, <2>2, <2>3
<1>. QED  BY <1>2, <1>3, <1>4, <1>5, <1>6, <1>7 DEF Decode

\* New pixels in the bitmap are not older than what was read from it.
LEMMA ScreenDecode ==
  ASSUME TypeInv, TypeInv', SingleSession, Copied, Screen, NEW s \in Session, Decode(s)
  PROVE  Screen'
<1>1. UNCHANGED drwVars
  BY DEF Decode, StartFrame, DropFrame, Convert, CopyFirst, CopySecond, Grab, Publish, Trigger, Spawn
<1>2. UNCHANGED <<shown, pic, rpc, source>> /\ UNCHANGED sessions
  BY <1>1 DEF drwVars, Decode, StartFrame, DropFrame, Convert, CopyFirst, CopySecond, Grab, Publish,
              Trigger, Spawn, uiVars
<1>3. Age(bitmap'[1], 1) >= Age(bitmap[1], 1) /\ Age(bitmap'[1], 2) >= Age(bitmap[1], 2)
  BY CopiedDecode DEF Half
<1>4. SingleSession'
  BY <1>2 DEF SingleSession
<1>5. /\ Age(bitmap[1], 1) \in Nat /\ Age(bitmap[1], 2) \in Nat
      /\ Age(shown, 1) \in Nat /\ Age(shown, 2) \in Nat
      /\ \A r \in Renderer : Age(pic[r], 1) \in Nat /\ Age(pic[r], 2) \in Nat
  BY StateAges
<1>6. Age(bitmap'[1], 1) \in Nat /\ Age(bitmap'[1], 2) \in Nat
  <2>1. bitmap'[1] \in Picture
    BY <1>4, OnlySession DEF TypeInv, TypeOK
  <2>. QED  BY <2>1, Ages
<1>. QED  BY <1>2, <1>3, <1>5, <1>6 DEF Screen, Half

\* A render thread reads what the bitmap holds, and posts it while it has the
\* canvas alone: the screen only gets newer.
LEMMA ScreenRender ==
  ASSUME TypeInv, TypeInv', SingleSession, Locked, Screen, NEW r \in Renderer, Render(r)
  PROVE  Screen' /\ (shown' # shown => Newer(shown', shown))
<1>0. /\ rpc \in [Renderer -> {"off", "poll", "lock", "draw1", "draw2", "post", "clear"}]
      /\ source \in [Renderer -> Session] /\ pic \in [Renderer -> Picture]
  BY DEF TypeInv, TypeOK
<1>1. rpc[r] # "off"
  BY DEF Render, Poll, Lock, DrawOnNull, DrawFirst, DrawSecond, Post, Clear, In
<1>2. viewBitmap = 1
  BY <1>1, OnlySession
<1>3. UNCHANGED bitmap
  BY DEF Render, Poll, Lock, DrawOnNull, DrawFirst, DrawSecond, Post, Clear, decVars
<1>4. CASE Poll(r) \/ Lock(r) \/ DrawOnNull(r) \/ Clear(r)
  <2>1. UNCHANGED <<shown, pic, source>>
    BY <1>4 DEF Poll, Lock, DrawOnNull, Clear, drwVars
  <2>2. \A q \in Renderer : rpc'[q] \in {"draw2", "post"} => rpc'[q] = rpc[q]
    BY <1>0, <1>4 DEF Poll, Lock, DrawOnNull, Clear, drwVars
  <2>. QED  BY <1>3, <2>1, <2>2 DEF Screen
<1>5. CASE DrawFirst(r)
  <2>1. /\ UNCHANGED shown /\ source'[r] = 1 /\ pic'[r][1] = bitmap[1][1] /\ rpc'[r] = "draw2"
        /\ \A q \in Renderer : q # r =>
             rpc'[q] = rpc[q] /\ pic'[q] = pic[q] /\ source'[q] = source[q]
    BY <1>0, <1>2, <1>5 DEF DrawFirst, Picture, Half
  <2>2. Age(pic'[r], 1) = Age(bitmap[1], 1)
    BY <2>1 DEF Age
  <2>3. Age(shown, 1) <= Age(bitmap[1], 1) /\ Age(bitmap[1], 1) \in Nat
    BY StateAges DEF Screen, Half
  <2>. QED  BY <1>3, <2>1, <2>2, <2>3 DEF Screen
<1>6. CASE DrawSecond(r)
  <2>1. rpc[r] = "draw2" /\ source[r] = 1
    BY <1>6 DEF DrawSecond, In, Screen
  <2>2. /\ UNCHANGED shown /\ pic'[r][1] = pic[r][1] /\ pic'[r][2] = bitmap[1][2] /\ rpc'[r] = "post"
        /\ \A q \in Renderer : q # r =>
             rpc'[q] = rpc[q] /\ pic'[q] = pic[q] /\ source'[q] = source[q]
    BY <1>0, <1>6, <2>1 DEF DrawSecond, Picture, Half
  <2>3. Age(pic'[r], 1) = Age(pic[r], 1) /\ Age(pic'[r], 2) = Age(bitmap[1], 2)
    BY <2>2 DEF Age
  <2>4. Age(shown, 2) <= Age(bitmap[1], 2) /\ Age(bitmap[1], 2) \in Nat
    BY StateAges DEF Screen, Half
  <2>. QED  BY <1>3, <2>1, <2>2, <2>3, <2>4 DEF Screen, Half
<1>7. CASE Post(r)
  <2>1. /\ rpc[r] = "post" /\ shown' = pic[r] /\ UNCHANGED <<pic, source>>
        /\ rpc' = [rpc EXCEPT ![r] = "clear"]
    BY <1>7 DEF Post, In
  <2>2. \A q \in Renderer : rpc'[q] \notin {"draw2", "post"}
    <3>1. \A q \in Renderer : q # r => rpc[q] \notin {"draw2", "post"}
      BY <2>1 DEF Locked
    <3>. QED  BY <1>0, <2>1, <3>1
  <2>3. \A h \in Half : Age(shown, h) <= Age(pic[r], h) /\ Age(pic[r], h) <= Age(bitmap[1], h)
    BY <2>1 DEF Screen
  <2>4. /\ Age(pic[r], 1) \in Nat /\ Age(pic[r], 2) \in Nat
        /\ Age(shown, 1) \in Nat /\ Age(shown, 2) \in Nat
    BY StateAges
  <2>5. Screen'
    BY <1>3, <2>1, <2>2, <2>3 DEF Screen
  <2>6. \A h \in Half : Age(shown', h) >= Age(shown, h)
    BY <2>1, <2>3, <2>4 DEF Half
  <2>. QED  BY <2>5, <2>6 DEF Newer, Age
<1>. QED  BY <1>4, <1>5, <1>6, <1>7 DEF Render, Screen

\* The copy that Grab takes for a click in time is the newest frame, and only
\* a newer one can take its place.
LEMMA SnapshotsDecode ==
  ASSUME TypeInv, TypeInv', SingleSession, Copied, Snapshots, NEW s \in Session, Decode(s)
  PROVE  Snapshots'
<1>0. s = 1 /\ sessions = 1 /\ 1 \in Session /\ frame[1] \in Nat
  BY OnlySession DEF Decode, StartFrame, DropFrame, Convert, CopyFirst, CopySecond, Grab, Publish,
     Trigger, Spawn, At
<1>1. /\ captures \in Seq(CaptureThread)
      /\ \A k \in DOMAIN captures : captures[k].frame \in Nat
  BY ThreadFrames
<1>2. dpc = [t \in Session |-> dpc[t]] /\ captureFrame = [t \in Session |-> captureFrame[t]]
  BY DEF TypeInv, TypeOK
<1>3. frame'[1] \in Nat /\ frame'[1] >= frame[1]
  <2>1. frame' \in [Session -> 0..MaxFrames]
    BY DEF TypeInv, TypeOK
  <2>2. frame'[1] \in Nat
    BY <1>0, <2>1, BoundsAssumption DEF BoundsAssumption
  <2>. QED  BY <2>2, CopiedDecode
<1>4. CASE StartFrame(s) \/ DropFrame(s) \/ (\E h \in Half : Convert(s, h)) \/ CopyFirst(s) \/ CopySecond(s)
  <2>1. UNCHANGED <<captureBitmap, captureFrame, captures, late>>
    BY <1>4 DEF StartFrame, DropFrame, Convert, CopyFirst, CopySecond, capVars
  <2>2. dpc'[1] \notin {"publish", "trigger", "spawn"}
    BY <1>0, <1>2, <1>4 DEF StartFrame, DropFrame, Convert, CopyFirst, CopySecond, GoTo
  <2>. QED  BY <1>0, <1>1, <1>3, <2>1, <2>2 DEF Snapshots
<1>5. CASE Grab(s)
  <2>1. /\ UNCHANGED <<captureFrame, captures, late, frame>> /\ dpc'[1] = "publish" /\ dpc[1] = "grab"
        /\ captureBitmap' = IF captureFrame[1] THEN bitmap[1] ELSE captureBitmap
    BY <1>0, <1>2, <1>5 DEF Grab, At, GoTo
  <2>2. bitmap[1] = Fresh /\ Fresh' = Fresh
    BY <2>1 DEF Copied, Fresh
  <2>3. Fresh # None /\ Whole(Fresh) /\ Age(Fresh, 1) = frame[1]
    <3>1. Fresh \in Picture
      BY <1>0, <2>2 DEF TypeInv, TypeOK
    <3>. QED  BY <3>1, NoneAssumption DEF Whole, Age, Fresh, Half
  <2>4. \A k \in DOMAIN captures : Recent(Fresh, captures[k].frame)
    BY <1>0, <1>1, <2>3 DEF Snapshots, Recent
  <2>. QED  BY <2>1, <2>2, <2>4 DEF Snapshots
<1>6. CASE Publish(s) \/ Trigger(s)
  <2>1. UNCHANGED <<captureBitmap, captureFrame, captures, late, frame>>
    BY <1>6 DEF Publish, Trigger, capVars
  <2>2. dpc[1] \in {"publish", "trigger"} /\ (dpc'[1] = "spawn" => captureFrame[1])
    BY <1>0, <1>2, <1>6 DEF Publish, Trigger, At, GoTo
  <2>3. Fresh' = Fresh
    BY <2>1 DEF Fresh
  <2>. QED  BY <2>1, <2>2, <2>3 DEF Snapshots
<1>7. CASE Spawn(s)
  <2>. DEFINE new == Started(s)
  <2>1. /\ UNCHANGED <<captureBitmap, late, frame>> /\ dpc[1] = "spawn" /\ dpc'[1] = "check"
        /\ captures' = Append(captures, new)
    BY <1>0, <1>2, <1>7 DEF Spawn, At, GoTo
  <2>2. new.frame = frame[1] /\ new.late = late[1] /\ new.done = FALSE
    BY <1>0 DEF Started
  <2>. HIDE DEF new
  <2>3. /\ DOMAIN captures' = DOMAIN captures \cup {Len(captures) + 1}
        /\ \A k \in DOMAIN captures : captures'[k] = captures[k]
        /\ captures'[Len(captures) + 1] = new
    BY <1>1, <2>1
  <2>4. ~new.late => Recent(captureBitmap, frame[1])
    <3>. SUFFICES ASSUME ~late[1] PROVE Recent(captureBitmap, frame[1])
      BY <2>2
    <3>1. captureBitmap = Fresh
      BY <2>1 DEF Snapshots
    <3>2. captureBitmap \in Picture
      <4>1. Fresh \in Picture
        <5>1. frame[1] \in 1..MaxFrames
          BY <1>0, <2>1, BoundsAssumption DEF BoundsAssumption, TypeInv, TypeOK, Lifecycle
        <5>2. <<1, frame[1]>> \in Frame
          BY <1>0, <5>1 DEF Frame
        <5>. QED  BY <5>2 DEF Fresh, Picture
      <4>. QED  BY <3>1, <4>1
    <3>. QED  BY <1>0, <3>1, <3>2, NoneAssumption DEF Recent, Whole, Age, Fresh, Half
  <2>. QED  BY <1>0, <1>1, <2>1, <2>2, <2>3, <2>4 DEF Snapshots
<1>. QED  BY <1>4, <1>5, <1>6, <1>7 DEF Decode

\* A click sets the request, and is late when the copy of this round is past.
LEMMA SnapshotsClick ==
  ASSUME TypeInv, SingleSession, Snapshots, Click
  PROVE  Snapshots'
<1>1. sessions = 1 /\ 1 \in Session
  BY OnlySession DEF Click
<1>2. /\ UNCHANGED <<captureBitmap, captures, dpc, frame>>
      /\ captureFrame' = [captureFrame EXCEPT ![1] = TRUE]
  BY <1>1 DEF Click, decVars
<1>3. late'[1] = IF captureFrame[1] THEN late[1] ELSE dpc[1] \in {"publish", "trigger"}
  BY <1>1 DEF Click, TypeInv, TypeOK
<1>4. captureFrame'[1] /\ Fresh' = Fresh
  BY <1>1, <1>2 DEF TypeInv, TypeOK, Fresh
<1>. QED  BY <1>2, <1>3, <1>4 DEF Snapshots

\* The thread saves the picture that is there when it runs.
LEMMA SnapshotsCapture ==
  ASSUME TypeInv, SingleSession, Snapshots, NEW k \in DOMAIN captures, Capture(k)
  PROVE  Snapshots'
<1>1. UNCHANGED <<captureBitmap, captureFrame, late, dpc, frame>>
  BY DEF Capture, decVars
<1>2. /\ DOMAIN captures' = DOMAIN captures
      /\ \A j \in DOMAIN captures : j # k => captures'[j] = captures[j]
      /\ captures'[k] = [captures[k] EXCEPT !.done = TRUE, !.saved = captureBitmap]
  BY ThreadFrames DEF Capture
<1>3. /\ captures'[k].frame = captures[k].frame /\ captures'[k].late = captures[k].late
      /\ captures'[k].saved = captureBitmap
  BY <1>2, ThreadFrames DEF CaptureThread
<1>4. Fresh' = Fresh
  BY <1>1 DEF Fresh
<1>. QED  BY <1>1, <1>2, <1>3, <1>4 DEF Snapshots

\* Everything else leaves these parts alone.
LEMMA OtherSteps ==
  ASSUME TypeInv, SingleSession, Copied, Screen, Snapshots,
         SurfaceCreated \/ SurfaceChanged \/ SurfaceDestroyed \/ UNCHANGED vars
  PROVE  Copied' /\ Screen' /\ Snapshots' /\ UNCHANGED shown
<1>1. /\ UNCHANGED <<frame, target, brgb, bitmap, source, pic, shown, captureBitmap, captureFrame,
                     captures, late>>
  BY DEF SurfaceCreated, SurfaceChanged, SurfaceDestroyed, vars, decVars, drwVars, capVars
<1>2. 1 \in Session /\ sessions \in {0, 1}
  BY OnlySession
<1>3. dpc'[1] = dpc[1] \/ dpc'[1] = "check"
  BY <1>2 DEF SurfaceCreated, SurfaceChanged, SurfaceDestroyed, vars, decVars, TypeInv, TypeOK
<1>4. \A r \in Renderer : rpc'[r] = rpc[r] \/ rpc'[r] = "poll"
  BY BoundsAssumption DEF BoundsAssumption, SurfaceCreated, SurfaceChanged, SurfaceDestroyed, vars,
     drwVars, TypeInv, TypeOK, Renderer
<1>5. Fresh' = Fresh
  BY <1>1 DEF Fresh
<1>6. Copied'
  BY <1>1, <1>3, <1>5 DEF Copied, Writing
<1>7. Screen'
  BY <1>1, <1>4 DEF Screen
<1>8. Snapshots'
  BY <1>1, <1>3, <1>5 DEF Snapshots
<1>. QED  BY <1>1, <1>6, <1>7, <1>8

\* Every step with one session, and what it does to the screen.
LEMMA OneSessionStep ==
  ASSUME TypeInv, TypeInv', Locked, SingleSession, Copied, Screen, Snapshots, [Next]_vars
  PROVE  Copied' /\ Screen' /\ Snapshots' /\ (shown' # shown => Newer(shown', shown))
<1>. DEFINE Goal == Copied' /\ Screen' /\ Snapshots' /\ (shown' # shown => Newer(shown', shown))
<1>1. CASE SurfaceCreated \/ SurfaceChanged \/ SurfaceDestroyed \/ UNCHANGED vars
  BY <1>1, OtherSteps
<1>2. CASE Click
  <2>1. UNCHANGED <<decVars, drwVars>>
    BY <1>2 DEF Click
  <2>2. Copied' /\ Screen' /\ UNCHANGED shown
    BY <2>1 DEF decVars, drwVars, Copied, Screen, Fresh
  <2>. QED  BY <1>2, <2>2, SnapshotsClick
<1>3. ASSUME NEW s \in Session, Decode(s) PROVE Goal
  <2>1. UNCHANGED shown
    BY <1>3 DEF Decode, StartFrame, DropFrame, Convert, CopyFirst, CopySecond, Grab, Publish, Trigger,
                Spawn, drwVars
  <2>. QED  BY <1>3, <2>1, CopiedDecode, ScreenDecode, SnapshotsDecode
<1>4. ASSUME NEW r \in Renderer, Render(r) PROVE Goal
  <2>1. UNCHANGED <<decVars, capVars>>
    BY <1>4 DEF Render, Poll, Lock, DrawOnNull, DrawFirst, DrawSecond, Post, Clear
  <2>2. Copied' /\ Snapshots'
    BY <2>1 DEF decVars, capVars, Copied, Snapshots, Fresh
  <2>. QED  BY <1>4, <2>2, ScreenRender
<1>5. ASSUME NEW k \in DOMAIN captures, Capture(k) PROVE Goal
  <2>1. UNCHANGED <<decVars, drwVars>>
    BY <1>5 DEF Capture
  <2>2. Copied' /\ Screen' /\ UNCHANGED shown
    BY <2>1 DEF decVars, drwVars, Copied, Screen, Fresh
  <2>. QED  BY <1>5, <2>2, SnapshotsCapture
<1>. QED  BY <1>1, <1>2, <1>3, <1>4, <1>5 DEF Next

LEMMA OrderedInit == Init => Ordered
<1>. SUFFICES ASSUME Init PROVE Ordered
  OBVIOUS
<1>1. TypeInv
  BY TypeInit
<1>2. Locked
  BY DEF Init, Locked
<1>3. 1 \in Session
  BY BoundsAssumption DEF BoundsAssumption, Session
<1>4. /\ dpc[1] = "off" /\ frame[1] = 0 /\ bitmap[1] = BlankPicture /\ shown = BlankPicture
      /\ captures = <<>> /\ \A r \in Renderer : rpc[r] = "off"
  BY <1>3 DEF Init
<1>5. \A h \in Half : Age(BlankPicture, h) = 0
  BY DEF Age, BlankPicture, Blank
<1>6. Copied /\ Screen /\ Snapshots
  BY <1>4, <1>5 DEF Copied, Screen, Snapshots, Writing
<1>. QED  BY <1>1, <1>2, <1>6 DEF Ordered, OneSession

LEMMA OrderedStep == Ordered /\ [Next]_vars => Ordered'
<1>. SUFFICES ASSUME Ordered, [Next]_vars PROVE Ordered'
  OBVIOUS
<1>1. TypeInv' /\ Locked'
  BY TypeStep, LockedStep DEF Ordered
<1>2. OneSession'
  BY <1>1, SingleBefore, OneSessionStep DEF Ordered, OneSession
<1>. QED  BY <1>1, <1>2 DEF Ordered

----------------------------------------------------------------------------
(* The theorems. *)

\* The order of the copies, from the decoder to the screen and the snapshot, is
\* inductive.
THEOREM OrderKept == Spec => []Ordered
<1>. QED  BY OrderedInit, OrderedStep, PTL DEF Spec

\* However many render threads draw, the picture on the screen never gets
\* older (lines 45-56 of MySurfaceView.java).
THEOREM OnlyForward == Spec => NeverBackwards
<1>1. Ordered /\ [Next]_vars => [SingleSession' => Newer(shown', shown)]_shown
  <2>. SUFFICES ASSUME Ordered, [Next]_vars, SingleSession', shown' # shown
                PROVE  Newer(shown', shown)
    OBVIOUS
  <2>1. TypeInv' /\ SingleSession
    BY TypeStep, SingleBefore DEF Ordered
  <2>. QED  BY <2>1, OneSessionStep DEF Ordered, OneSession
<1>. QED  BY <1>1, OrderKept, PTL DEF Spec, NeverBackwards

\* A snapshot for a click in time is whole and no older than the frame its
\* thread was started on (lines 392-400 of StreamCodec.java).
THEOREM SnapshotsAreFresh == Spec => []CaptureFresh
<1>1. Ordered => CaptureFresh
  BY DEF Ordered, OneSession, Snapshots, Recent, Age, CaptureFresh
<1>. QED  BY <1>1, OrderKept, PTL

----------------------------------------------------------------------------
(* One thread of each kind: the one-frame slot. *)

\* The bounds under which no second thread of a kind is ever started.
OnePair == MaxSessions = 1 /\ MaxRenderers \in {0, 1}

\* Every state has one thread of each kind at most, and the first session.
LEMMA Single ==
  ASSUME OnePair, IInv
  PROVE  /\ SinglePair /\ Protocol /\ Session = {1}
         /\ \A r \in Renderer : r = 1
         /\ sessions \in {0, 1} /\ renderers \in {0, 1} /\ frame[1] \in 0..MaxFrames /\ MaxFrames \in Nat
<1>1. sessions \in {0, 1} /\ renderers \in {0, 1}
  BY DEF OnePair, IInv, TypeOK
<1>2. Session = {1} /\ \A r \in Renderer : r = 1
  BY DEF OnePair, Session, Renderer
<1>3. SinglePair
  BY <1>1 DEF SinglePair
<1>4. frame[1] \in 0..MaxFrames /\ MaxFrames \in Nat
  BY <1>2, BoundsAssumption DEF BoundsAssumption, IInv, TypeOK
<1>. QED  BY <1>1, <1>2, <1>3, <1>4 DEF IInv, HandOver

\* What the slot holds and has been given, while the Decode thread writes and
\* while it does not.
LEMMA PublishedIs ==
  ASSUME OnePair, IInv
  PROVE  /\ Published = (IF dpc[1] \in Writing THEN frame[1] - 1 ELSE frame[1])
         /\ Published \in Nat
         /\ framePrepared => frame[1] > 0 /\ Published = frame[1]
<1>1. Published = (IF dpc[1] \in Writing THEN frame[1] - 1 ELSE frame[1])
  BY DEF Published, Writing
<1>2. dpc[1] \in Writing => frame[1] > 0
  BY Single DEF IInv, Lifecycle
<1>3. ASSUME framePrepared PROVE frame[1] > 0 /\ dpc[1] \notin Writing
  <2>1. bitmap[1][1] = <<1, frame[1]>> /\ dpc[1] \notin Writing
    BY <1>3, Single DEF Protocol, Turns, Written
  <2>2. <<1, frame[1]>> \in Frame
    <3>1. bitmap[1] \in Picture
      BY Single DEF IInv, TypeOK
    <3>. QED  BY <2>1, <3>1 DEF Picture, Half
  <2>3. <<1, frame[1]>> # <<0, 0>>
    OBVIOUS
  <2>4. frame[1] \in 1..MaxFrames
    BY <2>2, <2>3 DEF Frame, Blank
  <2>. QED  BY <2>1, <2>4, Single
<1>. QED  BY <1>1, <1>2, <1>3, Single

\* The initial state of the slot.
LEMMA SlotInit ==
  ASSUME OnePair, Init
  PROVE  Slot!Init
<1>1. dpc[1] = "off" /\ frame[1] = 0 /\ ~framePrepared /\ crashed = FALSE
  BY DEF OnePair, Init, Session
<1>2. {shown[h][2] : h \in Half} = {0}
  BY DEF Init, BlankPicture, Blank, Half
<1>. QED  BY <1>1, <1>2 DEF Slot!Init, Published, Waiting

\* What a step must leave alone for the slot to stutter.
LEMMA Stutters ==
  ASSUME Published' = Published, Waiting' = Waiting, UNCHANGED <<shown, crashed>>
  PROVE  UNCHANGED Slot!vars
<1>1. {shown[h][2] : h \in Half}' = {shown[h][2] : h \in Half}
  OBVIOUS
<1>. QED  BY <1>1 DEF Slot!vars

\* Putting a frame is setting framePrepared; all other steps of the Decode
\* thread leave the slot as it is.
LEMMA DecodeRefines ==
  ASSUME OnePair, IInv, IInv', NEW s \in Session, Decode(s)
  PROVE  [Slot!Next]_(Slot!vars)
<1>0. /\ s = 1 /\ dpc \in [Session -> {"off", "check", "sleep", "convert1", "convert2", "copy1",
                                       "copy2", "grab", "publish", "trigger", "spawn"}]
      /\ frame[1] \in Nat /\ 1 \in Session /\ frame \in [Session -> 0..MaxFrames]
  <2>1. s = 1 /\ 1 \in Session /\ frame[1] \in Nat
    BY Single
  <2>. QED  BY <2>1 DEF IInv, TypeOK
<1>1. CASE Publish(s)
  <2>1. /\ dpc[1] = "publish" /\ dpc'[1] = "trigger" /\ framePrepared' = TRUE /\ ~crashed
        /\ UNCHANGED <<frame, shown, rpc, renderers, crashed>>
    BY <1>0, <1>1 DEF Publish, At, GoTo, uiVars, drwVars
  <2>2. ~framePrepared
    BY <2>1, Single DEF Protocol, Turns, Writing
  <2>3. ~(renderers > 0 /\ rpc[1] = "clear")
    <3>1. renderers > 0 => 1 \in Renderer
      BY DEF OnePair, Renderer, IInv, TypeOK
    <3>. QED  BY <2>2, <3>1, Single DEF Protocol, Turns
  <2>4. Published = frame[1] - 1 /\ Published' = frame[1] /\ frame[1] > 0 /\ frame[1] <= MaxFrames
    BY <1>0, <2>1, Single, PublishedIs DEF Published, Writing
  <2>5. Waiting = 0 /\ Waiting' = frame[1]
    BY <2>1, <2>2, <2>3, <2>4 DEF Waiting
  <2>6. {shown[h][2] : h \in Half}' = {shown[h][2] : h \in Half}
    BY <2>1
  <2>. QED  BY <1>0, <2>1, <2>4, <2>5, <2>6, Single DEF Slot!Next, Slot!Put
<1>2. CASE StartFrame(s)
  <2>1. /\ dpc[1] = "check" /\ dpc'[1] = "convert1" /\ framePrepared = FALSE /\ framePrepared' = FALSE
        /\ frame'[1] = frame[1] + 1 /\ UNCHANGED <<shown, crashed>>
    BY <1>0, <1>2 DEF StartFrame, At, GoTo, uiVars, drwVars, IInv, TypeOK
  <2>2. Published' = Published /\ Waiting' = 0 /\ Waiting = 0
    BY <1>0, <2>1 DEF Published, Waiting
  <2>. QED  BY <2>1, <2>2, Stutters
<1>3. CASE ~Publish(s) /\ ~StartFrame(s)
  <2>1. UNCHANGED <<framePrepared, frame, shown, rpc, renderers, crashed>>
    BY <1>3 DEF Decode, DropFrame, Convert, CopyFirst, CopySecond, Grab, Trigger, Spawn, uiVars, drwVars
  <2>2. dpc'[1] \in Writing <=> dpc[1] \in Writing
    <3>1. CASE DropFrame(s) \/ Trigger(s) \/ Spawn(s)
      BY <1>0, <3>1 DEF DropFrame, Trigger, Spawn, At, GoTo, Writing
    <3>2. ASSUME NEW h \in Half, Convert(s, h) PROVE dpc'[1] \in Writing <=> dpc[1] \in Writing
      BY <1>0, <3>2 DEF Convert, At, GoTo, Writing
    <3>3. CASE CopyFirst(s) \/ CopySecond(s) \/ Grab(s)
      BY <1>0, <3>3 DEF CopyFirst, CopySecond, Grab, At, GoTo, Writing
    <3>. QED  BY <1>3, <3>1, <3>2, <3>3 DEF Decode
  <2>3. Published' = Published
    BY <2>1, <2>2 DEF Published, Writing
  <2>4. Waiting' = Waiting
    BY <2>1, <2>3 DEF Waiting
  <2>. QED  BY <2>1, <2>3, <2>4, Stutters
<1>. QED  BY <1>1, <1>2, <1>3

\* Showing a frame is posting its picture; drawing without a surface stops the
\* process.
LEMMA RenderRefines ==
  ASSUME OnePair, IInv, IInv', NEW r \in Renderer, Render(r)
  PROVE  [Slot!Next]_(Slot!vars)
<1>0. /\ r = 1 /\ 1 \in Renderer
      /\ rpc \in [Renderer -> {"off", "poll", "lock", "draw1", "draw2", "post", "clear"}]
  BY Single DEF IInv, TypeOK
<1>1. UNCHANGED <<dpc, frame, renderers>>
  BY DEF Render, Poll, Lock, DrawOnNull, DrawFirst, DrawSecond, Post, Clear, uiVars, decVars
<1>2. Published' = Published
  BY <1>1 DEF Published
<1>3. renderers > 0
  <2>1. rpc[1] # "off"
    BY <1>0 DEF Render, Poll, Lock, DrawOnNull, DrawFirst, DrawSecond, Post, Clear, In
  <2>. QED  BY <1>0, <2>1, Single DEF IInv, Lifecycle
<1>4. CASE Post(r)
  <2>1. /\ rpc[1] = "post" /\ rpc'[1] = "clear" /\ shown' = pic[1] /\ ~crashed
        /\ UNCHANGED <<framePrepared, crashed>>
    BY <1>0, <1>4 DEF Post, In, uiVars
  <2>2. framePrepared /\ pic[1] = Fresh
    BY <1>0, <2>1, Single DEF Protocol, Turns, Drawn
  <2>3. Waiting = frame[1] /\ Waiting' = 0 /\ frame[1] > 0
    BY <1>1, <1>2, <1>3, <2>1, <2>2, PublishedIs DEF Waiting
  <2>4. {shown[h][2] : h \in Half}' = {frame[1]}
    BY <2>1, <2>2 DEF Fresh, Half
  <2>. QED  BY <1>2, <2>1, <2>3, <2>4, Single DEF Slot!Next, Slot!Show
<1>5. CASE DrawOnNull(r)
  <2>1. ~crashed /\ crashed' = TRUE /\ UNCHANGED <<framePrepared, shown, rpc>>
    BY <1>5 DEF DrawOnNull, In, drwVars
  <2>2. Waiting' = Waiting
    BY <1>1, <1>2, <2>1 DEF Waiting
  <2>3. {shown[h][2] : h \in Half}' = {shown[h][2] : h \in Half}
    BY <2>1
  <2>. QED  BY <1>2, <2>1, <2>2, <2>3 DEF Slot!Next, Slot!Stop
<1>6. CASE Clear(r)
  <2>1. rpc[1] = "clear" /\ framePrepared' = FALSE /\ UNCHANGED <<shown, crashed>>
    BY <1>0, <1>6 DEF Clear, In, uiVars
  <2>2. Waiting = 0 /\ Waiting' = 0
    BY <1>3, <2>1 DEF Waiting
  <2>. QED  BY <1>2, <2>1, <2>2, Stutters
<1>7. CASE Poll(r) \/ Lock(r) \/ DrawFirst(r) \/ DrawSecond(r)
  <2>1. rpc[1] # "clear" /\ rpc'[1] # "clear" /\ UNCHANGED <<framePrepared, shown, crashed>>
    BY <1>0, <1>7 DEF Poll, Lock, DrawFirst, DrawSecond, In, uiVars
  <2>2. Waiting' = Waiting
    BY <1>1, <1>2, <2>1 DEF Waiting
  <2>. QED  BY <1>2, <2>1, <2>2, Stutters
<1>. QED  BY <1>4, <1>5, <1>6, <1>7 DEF Render

\* Callbacks and Capture threads do not touch the slot.
LEMMA OthersRefine ==
  ASSUME OnePair, IInv, IInv',
         \/ SurfaceCreated \/ SurfaceChanged \/ SurfaceDestroyed \/ Click
         \/ \E k \in DOMAIN captures : Capture(k)
         \/ UNCHANGED vars
  PROVE  [Slot!Next]_(Slot!vars)
<1>0. 1 \in Session /\ sessions \in {0, 1} /\ renderers \in {0, 1}
  BY Single
<1>1. UNCHANGED <<framePrepared, frame, shown, crashed>>
  BY DEF SurfaceCreated, SurfaceChanged, SurfaceDestroyed, Click, Capture, vars, uiVars, decVars, drwVars
<1>2. dpc'[1] \in Writing <=> dpc[1] \in Writing
  <2>1. dpc' = dpc \/ (SurfaceCreated /\ dpc' = [dpc EXCEPT ![sessions + 1] = "check"])
    BY DEF SurfaceCreated, SurfaceChanged, SurfaceDestroyed, Click, Capture, vars, decVars
  <2>2. CASE SurfaceCreated /\ dpc' = [dpc EXCEPT ![sessions + 1] = "check"]
    <3>1. sessions = 0
      BY <1>0, <2>2 DEF OnePair, SurfaceCreated
    <3>2. dpc[1] = "off" /\ dpc'[1] = "check"
      BY <1>0, <2>2, <3>1 DEF IInv, TypeOK, Lifecycle
    <3>. QED  BY <3>2 DEF Writing
  <2>. QED  BY <2>1, <2>2
<1>3. Published' = Published
  BY <1>1, <1>2 DEF Published, Writing
<1>4. (renderers > 0 /\ rpc[1] = "clear")' <=> (renderers > 0 /\ rpc[1] = "clear")
  <2>1. UNCHANGED <<renderers, rpc>> \/ SurfaceChanged
    BY DEF SurfaceCreated, SurfaceDestroyed, Click, Capture, vars, uiVars, drwVars
  <2>2. CASE SurfaceChanged
    <3>1. renderers = 0 /\ MaxRenderers = 1
      BY <1>0, <2>2 DEF OnePair, SurfaceChanged
    <3>2. 1 \in Renderer /\ renderers + 1 = 1
      BY <3>1 DEF Renderer
    <3>3. rpc' = [rpc EXCEPT ![1] = "poll"]
      BY <2>2, <3>2 DEF SurfaceChanged
    <3>4. rpc'[1] = "poll"
      BY <3>2, <3>3 DEF IInv, TypeOK
    <3>. QED  BY <3>1, <3>4
  <2>. QED  BY <2>1, <2>2
<1>5. Waiting' = Waiting
  BY <1>1, <1>3, <1>4 DEF Waiting
<1>. QED  BY <1>1, <1>3, <1>5, Stutters

\* The hand-over through framePrepared (lines 383-397 of StreamCodec.java) and
\* run() of the view puts, shows and stops as the one-frame slot does, and does
\* nothing else that can be seen from outside.
THEOREM RefinesSlot ==
  ASSUME OnePair
  PROVE  Spec => Slot!Init /\ [][Slot!Next]_(Slot!vars)
<1>1. IInv /\ IInv' /\ [Next]_vars => [Slot!Next]_(Slot!vars)
  BY DecodeRefines, RenderRefines, OthersRefine DEF Next
<1>. QED  BY <1>1, SlotInit, Invariance, PTL DEF Spec
=============================================================================
