------------------------------ MODULE Display ------------------------------
(***************************************************************************)
(* The hand-over of decoded frames from the Decode threads to the screen   *)
(* and to the snapshot files (StreamCodec.java, MySurfaceView.java,        *)
(* MyActivity.java).                                                       *)
(*                                                                         *)
(* One Decode thread per surfaceCreated, one render thread per             *)
(* surfaceChanged and one Capture thread per snapshot share the statics    *)
(* framePrepared, brgb, surfaceBitmap and captureBitmap without a lock.    *)
(* Filling and drawing a buffer take two steps, one per half, so that a    *)
(* thread can be caught in the middle.  A pixel is abstracted to the frame *)
(* it belongs to: the n-th frame published by session s is <<s, n>>.       *)
(***************************************************************************)
EXTENDS Naturals, Sequences

CONSTANTS MaxSessions,   \* bound: surfaceCreated callbacks
          MaxRenderers,  \* bound: surfaceChanged callbacks
          MaxFrames,     \* bound: frames one session publishes
          MaxClicks,     \* bound: clicks on the view or the button
          None           \* the null reference

Session  == 1..MaxSessions
Renderer == 1..MaxRenderers
Half     == {1, 2}
Blank    == <<0, 0>>
Frame    == {Blank} \cup (Session \X (1..MaxFrames))
Picture  == [Half -> Frame]

ASSUME BoundsAssumption ==
  /\ MaxSessions \in Nat \ {0}
  /\ MaxRenderers \in Nat
  /\ MaxFrames \in Nat
  /\ MaxClicks \in Nat

ASSUME NoneAssumption == None \notin Picture

VARIABLES
  surface,        \* the view's surface: "none", "created" or "changed"
  sessions,       \* StreamCodec objects made; the newest is MyActivity.codec
  renderers,      \* render threads started on the view
  viewBitmap,     \* MySurfaceView.bitmap: the session whose bitmap it is
  framePrepared,  \* StreamCodec.framePrepared
  brgb,           \* StreamCodec.brgb, shared by all sessions
  bitmap,         \* the pixels of each session's surfaceBitmap
  captureBitmap,  \* StreamCodec.captureBitmap
  captureFrame,   \* captureFrame of each StreamCodec
  dpc, frame, target,   \* Decode thread: place, current frame, bitmap copied to
  rpc, source, pic,     \* render thread: place, bitmap it draws, pixels it has read
  canvas,         \* the render thread that has the canvas locked; 0 if none
  shown,          \* the picture last posted to the screen
  captures,       \* the Capture threads, in the order they were started
  clicks,         \* history: clicks each session received
  late,           \* history: the pending click came after line 392 looked
  crashed         \* an exception left draw(): the process is gone

uiVars  == <<surface, sessions, renderers, viewBitmap, crashed>>
decVars == <<dpc, frame, target, brgb, bitmap>>
drwVars == <<rpc, source, pic, canvas, shown>>
capVars == <<captureBitmap, captureFrame, captures, clicks, late>>
vars    == <<uiVars, framePrepared, decVars, drwVars, capVars>>

----------------------------------------------------------------------------
\* A Capture thread: the frame it was started on, the last click its session had
\* received by then, and the file it has written.
CaptureThread == [session : Session, frame : 0..MaxFrames, click : 0..MaxClicks,
                  late : BOOLEAN, done : BOOLEAN, saved : Picture \cup {None}]

\* Types: counters stay in their bounds, and a thread draws, copies or saves only
\* bitmaps of sessions that can exist.
TypeOK ==
  /\ surface \in {"none", "created", "changed"}
  /\ sessions \in 0..MaxSessions
  /\ renderers \in 0..MaxRenderers
  /\ viewBitmap \in 0..MaxSessions
  /\ framePrepared \in BOOLEAN
  /\ brgb \in Picture
  /\ bitmap \in [Session -> Picture]
  /\ captureBitmap \in Picture \cup {None}
  /\ captureFrame \in [Session -> BOOLEAN]
  /\ dpc \in [Session -> {"off", "check", "sleep", "convert1", "convert2", "copy1",
                          "copy2", "grab", "publish", "trigger", "spawn"}]
  /\ frame \in [Session -> 0..MaxFrames]
  /\ target \in [Session -> Session]
  /\ rpc \in [Renderer -> {"off", "poll", "lock", "draw1", "draw2", "post", "clear"}]
  /\ canvas \in {0} \cup Renderer
  /\ source \in [Renderer -> Session]
  /\ pic \in [Renderer -> Picture]
  /\ shown \in Picture
  /\ captures \in Seq(CaptureThread)
  /\ clicks \in [Session -> 0..MaxClicks]
  /\ late \in [Session -> BOOLEAN]
  /\ crashed \in BOOLEAN

BlankPicture == [h \in Half |-> Blank]

Init ==
  /\ surface = "none" /\ sessions = 0 /\ renderers = 0 /\ viewBitmap = 0
  /\ framePrepared = FALSE
  /\ brgb = BlankPicture
  /\ bitmap = [s \in Session |-> BlankPicture]
  /\ captureBitmap = None
  /\ captureFrame = [s \in Session |-> FALSE]
  /\ dpc = [s \in Session |-> "off"]
  /\ frame = [s \in Session |-> 0]
  /\ target = [s \in Session |-> s]
  /\ rpc = [r \in Renderer |-> "off"]
  /\ canvas = 0
  /\ source = [r \in Renderer |-> 1]
  /\ pic = [r \in Renderer |-> BlankPicture]
  /\ shown = BlankPicture
  /\ captures = <<>>
  /\ clicks = [s \in Session |-> 0]
  /\ late = [s \in Session |-> FALSE]
  /\ crashed = FALSE

----------------------------------------------------------------------------
(* The UI thread. *)

\* surfaceCreated -> prepare: a new StreamCodec replaces the static
\* surfaceBitmap and its Decode thread starts.  brgb is kept.
SurfaceCreated ==
  /\ ~crashed /\ surface = "none" /\ sessions < MaxSessions
  /\ surface' = "created"
  /\ sessions' = sessions + 1
  /\ dpc' = [dpc EXCEPT ![sessions + 1] = "check"]
  /\ UNCHANGED <<renderers, viewBitmap, crashed, framePrepared, frame, target, brgb,
                 bitmap, drwVars, capVars>>

\* Mutated SurfaceChanged: the bitmap index is one too far.
SurfaceChangedOffByOne ==
  /\ ~crashed /\ surface # "none" /\ renderers < MaxRenderers
  /\ surface' = "changed"
  /\ viewBitmap' = sessions + 1
  /\ renderers' = renderers + 1
  /\ rpc' = [rpc EXCEPT ![renderers + 1] = "poll"]
  /\ UNCHANGED <<sessions, crashed, framePrepared, decVars, source, canvas, pic, shown, capVars>>

\* surfaceChanged: the view gets the newest bitmap and one more render thread;
\* the threads started before keep running.
SurfaceChanged ==
  /\ ~crashed /\ surface # "none" /\ renderers < MaxRenderers
  /\ surface' = "changed"
  /\ viewBitmap' = sessions
  /\ renderers' = renderers + 1
  /\ rpc' = [rpc EXCEPT ![renderers + 1] = "poll"]
  /\ UNCHANGED <<sessions, crashed, framePrepared, decVars, source, canvas, pic, shown, capVars>>

\* The surface goes away under the lock lockCanvas takes; the callback is empty.
SurfaceDestroyed ==
  /\ ~crashed /\ surface = "changed" /\ canvas = 0
  /\ surface' = "none"
  /\ UNCHANGED <<sessions, renderers, viewBitmap, crashed, framePrepared, decVars,
                 drwVars, capVars>>

\* onClick reaches the newest codec only.
Click ==
  /\ ~crashed /\ sessions > 0 /\ clicks[sessions] < MaxClicks
  /\ captureFrame' = [captureFrame EXCEPT ![sessions] = TRUE]
  /\ clicks' = [clicks EXCEPT ![sessions] = @ + 1]
  /\ late' = [late EXCEPT ![sessions] =
                IF captureFrame[sessions] THEN @ ELSE dpc[sessions] \in {"publish", "trigger"}]
  /\ UNCHANGED <<uiVars, framePrepared, decVars, drwVars, captureBitmap, captures>>

----------------------------------------------------------------------------
(* A Decode thread, from a decoded buffer to its publication.              *)

At(s, place) == ~crashed /\ dpc[s] = place
GoTo(s, place) == dpc' = [dpc EXCEPT ![s] = place]

\* The pixels the thread of session s is writing.
Current(s) == <<s, frame[s]>>

\* Mutated StartFrame: the flag is not looked at.
StartFrameUnchecked(s) ==
  /\ At(s, "check") /\ frame[s] < MaxFrames
  /\ frame' = [frame EXCEPT ![s] = @ + 1]
  /\ GoTo(s, "convert1")
  /\ UNCHANGED <<uiVars, framePrepared, target, brgb, bitmap, drwVars, capVars>>

\* The flag is down: this buffer becomes the next frame of the session.
StartFrame(s) ==
  /\ At(s, "check") /\ ~framePrepared
  /\ frame[s] < MaxFrames
  /\ frame' = [frame EXCEPT ![s] = @ + 1]
  /\ GoTo(s, "convert1")
  /\ UNCHANGED <<uiVars, framePrepared, target, brgb, bitmap, drwVars, capVars>>

\* The flag is up: sleep, then drop the buffer (the break of the else branch).
DropFrame(s) ==
  /\ \/ At(s, "check") /\ framePrepared /\ GoTo(s, "sleep")
     \/ At(s, "sleep") /\ GoTo(s, "check")
  /\ UNCHANGED <<uiVars, framePrepared, frame, target, brgb, bitmap, drwVars, capVars>>

\* decodeYUV420P(brgb, data): the static byte array, half by half.
Convert(s, h) ==
  /\ At(s, IF h = 1 THEN "convert1" ELSE "convert2")
  /\ brgb' = [brgb EXCEPT ![h] = Current(s)]
  /\ GoTo(s, IF h = 1 THEN "convert2" ELSE "copy1")
  /\ UNCHANGED <<uiVars, framePrepared, frame, target, bitmap, drwVars, capVars>>

\* surfaceBitmap.copyPixelsFromBuffer(brgb); the static is read as the call starts.
CopyFirst(s) ==
  /\ At(s, "copy1")
  /\ target' = [target EXCEPT ![s] = sessions]
  /\ bitmap' = [bitmap EXCEPT ![sessions][1] = brgb[1]]
  /\ GoTo(s, "copy2")
  /\ UNCHANGED <<uiVars, framePrepared, frame, brgb, drwVars, capVars>>

\* Mutated CopySecond: the static surfaceBitmap is read again for the second half.
CopySecondNewest(s) ==
  /\ At(s, "copy2")
  /\ bitmap' = [bitmap EXCEPT ![sessions][2] = brgb[2]]
  /\ GoTo(s, "grab")
  /\ UNCHANGED <<uiVars, framePrepared, frame, target, brgb, drwVars, capVars>>

CopySecond(s) ==
  /\ At(s, "copy2")
  /\ bitmap' = [bitmap EXCEPT ![target[s]][2] = brgb[2]]
  /\ GoTo(s, "grab")
  /\ UNCHANGED <<uiVars, framePrepared, frame, target, brgb, drwVars, capVars>>

\* Mutated Grab: the snapshot is taken once and never replaced.
GrabOnce(s) ==
  /\ At(s, "grab")
  /\ captureBitmap' = IF captureFrame[s] /\ captureBitmap = None THEN bitmap[sessions]
                       ELSE captureBitmap
  /\ GoTo(s, "publish")
  /\ UNCHANGED <<uiVars, framePrepared, frame, target, brgb, bitmap, drwVars,
                 captureFrame, captures, clicks, late>>

\* Mutated Grab: the request is taken down already here.
GrabAndReset(s) ==
  /\ At(s, "grab")
  /\ captureBitmap' = IF captureFrame[s] THEN bitmap[sessions] ELSE captureBitmap
  /\ captureFrame' = [captureFrame EXCEPT ![s] = FALSE]
  /\ GoTo(s, "publish")
  /\ UNCHANGED <<uiVars, framePrepared, frame, target, brgb, bitmap, drwVars,
                 captures, clicks, late>>

\* First look at captureFrame: take the snapshot.
Grab(s) ==
  /\ At(s, "grab")
  /\ captureBitmap' = IF captureFrame[s] THEN bitmap[sessions] ELSE captureBitmap
  /\ GoTo(s, "publish")
  /\ UNCHANGED <<uiVars, framePrepared, frame, target, brgb, bitmap, drwVars,
                 captureFrame, captures, clicks, late>>

Publish(s) ==
  /\ At(s, "publish")
  /\ framePrepared' = TRUE
  /\ GoTo(s, "trigger")
  /\ UNCHANGED <<uiVars, frame, target, brgb, bitmap, drwVars, capVars>>

\* Second look at captureFrame: decide whether a Capture thread starts.
Trigger(s) ==
  /\ At(s, "trigger")
  /\ GoTo(s, IF captureFrame[s] THEN "spawn" ELSE "check")
  /\ UNCHANGED <<uiVars, framePrepared, frame, target, brgb, bitmap, drwVars, capVars>>

\* A Capture thread as session s starts it.
Started(s) == [session |-> s, frame |-> frame[s], click |-> clicks[s], late |-> late[s],
               done |-> FALSE, saved |-> None]

\* Mutated Spawn: the request is left standing.
SpawnAndKeep(s) ==
  /\ At(s, "spawn")
  /\ captures' = Append(captures, Started(s))
  /\ GoTo(s, "check")
  /\ UNCHANGED <<uiVars, framePrepared, frame, target, brgb, bitmap, drwVars,
                 captureBitmap, captureFrame, clicks, late>>

\* The request is taken down and the thread started.
Spawn(s) ==
  /\ At(s, "spawn")
  /\ captureFrame' = [captureFrame EXCEPT ![s] = FALSE]
  /\ captures' = Append(captures, Started(s))
  /\ GoTo(s, "check")
  /\ UNCHANGED <<uiVars, framePrepared, frame, target, brgb, bitmap, drwVars,
                 captureBitmap, clicks, late>>

Decode(s) ==
  \/ StartFrame(s) \/ DropFrame(s)
  \/ \E h \in Half : Convert(s, h)
  \/ CopyFirst(s) \/ CopySecond(s)
  \/ Grab(s) \/ Publish(s) \/ Trigger(s) \/ Spawn(s)

----------------------------------------------------------------------------
(* A render thread. *)

In(r, place) == ~crashed /\ rpc[r] = place

\* Mutated Poll: the flag is taken down before the frame is drawn.
PollAndClear(r) ==
  /\ In(r, "poll") /\ framePrepared
  /\ framePrepared' = FALSE
  /\ rpc' = [rpc EXCEPT ![r] = "lock"]
  /\ UNCHANGED <<uiVars, decVars, source, canvas, pic, shown, capVars>>

\* framePrepared is read once per round; a round that finds it down only sleeps.
Poll(r) ==
  /\ In(r, "poll") /\ framePrepared
  /\ rpc' = [rpc EXCEPT ![r] = "lock"]
  /\ UNCHANGED <<uiVars, framePrepared, decVars, source, canvas, pic, shown, capVars>>

\* Mutated Lock: the canvas is not exclusive.
LockShared(r) ==
  /\ In(r, "lock") /\ surface # "none"
  /\ canvas' = r
  /\ rpc' = [rpc EXCEPT ![r] = "draw1"]
  /\ UNCHANGED <<uiVars, framePrepared, decVars, source, pic, shown, capVars>>

\* lockCanvas waits for the lock and keeps it until the canvas is posted.
Lock(r) ==
  /\ In(r, "lock") /\ canvas = 0 /\ surface # "none"
  /\ canvas' = r
  /\ rpc' = [rpc EXCEPT ![r] = "draw1"]
  /\ UNCHANGED <<uiVars, framePrepared, decVars, source, pic, shown, capVars>>

\* Without a surface lockCanvas returns null and drawBitmap is called on it.
DrawOnNull(r) ==
  /\ In(r, "lock") /\ canvas = 0 /\ surface = "none"
  /\ crashed' = TRUE
  /\ UNCHANGED <<surface, sessions, renderers, viewBitmap, framePrepared, decVars,
                 drwVars, capVars>>

\* canvas.drawBitmap(bitmap): the field is read once, then the pixels.
DrawFirst(r) ==
  /\ In(r, "draw1")
  /\ source' = [source EXCEPT ![r] = viewBitmap]
  /\ pic' = [pic EXCEPT ![r][1] = bitmap[viewBitmap][1]]
  /\ rpc' = [rpc EXCEPT ![r] = "draw2"]
  /\ UNCHANGED <<uiVars, framePrepared, decVars, canvas, shown, capVars>>

DrawSecond(r) ==
  /\ In(r, "draw2")
  /\ pic' = [pic EXCEPT ![r][2] = bitmap[source[r]][2]]
  /\ rpc' = [rpc EXCEPT ![r] = "post"]
  /\ UNCHANGED <<uiVars, framePrepared, decVars, source, canvas, shown, capVars>>

Post(r) ==
  /\ In(r, "post")
  /\ shown' = pic[r]
  /\ canvas' = 0
  /\ rpc' = [rpc EXCEPT ![r] = "clear"]
  /\ UNCHANGED <<uiVars, framePrepared, decVars, source, pic, capVars>>

\* Mutated Clear: the flag is left up.
ClearForgotten(r) ==
  /\ In(r, "clear")
  /\ rpc' = [rpc EXCEPT ![r] = "poll"]
  /\ UNCHANGED <<uiVars, framePrepared, decVars, source, canvas, pic, shown, capVars>>

Clear(r) ==
  /\ In(r, "clear")
  /\ framePrepared' = FALSE
  /\ rpc' = [rpc EXCEPT ![r] = "poll"]
  /\ UNCHANGED <<uiVars, decVars, source, canvas, pic, shown, capVars>>

Render(r) ==
  \/ Poll(r) \/ Lock(r) \/ DrawOnNull(r)
  \/ DrawFirst(r) \/ DrawSecond(r)
  \/ Post(r) \/ Clear(r)

\* Capture.run: the thread reads the static captureBitmap when it gets to run;
\* a null one throws, is caught, and leaves the empty file behind.
Capture(k) ==
  /\ ~crashed /\ ~captures[k].done
  /\ captures' = [captures EXCEPT ![k] = [@ EXCEPT !.done = TRUE, !.saved = captureBitmap]]
  /\ UNCHANGED <<uiVars, framePrepared, decVars, drwVars, captureBitmap, captureFrame,
                 clicks, late>>

Next ==
  \/ SurfaceCreated \/ SurfaceChanged \/ SurfaceDestroyed \/ Click
  \/ \E s \in Session : Decode(s)
  \/ \E r \in Renderer : Render(r)
  \/ \E k \in DOMAIN captures : Capture(k)

\* The scheduler runs every thread, and surfaceChanged follows surfaceCreated.
Fairness ==
  /\ WF_vars(surface = "created" /\ SurfaceChanged)
  /\ \A s \in Session : WF_vars(Decode(s))
  /\ \A r \in Renderer : WF_vars(Render(r))
  /\ WF_vars(\E k \in DOMAIN captures : Capture(k))

Spec == Init /\ [][Next]_vars /\ Fairness
----------------------------------------------------------------------------
(* What the hand-over promises.                                            *)

\* One Decode thread and one render thread: the configuration in which
\* framePrepared works as a one-place hand-over.
SingleSession == sessions <= 1
SinglePair    == sessions <= 1 /\ renderers <= 1

Whole(p) == p[1] = p[2]
Newer(p, q) == \A h \in Half : p[h][2] >= q[h][2]

\* No picture on the screen mixes two frames: lines 384-395 write the bitmap
\* only while the flag is down, and run() draws only while it is up.
NoTornPicture == SinglePair => Whole(shown)

\* However many render threads surfaceChanged has left running, the screen
\* never goes back to an older frame: the canvas lock makes the order in
\* which the bitmap is read the order in which pictures are posted.
NeverBackwards == [][SingleSession' => Newer(shown', shown)]_shown

\* The flag goes down only after the frame it announced is on the screen.
NoFrameLost ==
  [][SinglePair' /\ framePrepared /\ ~framePrepared' =>
       shown = [h \in Half |-> <<1, frame[1]>>]]_framePrepared

\* The frames of session s that have gone to a bitmap.
FramesCopied(s) ==
  IF dpc[s] \in {"convert1", "convert2", "copy1", "copy2"} THEN frame[s] - 1 ELSE frame[s]

\* However many sessions fill the one brgb and the newest bitmap and mix their frames
\* there (lines 387-390), what a Decode thread has overwritten does not come back:
\* the bitmap it copies to keeps nothing of its own frames before the last one copied,
\* also when another thread copies meanwhile or a new bitmap takes its place.
NoOldPixels ==
  \A s \in Session, h \in Half :
    LET p == bitmap[target[s]][h] IN p[1] = s => p[2] >= FramesCopied(s)

\* A click is served at most once, however it falls into the test and the reset
\* of captureFrame (lines 397 and 398), and by its own session: since the thread
\* started before for that session, if any, each Capture thread has a new click.
ClickServedOnce ==
  \A k \in DOMAIN captures :
    LET c == captures[k] IN
    /\ c.click > 0
    /\ \A j \in 1..(k - 1) : captures[j].session = c.session => captures[j].click < c.click

\* A snapshot is a whole frame, and not older than the frame on which its
\* thread was started, unless the click fell between the two looks at
\* captureFrame (lines 392 and 397): then it may be stale, or empty.
CaptureFresh ==
  SingleSession =>
    \A k \in DOMAIN captures :
      LET c == captures[k] IN
      c.done /\ ~c.late =>
        c.saved # None /\ Whole(c.saved) /\ c.saved[1][2] >= c.frame

\* With one thread of each kind the hand-over is the one-frame slot: a frame
\* enters when framePrepared is set and leaves when its picture is posted.
Published == IF dpc[1] \in {"convert1", "convert2", "copy1", "copy2", "grab", "publish"}
               THEN frame[1] - 1 ELSE frame[1]
Waiting == IF framePrepared /\ ~(renderers > 0 /\ rpc[1] = "clear") THEN Published ELSE 0

Slot == INSTANCE FrameSlot WITH
          put <- Published, slot <- Waiting, shown <- {shown[h][2] : h \in Half},
          stopped <- crashed

\* The hand-over through framePrepared (lines 383-397) and run() of the view is
\* that slot, with the frames put, waiting and shown as above.
ImplementsSlot == Slot!Spec

\* A published frame is drawn and the flag comes down, unless drawing on a
\* destroyed surface has ended the process.
FlagComesDown == framePrepared ~> ~framePrepared \/ crashed

\* A click that more frames follow starts a Capture thread, and it runs.
ClickIsServed ==
  \A s \in Session, n \in 0..(MaxClicks - 1) :
    (captureFrame[s] /\ Len(captures) = n /\ frame[s] < MaxFrames) ~>
      (crashed \/ (Len(captures) > n /\ captures[n + 1].done))
=============================================================================
