# StreamCodec: models, checks and proofs

StreamCodec is an Android application that plays an H.264 file: it cuts the
file into NAL units, decodes them with MediaCodec, converts the pictures with
libyuv, draws them on a SurfaceView, writes JPEG snapshots on a click and
records the stream into an MP4 file with libmp4v2. This directory holds TLA+
models of its own code, TLC configurations that check them on small instances,
and proofs of the main safety properties for every size, checked by TLAPS.

Paths below are those of the repository; Java files lie under
`src/com/powervision/video/`, native ones under `jni/`.

## 1. Inventory

### Components

| Part | State it keeps | Operations | Talks to |
|---|---|---|---|
| `MyActivity` (UI thread) | `codec`, `extractor`, the view | `surfaceCreated` (calls `prepare`), `surfaceChanged`, `surfaceDestroyed` (empty), `onClick` | makes extractor, codec and render threads; sets `closeWriter` and `captureFrame` |
| `ui/MySurfaceView` (render threads) | `bitmap`, `canvas`, `holder` | `run` polls `framePrepared`, `draw`, takes the flag down | reads the bitmap the Decode thread writes |
| `media/codec/StreamCodec` (a Decode thread per session, a Capture thread per snapshot) | static: `framePrepared`, `brgb`, `surfaceBitmap`, `captureBitmap`, `mExtractor`, `closeWriter`; per object: `captureFrame`, `inputDone`, `outputDone`, buffer arrays, `writer` | `Decode.run`, `Capture.run`, `initCodec`, `openCodec` | pulls frames from the extractor, drives MediaCodec, calls the writer |
| `media/extractor/FileDataExtractor` | static `naluList`; `bytes`, `decodeNaluIndex`, `Sps`, `Pps` | `openDataExtractor`, `start` (scan), `getFrame` | called by the UI thread (scan) and by Decode threads (`getFrame`) |
| `writer/AVCWriter`, `videoutil/source/interface.cpp` | the native object | `init`, `open`, `writeFrame`, `close` | forward to `Mp4_Writer` |
| `videoutil/source/mp4_writer.cpp` | `mp4_file`, `video_frame_number`, the parameter sets, an output buffer | `DoStartRecord`, `DoStopRecord`, `WriteEncodedVideoFrame`, `WriteH264Frame` | libmp4v2 |
| `imageutil/source/image_convert.c`, `media/codec/Convert.java` | none (a table of products in the native part) | nine routines that make RGB of a picture; only `decodeYUV420P` is called | libyuv |
| factories, interfaces, `StreamDataExtractor` | none | constructors, stubs | |
| `videoutil/source/mp4_extractor.cpp`, `utils.cpp` | a list of offsets, the file in memory, the frame in hand | `get_to_list`, `get_sps_pps`, `get_frame`, `release_frame`, called by `native_test` of `interface.cpp`, which no Java class declares | `Mp4_Writer` |
| `jni/lib*` | | vendored libyuv, libmp4v2, libjpeg, libpng, libz | |

There are no tests. Nothing is locked and no field is volatile: threads meet
through static fields and the lock inside the Android surface.

### What is hard, and what correctness means

* **Frame hand-over.** One boolean, `framePrepared`, keeps the Decode thread
  off the bitmap while the render thread draws it. Correct: no torn picture,
  no frame announced and not drawn, no going back, nobody waits forever. Hard:
  every `surfaceChanged` adds a render thread, every `surfaceCreated` a
  session, and none of them ever ends.
* **Snapshots.** A request is looked at twice (lines 392 and 397 of
  `StreamCodec.java`), served by a third thread from a static. Correct: a click
  is served, at most once, with a whole and fresh picture.
* **Decode loop.** A wait without limit for an input buffer, on the thread that
  releases the output buffers; notices that change the buffer array; the end
  of the stream. Correct: no lock-up, no stale array, ends drained.
* **Recording.** `closeWriter` is tested and acted on in two steps, static and
  never taken down; results of libmp4v2 are ignored. Correct: the file is the
  stream in order with its parameter sets, closed once and for all.
* **The source.** A static list filled again by every session while Decode
  threads read it; an index shared through a static reference; wrap-around at
  the last entry. Correct: whole NAL units, in file order, over and over.
* **Cutting NAL units.** Two byte loops, in Java at four-byte codes and in C++
  at three-byte codes. Correct: together they lose and merge nothing.
* **Start-up, and one file for all.** `prepare` looks at no result and no status,
  every session of every life of the process creates the same
  `/sdcard/test.mp4`, and Android may end the process at any moment. Correct:
  it throws only on files that cannot be played, a recording holds nobody else's
  bytes, and a finished one is not lost to a launch that could not record.
* **The native extractor.** Its buffer is as long as the file, and the scans look
  past its end. Correct: it cuts the file at its start codes whatever lies
  there, frees the frames it copies, all but the one it stops at, and aborts only without
  parameter sets. The copies of the sets, the buffer and the objects are never freed.
* **Colours.** Five walks over the same picture and five copies of the formula,
  with hand-written skips, rewinds, casts and tables. Correct: each pixel is
  made from its own bytes, and the copies agree.

`PROJECT.json` lists the hazards one by one with their lines and the properties
that cover them, or the reason why none does.

## 2. Modules

| Module | Models | State and actions |
|---|---|---|
| `Display` | hand-over and snapshots: `MyActivity`, `MySurfaceView`, lines 379-411 and `Capture` of `StreamCodec` | the shared statics, and a place for each Decode, render and Capture thread; one action per statement that reads or writes a shared field |
| `FrameSlot` | the abstract promise of the hand-over: a slot for one frame | `Put`, `Show`, `Stop`; `Display` implements it through `Slot` |
| `DecodeLoop` | `Decode.run` around MediaCodec | owner and number of the buffers, the loop's flags; one action per call the loop makes. MediaCodec is external: `Parse`, `DecodePicture`, `Emit`, `Reconfigure`, `SeeEos`, `EmitEos` |
| `Mp4Writer` | `mp4_writer.cpp`, as operators on a writer record | `DoStartRecord`, `DoStopRecord`, `WriteEncodedVideoFrame`; `Split` is its loop over a payload, `Groups` what it has handed to `WriteH264Frame` in the end, and `Only` with `Sample` what that makes a sample of |
| `Recorder` (run by `MCRecorder`) | the recording of all sessions; composes `Mp4Writer` with the Decode threads and the click | `closeWriter`, a writer and a Decode thread per session, the disk |
| `NaluSource` | `FileDataExtractor.getFrame` and `getNaluList`, with all sessions | the static list, the extractors, and each Decode thread's place in `getFrame`; one action per read or write of a shared field |
| `AnnexB` (run by `MCAnnexB`) | the two byte loops that cut the file | bytes, loop index, list, the NAL unit begun, the buffer, the groups of the current payload (`groups`) and of those done (`written`); one action per branch of a loop body. `GroupsAsModelled` ties it to `Mp4Writer` |
| `Startup` (run by `MCStartup`) | `prepare` on every kind of file, the one recording on the card, deaths and restarts of the process | the input, the statics of one life, the writers' handles, and of the recording who created it, whose bytes it holds and whose index it got; `prepare` in four steps, a round of a Decode thread in one; `Launch` and `Kill` around them |
| `NativeExtractor` (run by `MCNativeExtractor`) | `mp4_extractor.cpp` under `native_test` | file and heap behind it, list, index, the frame in hand and the frames allocated; one action per round of the scan and per call |
| `Convert` (run by `MCConvert`) | `Convert.java` and `image_convert.c` | per pixel the offsets of the bytes it was made from, one action per pixel, block or picture of each walk; then the arithmetic on one pixel |
| `DisplayProofs`, `DecodeLoopProofs`, `RecorderProofs`, `NaluSourceProofs`, `AnnexBProofs`, `StartupProofs`, `NativeExtractorProofs`, `ConvertProofs` | theorems about the modules they extend | |
| `MC...` | the inputs for TLC: files, payloads, sizes of pictures | |

Operators called "Mutated ..." are plausible mistakes in the code; replacing
the definition below each of them by it breaks the property `PROJECT.json` names
with it. They are no part of a specification.

### Abstractions and assumptions

* *Pixels.* A picture is two halves, each holding the frame it belongs to;
  filling and drawing take a step for each half, so a thread can be caught in
  between. What the conversion takes for each pixel is in `Convert`.
* *Memory.* Fields are plain, so the Java memory model allows stale reads. The
  models interleave whole reads and writes (sequential consistency): between
  any two of these accesses lies a native call, a lock or a sleep.
* *Surface* (external). `lockCanvas` takes a lock that `unlockCanvasAndPost`
  gives back; taking the surface away needs the same lock; without a surface
  `lockCanvas` returns null. Clicks arrive only once a codec has been made.
  `crashed` is the process that an uncaught exception has ended.
* *`HASSURFACE` is false* in the code, so `mSurface` is null and frames take the
  path through `brgb`. The debug outputs are switched off by constants.
* *MediaCodec* (external). It takes one input at a time, needs a free output
  buffer for a picture, may keep back `Depth` pictures, gives notice of new
  buffers before a new format and that before any buffer, and changes
  buffers only when none is out. The end-of-stream mark leaves in a buffer of its own.
* *libmp4v2* (external). Calls with a NULL handle do nothing; creating a file may
  fail; a full disk stays full, and samples of one payload fail together.
  Sessions have a file each in `Recorder`; that the code gives them all
  `/sdcard/test.mp4` is the subject of `Startup`, where the file is who created
  it, who wrote to it and who closed it last, not its samples.
* *The file* begins with SPS and PPS, has at least one more NAL unit
  (`FileAssumption`) and fits the array. `Startup` drops the first two of these: there
  it may be missing, empty, without codes, without parameter sets or without frames. In `NaluSource` an offset is the number of NAL units
  before it. `ArrayList.add` is atomic there.
* *Payloads* in `Recorder` are sequences of kinds of NAL units. A parameter set of
  28 bytes is a kind of its own, since the writer treats it differently.
* *The process* (`Startup`). A new life finds new statics, the recording as it was
  left and an input file that may have been exchanged; within a life the file
  stays. A round of a Decode thread, from `getFrame` to the writer, is one step.
* *The heap* (`NativeExtractor`). The bytes behind the buffer are chosen at the
  start and stay, as nothing else runs. `malloc` of a real size succeeds;
  a size below zero or `at` behind the end ends the process (`aborted`).
* *Colours* (`Convert`). Pictures have even sides (`SizesAssumption`); the
  arithmetic does not depend on the pixel, so it is done once, for a pixel
  of any bytes. Products with 0.344 and 0.714 are exact thousandths. The alpha byte is left out.
  Of libyuv there are the row loops (`RowLoop`, `I420ToARGB`, `NV12ToARGB`) over the given offsets and strides;
  its own arithmetic is not looked at. Several routines have a planar name but read interleaved
  pairs: `jdecodeYUV420P` and `YUV420PtoARGB8888`, for example. The model follows what they read.

## 3. Runs

All runs switch the deadlock check off: `MaxFrames` and the other bounds, a crash,
and the end of the stream really stop the models.

| Run | Instance | States | Shows |
|---|---|---|---|
| `Display_pair` | 1 session, 1 render thread, 4 frames, 2 clicks | 13,501 | `NoTornPicture`, `NoFrameLost`, and that `Display` implements `FrameSlot`, liveness included |
| `Display_threads` | 1 session, 2 render threads, 2 frames, 2 clicks | 72,459 | with an extra render thread the screen still never goes back (`NeverBackwards`), the flag comes down (`FlagComesDown`), snapshots are whole and fresh (`CaptureFresh`), clicks are served (`ClickIsServed`) |
| `Display_sessions` | 2 sessions, 1 render thread, 2 frames, 1 click each | 1,308,901 | with two Decode threads on the same statics a click starts at most one Capture thread, and one of its own session (`ClickServedOnce`), and no overwritten pixel comes back to a bitmap (`NoOldPixels`) |
| `DecodeLoop` | 2 input, 3 output buffers, depth 2, 3 format changes | 8,648 | `NoStall`, `ArrayFresh`, `DrainedAtEnd`, `InputComesFree`, `EosEndsLoop` |
| `Recorder_file` | 1 session, 10 payloads, 3 written after the set-up | 681,128 | `RecordedInOrder`, `SetsBeforeSlices` with failing creation, a full disk and a click at any time |
| `Recorder_click` | 2 sessions, 3 payloads, 2 written | 399,321 | `AtMostOneAfterClick`, `OldClickRecordsNothing`, `FinalIsFinal`, `ClickCloses` |
| `NaluSource` | 4 NAL units, 2 sessions | 765,619 | `FirstFramesWhole`, `InFileOrder`, `LoopsForever` |
| `NaluSource_again` | the same | | **violation** of `GetsOneFrame`, see below |
| `Startup` | 3 lives, 2 sessions each, 11 kinds of file | 56,523 | `ThrowsOnlyForBadFiles`, `OwnBytesOnly`, `FinishedStays`, `ClickFinishes` |
| `NativeExtractor` | every file of up to 5 parts out of `00000001`, an SPS, a PPS, a slice byte, a zero; 5 heaps; limit 3 | 218,690 | `CutsTheFile` against a definition of start codes from the file alone, `NothingLeaks`, `AbortsOnlyWithoutSets` |
| `Convert` | 9 sizes from 2 x 2 to 6 x 6, 12 levels of each byte | 47,046 | `OwnSamples` for five walks, `ColoursAgree` for six routines |
| `AnnexB` | every file of up to 6 parts out of `00000001`, `000001`, an SPS byte, a slice byte, a zero | 289,083 | `RecordsEveryUnit` against a definition of NAL units from the bytes alone, `GroupsAsModelled`, `BufferFits` |

**Why the bounds are enough.** A frame interacts with the one before and after
it and a click with two looks at it, so four frames and two clicks let every
overlap happen in `Display_pair`. Two render threads are enough to race each
other, and two sessions to share the statics. With two frames each session gets to lines 397-402 twice,
so a click could be served a second time, and a frame could leave pixels of the one before; a second
render thread would multiply the states and only draw, which neither property is about. `NoStall` is tight in the
number of output buffers: instances with `OutBuffers` equal to the larger of
`Depth` and 2 do stall. Three payloads put a slice, an SEI and a
parameter set in every order, and the tenfold choice covers each way a payload is cut.
Four NAL units are SPS, PPS and two frames, the smallest file with a frame that
wraps and one that does not. Six parts are enough for two codes
of different length, an empty unit, and zeros in front of a code. Three lives are one
to finish a recording, one to lose it or not, and one to see what is left;
a second session meets a full list and the first one's writer. The native files have up to five codes, more than the limit, and the
heaps finish a code begun in the file or look like a parameter set. Three
squares each way give a first, an inner and a last line and column of
squares, and the levels hold both ends of every clamp. Where a bound could hide something, the proofs
below are for every value of it.

**What the properties do not promise.** `NoTornPicture` and `NoFrameLost` hold with one thread of
each kind (`SinglePair`) and `NeverBackwards` and `CaptureFresh` with one session: with more
the code gives no such guarantee. A click between lines 392 and 397 may yield a
stale or an empty snapshot, which `CaptureFresh` exempts by name (`late`).
`FlagComesDown` and `ClickIsServed` end with the process when a render thread draws on a
destroyed surface. `ClickServedOnce` is about one session's own clicks: a click that finds
no further frame is never served. `NoOldPixels` says only that a session mixes in none but its newest pixels; that
two sessions mix at all is what the code does. `EosEndsLoop` starts from a mark that was queued: the mark is lost, and
the loop polls on, when no input buffer comes free within 10 ms.
`ClickCloses` exempts a source that has ended before the click.
`FinishedStays` and `ClickFinishes` speak of the first session of a life: a second one
truncates the file the first still writes to, and the index is then written into a
file that is no longer its own. `ClickFinishes` also ends with the process, with an
unplayable file and with a file that could not be created. `OwnSamples` names the
bytes that are wrong (`Expected`): `ccvt_420p_rgb565` takes the chroma of the squares below for the first
two pixels of odd lines, `decodeYUV420SP` passes half the stride of its pairs and
gets only the first two lines right, and the walk in blocks needs a width above 2.
`ColoursAgree` leaves out blue of `jdecodeYUV420SP`, which is set in all
pixels, dark luma with the tables, and green of the block routines. None of these routines is called.

Some hazards really happen in the code, and the properties next to them say how far they go instead
of excluding them. `SetsBeforeSlices` excepts parameter sets of exactly 28 bytes, which the writer takes for ones
it has (`mp4_writer.cpp`, line 200). `BufferFits` bounds what is copied by one byte more than the payload for each
three-byte code, and the 2048 spare bytes stand for that many of them. `OwnBytesOnly` allows bytes of earlier sessions
of the same process. `NothingLeaks` allows the frame the limit leaves, and counts frames only.
`OwnSamples` has the wrong chroma in `Expected`. `ThrowsOnlyForBadFiles` and `ClickFinishes` except a NAL unit that is larger than an
input buffer. That with one session `getFrame` never throws is proved
(`SingleSound`); the run has it through `LoopsForever`, which an exception would break.

**Finding.** `NaluSource_again`: `FileDataExtractor.naluList` is static and never
cleared. After a second `surfaceCreated` (for instance after the screen
was off) it holds the offsets twice; the entry behind the first file length is
the first offset again, and `getFrame` asks for an array of negative length.
`IDataExtractor.java` line 9 promises one frame per call.

### Fairness

* Threads (`Decode(s)`, `Render(r)`, Capture, `Loop`, `Record(s)`, `GetFrame(s)`): weak fairness
  for each, as the Android scheduler runs every runnable thread. No action
  needs strong fairness: sleeps and `lockCanvas` are not given up.
* `surface = "created" /\ SurfaceChanged`: Android calls `surfaceChanged` at
  least once after `surfaceCreated`.
* `ScanNalu`, `StartDecode`: the UI thread finishes `prepare`.
* MediaCodec: weak fairness of taking and decoding input and of delivering
  what is kept back after the end of the stream. It is *not* assumed to deliver kept-back pictures
  before that.
* `Startup`: `Prepare` (the UI thread finishes what it has begun) and `Decode(s)`.
  None for `Launch`, `Kill`, `Click` and new sessions. `NativeExtractor` and
  `Convert` are sequential and have safety properties only.
* No fairness for clicks, surface changes and destruction, the disk filling up, the end of the source.

## 4. Proofs

TLAPS checks all of them from the specifications, for every value of the
constants that meets the named assumptions (`BoundsAssumption`, `NoneAssumption`, `BuffersAssumption`,
`PayloadsAssumption`, `FileAssumption`, `InputsAssumption`, `FilesAssumption`, `SizesAssumption`), which TLC evaluates in the runs.

* **`DisplayProofs`.** `IInv` is the types, `Lifecycle` (a running thread
  belongs to a session or render thread that exists) and `HandOver`: if there is one thread of
  each kind, then the Decode thread writes only with the flag down and
  the render thread reads only with it up (`Turns`), and the pixels written (`Written`) and read
  (`Drawn`) so far belong to the newest frame. `NoTornPicture` alone is not
  inductive, since it says nothing of a picture half drawn. `NeverTorn` and `NoneLost` follow
  from it; `ServedAtMostOnce` has an invariant of its own (`Requests`): a pending request is newer than the last click
  served, for any number of sessions. `OldPixelsGone` has another (`Gone`): neither `brgb`,
  nor the bitmap a session copies to, nor the newest bitmap has pixels of that session older than what it has last
  converted, or copied. The newest bitmap is in it because a Decode thread may change over to it at its next frame.
* **`DecodeLoopProofs`.** `NeverStalls` needs a bound on the work
  the loop can have piled up in the codec when it waits (`Backlog`): a round adds one item and takes one
  out, unless nothing is ready or it gets a notice. `Books` ties the counters to the loop's place;
  `ArrayTracked` and `Draining` give `AlwaysFresh` and `EndsDrained`.
* **`RecorderProofs`.** What a session has handed over is counted against the
  place of its thread and the flag (`Counted`, `Silent`, `Closing`): `OneAfterClick`,
  `StaleSessionSilent`, `ClosedStaysClosed`, for any payloads and any number of sessions.
  The second half is about the file. `LoopKeepsAll` shows that the loop of the writer
  (`Split`) has written, or still holds, all of a payload but SEI, in order, after each of its NAL units; with it the
  invariant `FileInv` ties the samples of each writer to what was handed over, to the failures met and
  to the configuration. `TypeCorrect`, `AllRecordedInOrder` and `SetsComeFirst` follow.
* **`NaluSourceProofs`.** The list always starts with one copy of the offsets
  (`Contents`); the first extractor has one user (`Private`); what a thread has read is still true
  when it is used (`Reading`), also while the list grows. With them `FirstAlwaysWhole`, and with a
  single session `SingleSound` and `SingleInOrder`.
* **The second part of `DisplayProofs`** builds on that invariant. `Locked` says who holds the
  surface; with one session `Copied` and `Screen` order the frames in `brgb`, the bitmap, what a render thread has
  drawn so far and the screen, and `Snapshots` ties a Capture thread to the frames since its
  click. From it `OnlyForward` and `SnapshotsAreFresh`, for any number of render threads. `RefinesSlot` shows the
  initial states and every step of `Display` to be those of `FrameSlot` under its refinement
  mapping, if at most one render thread and one session exist (`OnePair`).
* **`AnnexBProofs`.** The loops know the bytes up to an index, `RecordsEveryUnit` speaks of the
  whole file, and NAL units end where the *next* code is. The invariant bridges that: the list holds the codes that do not
  overlap, and none comes before the first (`Scanned`, `Pieces`); the NAL unit begun last lies behind a code and no other
  code has ended since (`Begun`); so what was handed over or waits is what lies before that code
  (`Complete`), in the groups `Split` makes (`Grouped`), and what waits is no longer than what it was read from but for
  the three-byte codes (`Room`). `CodeEndsUnit` and `PayloadEndsUnit` show that the length the code
  computes is the one the bytes define. `NothingLost`, `GroupsCorrect`, `NeverTooLong` hold for files of
  any bytes and any length, and `LengthNeverNegative` adds that the unsigned `copy_len` does not wrap around.
* **`StartupProofs`.** `Phases` says what each place in `prepare` implies for the file and its sets, `ListOK`
  that the list begins with the offsets of the file, `FirstSession` that a first session's index
  stays inside the list, `Holders` that only writers of this life have open handles, none
  of them later than the recording's owner. `ThrowsForBadFiles`, `RecordsOwnBytes` and `FinishedRemains` follow for any set of files.
* **`NativeExtractorProofs`.** `Scan` and `Listed`: the list holds exactly the codes passed, in order, and
  besides them only entries in the last three bytes; `Frames`: what was handed over and what is in hand
  are consecutive entries; `Aborted`: the sets were not there. For any file, heap and limit.
* **`ConvertProofs`.** `AllColoursAgree` is for all bytes, not only the levels of the run. `WalkInv`
  says where each walk is and what it has written: all pixels up to the one reached, or,
  for the walk in blocks, both lines of the blocks done (`Covered`). `Grid` and its lemmas turn `\div` and `%` by the width into
  lines and columns, and `EveryPixelItsOwn` is `OwnSamples` for every even width and height.

**Recursion.** `Only`, `Split`, `Taken` and `FlattenSeq` are recursive functions. The provers
cannot use the library's theorems for induction and recursion, which take an operator as a
parameter. `RecorderProofs` and `AnnexBProofs` state them for sets instead: `Induction` takes the set of
numbers that have a property and follows from the library's theorem that `<` on the naturals is
well-founded, `SequenceInduction` does the same for sequences, `Recursion` and `Unique` say that a function
defined step by step exists and is the only one. From these each recursive operator gets one lemma for the empty
sequence and one for a member more (`OnlyAppend`, `FlattenAppend`, `EndAppend`, `TakenAppend`), and the
proofs use nothing else about it. Both modules carry these lemmas, as each extends its own component.

**Only model-checked.** Liveness: `FlagComesDown`, `ClickIsServed`, `InputComesFree`, `EosEndsLoop`,
`ClickCloses`, `LoopsForever`, `ClickFinishes`, and the fairness half of `ImplementsSlot`. Every
invariant and every action property that a run checks is also a theorem.

## 5. Not modelled

* *Vendored libraries*: libmp4v2, libyuv, libjpeg, libpng and libz are all but some 2500 of the repository's 244,000 lines.
  They are third-party code the application calls at a few points; what it relies on
  there is stated under *Abstractions*. The models
  translate about 1270 of the remaining lines, which hold nearly all statements that are executed.
* *Snapshot files*: names from the wall clock (two clicks within a second share one) and JPEG compression are the system's.
* *What MediaCodec delivers*: the size of its buffers beyond "fits or not", the contents of the last one.
* *Durations and time stamps* of samples: every sample gets the same constants.
* *`framebuffer_main`* draws a bar into `/dev/graphics/fb0` and its only call is commented out;
  *`writeJpegFileFromYUV420`* returns before it opens its file; *`JNI_OnLoad`* registers methods.
* *Factories, interfaces, `StreamDataExtractor`*: constructors, constants and a stub nothing creates.

## 6. Order of the work

The models were written in the order of their weight for the running program: `Display` with `FrameSlot`,
`DecodeLoop`, `Recorder` with `Mp4Writer`, `NaluSource`, `AnnexB`; then the faults around them in `Startup`, and
the parts that no Java code calls, `NativeExtractor` and `Convert`. Proofs followed each module.

Left to do:

1. `NaluSource`, `Recorder` and `DecodeLoop` composed on one Decode thread. `Startup` does it for
   start-up and recording, with a round of the loop as one step.
2. One theorem from the bytes of a file to the samples in the recording: `AnnexBProofs` ends at the groups
   handed to `WriteH264Frame`, `RecorderProofs` begins with the kinds of the same NAL units.
