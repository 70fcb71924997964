----------------------------- MODULE Mp4Writer -----------------------------
(***************************************************************************)
(* The MP4 writer (mp4_writer.cpp) as operators on a writer record.        *)
(*                                                                         *)
(* A payload is what the Java side hands over in one writeFrame: a         *)
(* sequence of NAL units, of which only the kind matters.  The length      *)
(* prefixes that replace the start codes and the bytes are left out.       *)
(***************************************************************************)
EXTENDS Naturals, Sequences, SequencesExt

\* SPS28 and PPS28 are parameter sets of 28 bytes, 32 with the length prefix:
\* the initial value of video_h264_sps_size and video_h264_pps_size.
SpsKinds == {"SPS", "SPS28"}
PpsKinds == {"PPS", "PPS28"}
Kind     == SpsKinds \cup PpsKinds \cup {"SEI", "SLICE"}

\* A writer: its file handle, whether video_frame_number is still 1, whether
\* the file has its parameter sets, and the samples of the video track.
NewWriter == [handle |-> "none", first |-> TRUE, sps |-> FALSE, pps |-> FALSE, samples |-> <<>>]

\* Mutated DoStartRecord: a failed MP4CreateEx leaves its result in mp4_file.
DoStartRecordUnchecked(w, created) ==
  [w EXCEPT !.handle = IF created THEN "open" ELSE "invalid"]

\* MP4CreateEx may fail; nobody looks at the result.
DoStartRecord(w, created) == [w EXCEPT !.handle = IF created THEN "open" ELSE "none"]

\* Mutated DoStopRecord: only the buffer is freed.
DoStopRecordOpen(w) == w

\* Mutated DoStopRecord: mp4_file is not set to NULL, and is freed once more.
DoStopRecordDangling(w) ==
  [w EXCEPT !.handle = CASE @ = "open" -> "closed" [] @ = "closed" -> "freed" [] OTHER -> @]

\* MP4Close ignores a NULL handle, so a second call does nothing.
DoStopRecord(w) == [w EXCEPT !.handle = IF @ = "open" THEN "closed" ELSE @]

----------------------------------------------------------------------------
\* Mutated Split: the write position is not set back after a flush.
SplitPilingUp(p, waits) ==
  LET split[n \in 0..Len(p)] ==
        IF n = 0 THEN [written |-> <<>>, buffer |-> <<>>]
        ELSE LET before == split[n - 1]
                 units  == Append(before.buffer, p[n])
             IN  [written |-> IF p[n] \in waits THEN before.written ELSE Append(before.written, units),
                  buffer  |-> units]
  IN  split

\* The loop over a payload, for each number of NAL units done: the groups that
\* went to WriteH264Frame and those units that wait in video_payload_data.  Any
\* unit not in the set waits flushes the buffer.
Split(p, waits) ==
  LET split[n \in 0..Len(p)] ==
        IF n = 0 THEN [written |-> <<>>, buffer |-> <<>>]
        ELSE LET before == split[n - 1]
                 units  == Append(before.buffer, p[n])
             IN  IF p[n] \in waits
                   THEN [written |-> before.written, buffer |-> units]
                   ELSE [written |-> Append(before.written, units), buffer |-> <<>>]
  IN  split

\* An SPS, PPS or SEI is flushed at once.
Waiting == Kind \ (SpsKinds \cup PpsKinds \cup {"SEI"})

\* What still waits at the end of the payload is written as its last group.
Groups(p, waits) ==
  LET end == Split(p, waits)[Len(p)]
  IN  IF end.buffer = <<>> THEN end.written ELSE Append(end.written, end.buffer)

\* The members of a sequence that lie in a set, in their order.
Only(s, kept) ==
  LET only[n \in 0..Len(s)] ==
        IF n = 0 THEN <<>>
        ELSE IF s[n] \in kept THEN Append(only[n - 1], s[n]) ELSE only[n - 1]
  IN  only[Len(s)]

\* WriteH264Frame looks at the first NAL unit of a group.  SEI is dropped and
\* all else becomes a sample.
Sample == {g \in Seq(Kind) : g[1] # "SEI"}

\* Mutated Configures: a picture parameter set only becomes a sample.
ConfiguresSpsOnly(groups, kind) ==
  kind = "SPS" /\ \E j \in DOMAIN groups : groups[j][1] = kind

\* A parameter set also goes into the track's configuration, unless it has the
\* length its size field starts with.  Only the first one of a kind gets there.
Configures(groups, kind) == \E j \in DOMAIN groups : groups[j][1] = kind

\* Until a payload starts with an SPS and the track can be made, nothing is
\* written.  Without a handle, and on a full disk, libmp4v2 adds no sample.
MayStart(w, p) == w.first => p[1] \in SpsKinds /\ w.handle = "open"

WriteEncodedVideoFrame(w, p, full) ==
  LET groups == Groups(p, Waiting)
  IN  IF MayStart(w, p) /\ w.handle = "open"
        THEN [w EXCEPT !.first = FALSE,
                       !.sps = @ \/ Configures(groups, "SPS"),
                       !.pps = @ \/ Configures(groups, "PPS"),
                       !.samples = IF full THEN @ ELSE @ \o Only(groups, Sample)]
        ELSE w
=============================================================================
