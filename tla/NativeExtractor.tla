-------------------------- MODULE NativeExtractor --------------------------
(***************************************************************************)
(* H264_Extractor (mp4_extractor.cpp) under native_test (interface.cpp):   *)
(* list the start codes of a file, copy its parameter sets, then fetch,    *)
(* write and release one frame after the other.                            *)
(*                                                                         *)
(* Unlike its Java counterpart the buffer is as long as the file, and both *)
(* scans look past its end: "heap" is whatever lies there.  Offsets count  *)
(* from 0 as in the code, entries of nalu_list from 1.                     *)
(***************************************************************************)
EXTENDS Integers, Sequences

CONSTANTS Files, Heaps,   \* contents of the file, and of the bytes behind it
          Missing,        \* no such file
          Limit           \* frames written at most: 1000 in native_test

ASSUME FilesAssumption ==
  /\ Files \subseteq Seq(0..255) \cup {Missing}
  /\ Heaps \subseteq [1..5 -> 0..255]
  /\ Limit \in Nat

VARIABLES
  file, heap,
  place,         \* "open", "list", "sets", "frames", "aborted" or "done"
  i,             \* index of the scan
  nalu_list,     \* offsets of the start codes, and the length of the file
  frame_index,
  payload_data,  \* the frame in hand, [at, to], or NULL
  live,          \* frames allocated and not freed
  handed         \* frames given to WriteEncodedVideoFrame

listVars  == <<i, nalu_list>>
frameVars == <<frame_index, payload_data, live, handed>>
vars == <<file, heap, place, listVars, frameVars>>

NULL == <<>>

Mem(j) == IF j < Len(file) THEN file[j + 1] ELSE heap[j - Len(file) + 1]

Init ==
  /\ file \in Files /\ heap \in Heaps
  /\ place = "open" /\ i = 0 /\ nalu_list = <<>>
  /\ frame_index = 0 /\ payload_data = NULL /\ live = 0 /\ handed = <<>>

----------------------------------------------------------------------------
(* get_to_list; native_test does not look at its result. *)

Open ==
  /\ place = "open"
  /\ place' = IF file = Missing THEN "sets" ELSE "list"
  /\ UNCHANGED <<file, heap, listVars, frameVars>>

\* Mutated CodeAt: a three-byte start code counts as well.
CodeAtShort(j) == Mem(j) = 0 /\ Mem(j + 1) = 0 /\ (Mem(j + 2) = 1 \/ (Mem(j + 2) = 0 /\ Mem(j + 3) = 1))

CodeAt(j) == Mem(j) = 0 /\ Mem(j + 1) = 0 /\ Mem(j + 2) = 0 /\ Mem(j + 3) = 1

ListByte ==
  /\ place = "list" /\ i < Len(file)
  /\ nalu_list' = IF CodeAt(i) THEN Append(nalu_list, i) ELSE nalu_list
  /\ i' = IF CodeAt(i) THEN i + 4 ELSE i + 1
  /\ UNCHANGED <<file, heap, place, frameVars>>

\* Mutated ListEnd: the length of the file is not added.
ListEndOpen ==
  /\ place = "list" /\ i >= Len(file)
  /\ place' = "sets"
  /\ UNCHANGED <<file, heap, listVars, frameVars>>

ListEnd ==
  /\ place = "list" /\ i >= Len(file)
  /\ nalu_list' = Append(nalu_list, Len(file))
  /\ place' = "sets"
  /\ UNCHANGED <<file, heap, i, frameVars>>

----------------------------------------------------------------------------
(* get_sps_pps *)

\* Where, in the five bytes at an entry of the list, a NAL unit of a type is seen.
Seen(k, type) == {j \in 0..4 : Mem(nalu_list[k] + j) % 16 = type}

\* at() throws behind the end of the list, and a negative size takes memcpy
\* out of the buffer.
Fails(k, type) ==
  \/ Len(nalu_list) < k
  \/ \E j \in Seen(k, type) :
       /\ \A other \in Seen(k, type) : j <= other
       /\ Len(nalu_list) = k \/ nalu_list[k + 1] - nalu_list[k] < j

\* Nobody catches, and nobody looks at the result: sets that are not there do
\* not end the test.
GetSets ==
  /\ place = "sets"
  /\ place' = IF Fails(1, 7) \/ (Seen(1, 7) # {} /\ Fails(2, 8)) THEN "aborted" ELSE "frames"
  /\ UNCHANGED <<file, heap, listVars, frameVars>>

----------------------------------------------------------------------------
(* The loop of native_test. *)

More == frame_index < Len(nalu_list) - 1

\* get_frame allocates a copy of the next frame.
Fetch ==
  /\ place = "frames" /\ payload_data = NULL /\ More
  /\ payload_data' = [at |-> nalu_list[frame_index + 1], to |-> nalu_list[frame_index + 2]]
  /\ frame_index' = frame_index + 1
  /\ live' = live + 1
  /\ UNCHANGED <<file, heap, place, listVars, handed>>

\* Mutated WriteFrame: the frame is not released.
WriteFrameOnly ==
  /\ place = "frames" /\ payload_data # NULL /\ Len(handed) < Limit
  /\ handed' = Append(handed, payload_data)
  /\ payload_data' = NULL
  /\ UNCHANGED <<file, heap, place, listVars, frame_index, live>>

\* WriteEncodedVideoFrame and release_frame.
WriteFrame ==
  /\ place = "frames" /\ payload_data # NULL /\ Len(handed) < Limit
  /\ handed' = Append(handed, payload_data)
  /\ payload_data' = NULL
  /\ live' = live - 1
  /\ UNCHANGED <<file, heap, place, listVars, frame_index>>

\* get_frame returns NULL, or the limit is reached with one frame more in hand;
\* then DoStopRecord.
Stop ==
  /\ place = "frames"
  /\ \/ payload_data = NULL /\ ~More
     \/ payload_data # NULL /\ Len(handed) = Limit
  /\ place' = "done"
  /\ UNCHANGED <<file, heap, listVars, frameVars>>

Next == Open \/ ListByte \/ ListEnd \/ GetSets \/ Fetch \/ WriteFrame \/ Stop

Spec == Init /\ [][Next]_vars

----------------------------------------------------------------------------
(* What the file alone says. *)

Codes ==
  {j \in 0..(Len(file) - 4) :
     file[j + 1] = 0 /\ file[j + 2] = 0 /\ file[j + 3] = 0 /\ file[j + 4] = 1}

\* Two scans that share no state agree on the file: the frames written are its
\* pieces from code to code, in order and without a gap, up to its end or to
\* the limit.  Bytes behind the file can add cuts in its last three bytes only.
CutsTheFile ==
  LET n == Len(handed)
  IN  place = "done" =>
        /\ \A k \in 1..(n - 1) : handed[k].to = handed[k + 1].at
        /\ \A k \in 1..n : handed[k].at \in Codes \/ handed[k].at > Len(file) - 4
        /\ \A c \in Codes :
             \/ \E k \in 1..n : handed[k].at = c
             \/ n = Limit /\ (n > 0 => c > handed[n].at)
        /\ n \in 1..(Limit - 1) => handed[n].to = Len(file)

\* There is never more than one frame in memory, and one is left behind only
\* when the file has more frames than the limit.
NothingLeaks ==
  /\ live <= 1
  /\ place = "done" /\ live = 1 => Len(handed) = Limit /\ Len(nalu_list) > Limit + 1

\* The first two codes announce an SPS and a PPS.
HasSets ==
  /\ file # Missing
  /\ \E sps, pps \in Codes :
       /\ sps < pps /\ \A c \in Codes : c = sps \/ c >= pps
       /\ pps + 5 <= Len(file)
       /\ file[sps + 5] % 16 = 7 /\ file[pps + 5] % 16 = 8

\* Whatever lies behind the buffer, a file with its parameter sets in front,
\* also one that ends with them, never aborts the process.
AbortsOnlyWithoutSets == place = "aborted" => ~HasSets
=============================================================================
