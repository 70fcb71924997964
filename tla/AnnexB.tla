------------------------------- MODULE AnnexB -------------------------------
(***************************************************************************)
(* From the bytes of the file to the groups of NAL units in the recording: *)
(* FileDataExtractor.getNaluList cuts the file at the four-byte start      *)
(* codes, and Mp4_Writer::WriteEncodedVideoFrame cuts each piece again at  *)
(* the three-byte codes in it.  Both loops are modelled byte by byte; all  *)
(* of the file is recorded (no click, no error).                           *)
(*                                                                         *)
(* Offsets count from 0 as in the code.  A NAL unit is the bytes from the  *)
(* offset "at" up to, and without, the offset "to".                        *)
(***************************************************************************)
EXTENDS Mp4Writer, FiniteSets

CONSTANT Files   \* the files considered: sequences of bytes

ASSUME FilesAssumption == Files \subseteq Seq(0..255)

VARIABLES
  src,       \* the bytes of the file
  place,     \* which loop runs: "scan", "split" or "done"
  i,         \* its index
  naluList,  \* offsets of the four-byte codes, and the length of the file
  piece,     \* the payload being written: from naluList[piece] on
  head,      \* offset in the file of the NAL unit begun last
  nalu_len,  \* bytes since then
  buffer,    \* the NAL units collected in video_payload_data
  groups,    \* the groups of this payload that went to WriteH264Frame
  written    \* for each payload done its groups

scanVars  == <<src, naluList>>
splitVars == <<piece, head, nalu_len, buffer, groups, written>>
vars == <<scanVars, place, i, splitVars>>

\* The byte at an offset; the array is larger than the file and full of zeros.
At(j) == IF j < Len(src) THEN src[j + 1] ELSE 0

Init ==
  /\ src \in Files
  /\ place = "scan" /\ i = 0 /\ naluList = <<>>
  /\ piece = 0 /\ head = 0 /\ nalu_len = 0
  /\ buffer = <<>> /\ groups = <<>> /\ written = <<>>

----------------------------------------------------------------------------
(* getNaluList *)

\* Mutated CodeAt: a three-byte start code counts as well.
CodeAtShort(j) == At(j) = 0 /\ At(j + 1) = 0 /\ (At(j + 2) = 1 \/ (At(j + 2) = 0 /\ At(j + 3) = 1))

CodeAt(j) == At(j) = 0 /\ At(j + 1) = 0 /\ At(j + 2) = 0 /\ At(j + 3) = 1

ScanByte ==
  /\ place = "scan" /\ i < Len(src)
  /\ naluList' = IF CodeAt(i) THEN Append(naluList, i) ELSE naluList
  /\ i' = IF CodeAt(i) THEN i + 4 ELSE i + 1
  /\ UNCHANGED <<src, place, splitVars>>

ScanEnd ==
  /\ place = "scan" /\ i >= Len(src)
  /\ naluList' = Append(naluList, Len(src))
  /\ place' = IF naluList = <<>> THEN "done" ELSE "split"
  /\ piece' = 1
  /\ i' = 0
  /\ UNCHANGED <<src, head, nalu_len, buffer, groups, written>>

----------------------------------------------------------------------------
(* WriteEncodedVideoFrame on the bytes from one offset of the list to the next. *)

Base == naluList[piece]
Size == naluList[piece + 1] - Base
Data(j) == At(Base + j)

ShortCode == i > 2 /\ Data(i - 2) = 0 /\ Data(i - 1) = 0 /\ Data(i) = 1

\* An SPS, PPS or SEI is flushed at once.
Flushed(at) == At(at) % 32 \in {6, 7, 8}

PlainByte ==
  /\ place = "split" /\ i < Size /\ ~ShortCode
  /\ nalu_len' = nalu_len + 1
  /\ i' = i + 1
  /\ UNCHANGED <<scanVars, place, piece, head, buffer, groups, written>>

\* The start code of the payload itself.
FirstCode ==
  /\ place = "split" /\ i < Size /\ ShortCode /\ i - 2 \in {0, 1}
  /\ head' = Base + i + 1
  /\ nalu_len' = 0
  /\ i' = i + 1
  /\ UNCHANGED <<scanVars, place, piece, buffer, groups, written>>

\* Mutated CopyLength: the zeros of the start code are copied, too.
CopyWithZeros == nalu_len

\* What was counted since the last code, less the zeros of this one.
CopyLength == nalu_len - (IF Data(i - 3) = 0 THEN 3 ELSE 2)

\* Mutated Collect: the buffer is only written at the end.
CollectOnly(to) ==
  /\ buffer' = Append(buffer, [at |-> head, to |-> to])
  /\ UNCHANGED groups

\* Put the NAL unit begun last into the buffer, and flush it if it must be.
Collect(to) ==
  LET units == Append(buffer, [at |-> head, to |-> to])
  IN  IF Flushed(head)
        THEN buffer' = <<>> /\ groups' = Append(groups, units)
        ELSE buffer' = units /\ UNCHANGED groups

\* Any other start code ends a NAL unit.
NextCode ==
  /\ place = "split" /\ i < Size /\ ShortCode /\ i - 2 \notin {0, 1}
  /\ Collect(head + CopyLength)
  /\ head' = Base + i + 1
  /\ nalu_len' = 0
  /\ i' = i + 1
  /\ UNCHANGED <<scanVars, place, piece, written>>

\* The payload ends: its last NAL unit, if not empty, ends the last group.
PieceEnd ==
  /\ place = "split" /\ i = Size
  /\ LET units == IF nalu_len > 0 THEN Append(buffer, [at |-> head, to |-> head + nalu_len])
                  ELSE buffer
     IN  written' = Append(written, IF units = <<>> THEN groups ELSE Append(groups, units))
  /\ buffer' = <<>> /\ groups' = <<>> /\ nalu_len' = 0 /\ i' = 0
  /\ piece' = piece + 1
  /\ place' = IF piece + 2 > Len(naluList) THEN "done" ELSE "split"
  /\ UNCHANGED <<scanVars, head>>

Next == ScanByte \/ ScanEnd \/ PlainByte \/ FirstCode \/ NextCode \/ PieceEnd

Spec == Init /\ [][Next]_vars

----------------------------------------------------------------------------
(* What the two loops promise, from the bytes alone. *)

\* Offsets of the start codes behind a four-byte one.
ShortCodeAt(c) == At(c) = 0 /\ At(c + 1) = 0 /\ At(c + 2) = 1
Codes == {c \in 0..(Len(src) - 3) : ShortCodeAt(c) /\ \E j \in 0..(c - 1) : CodeAt(j)}

\* A NAL unit lies between its start code and the next one, whose leading
\* zero byte it does not own, or the end of the file.
UnitEnd(at) ==
  LET later == {c \in Codes : c >= at}
      c == Min(later)
  IN  IF later = {} THEN Len(src) ELSE IF At(c - 1) = 0 THEN c - 1 ELSE c

Behind(c) == [at |-> c + 3, to |-> UnitEnd(c + 3)]

NalUnit  == [at : Nat, to : Nat]
NotEmpty == {unit \in NalUnit : unit.at < unit.to}

\* The NAL units behind the codes before an offset, in their order.
UnitsBefore(n) == Only([m \in 1..n |-> Behind(m - 1)], {Behind(c) : c \in Codes} \cap NotEmpty)

\* The two cuts together lose, merge and shorten nothing: what is handed to
\* WriteH264Frame is every non-empty NAL unit of the file, whole and in order,
\* whichever start code it has.
RecordsEveryUnit ==
  place = "done" => Only(FlattenSeq(FlattenSeq(written)), NotEmpty) = UnitsBefore(Len(src))

KindOf(unit) ==
  CASE At(unit.at) % 32 = 7 -> "SPS"
    [] At(unit.at) % 32 = 8 -> "PPS"
    [] At(unit.at) % 32 = 6 -> "SEI"
    [] OTHER -> "SLICE"
Kinds(units) == [k \in DOMAIN units |-> KindOf(units[k])]

\* The write position goes back after each flush, and only then: the byte loop
\* groups the NAL units of a payload as the writer's Groups does.
GroupsAsModelled ==
  \A k \in DOMAIN written :
    Groups(Kinds(FlattenSeq(written[k])), Waiting) = [j \in DOMAIN written[k] |-> Kinds(written[k][j])]

\* The bytes that NAL units take in video_payload_data, each with its length.
Taken(units) ==
  LET taken[n \in 0..Len(units)] ==
        IF n = 0 THEN 0 ELSE taken[n - 1] + 4 + (units[n].to - units[n].at)
  IN  taken[Len(units)]

\* At its end a payload also puts the NAL unit begun last there.
InUse == Taken(buffer) + (IF i = Size /\ nalu_len > 0 THEN 4 + nalu_len ELSE 0)

\* The start codes without a leading zero, up to a byte of the payload.
ThreeByteCodes(n) ==
  {j \in 3..n : Data(j - 3) # 0 /\ Data(j - 2) = 0 /\ Data(j - 1) = 0 /\ Data(j) = 1}

\* The buffer is 2048 bytes larger than the payload.  It needs at most one byte
\* for each three-byte start code, the only one shorter than a length.
BufferFits == place = "split" => InUse <= Size + Cardinality(ThreeByteCodes(i))
=============================================================================
