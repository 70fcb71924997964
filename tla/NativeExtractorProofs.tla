----------------------- MODULE NativeExtractorProofs -----------------------
(***************************************************************************)
(* Proofs about NativeExtractor, for any file, whatever lies behind it and *)
(* any limit.                                                              *)
(***************************************************************************)
EXTENDS NativeExtractor, TLAPS

Places == {"open", "list", "sets", "frames", "aborted", "done"}

\* An entry of the list that the scan has found.
Entries == IF place \in {"open", "list"} THEN 1..Len(nalu_list) ELSE 1..(Len(nalu_list) - 1)

\* How far the scan is, and what there is before it and without a file.
Scan ==
  /\ place \in Places /\ i \in Nat /\ nalu_list \in Seq(Nat)
  /\ file = Missing => place \in {"open", "sets", "aborted"} /\ nalu_list = <<>>
  /\ file # Missing => file \in Seq(0..255)
  /\ place = "open" => i = 0 /\ nalu_list = <<>>
  /\ place \notin {"open", "list"} /\ file # Missing =>
       /\ Len(nalu_list) > 0 /\ nalu_list[Len(nalu_list)] = Len(file)
       /\ i >= Len(file)

\* The entries are start codes that do not overlap, and no code is left out.
Listed ==
  /\ \A k \in Entries : /\ CodeAt(nalu_list[k]) /\ nalu_list[k] < Len(file)
                        /\ nalu_list[k] + 4 <= i
  /\ \A k, l \in Entries : k < l => nalu_list[k] + 4 <= nalu_list[l]
  /\ \A c \in Codes : c < i => \E k \in Entries : nalu_list[k] = c

\* A frame is in hand or with the writer, and none is passed over.
Frames ==
  /\ frame_index \in Nat
  /\ place \notin {"frames", "done"} => handed = <<>> /\ frame_index = 0 /\ payload_data = NULL
  /\ live = (IF payload_data = NULL THEN 0 ELSE 1)
  /\ Len(handed) + live = frame_index
  /\ Len(handed) <= Limit
  /\ place \in {"frames", "done"} => frame_index < Len(nalu_list)
  /\ handed \in Seq([at : Nat, to : Nat])
  /\ \A k \in 1..Len(handed) : handed[k] = [at |-> nalu_list[k], to |-> nalu_list[k + 1]]
  /\ payload_data # NULL =>
       payload_data = [at |-> nalu_list[frame_index], to |-> nalu_list[frame_index + 1]]
  /\ place = "done" => \/ ~More /\ payload_data = NULL
                       \/ payload_data # NULL /\ Len(handed) = Limit

\* get_sps_pps has thrown only in a file without parameter sets.
Aborted == place = "aborted" => ~HasSets

IInv == Scan /\ (file # Missing => Listed) /\ Frames /\ Aborted

----------------------------------------------------------------------------
(* Start codes. *)

\* A code of the file is one for the scan, too, and lies inside the file.
LEMMA CodesAreSeen ==
  ASSUME file \in Seq(0..255), NEW c \in Codes
  PROVE  c \in Nat /\ c + 4 <= Len(file) /\ CodeAt(c)
<1>1. c \in Nat /\ c + 4 <= Len(file)
  BY DEF Codes
<1>. QED  BY <1>1 DEF Codes, CodeAt, Mem

\* What the scan takes for a code is one, unless it runs over the end.
LEMMA SeenAreCodes ==
  ASSUME file \in Seq(0..255), NEW j \in Nat, CodeAt(j), j + 4 <= Len(file)
  PROVE  j \in Codes
<1>1. file[j + 1] = 0 /\ file[j + 2] = 0 /\ file[j + 3] = 0 /\ file[j + 4] = 1
  BY DEF CodeAt, Mem
<1>. QED  BY <1>1 DEF Codes

\* The bytes the scan skips after a code hide no other.
LEMMA CodesApart ==
  ASSUME file \in Seq(0..255), NEW j \in Nat, CodeAt(j), NEW c \in Codes, j < c
  PROVE  j + 4 <= c
<1>1. c \in Nat /\ CodeAt(c)
  BY CodesAreSeen
<1>2. Mem(j + 3) = 1 /\ Mem(c) = 0 /\ Mem(c + 1) = 0 /\ Mem(c + 2) = 0
  BY <1>1 DEF CodeAt
<1>3. c # j + 3 /\ c + 1 # j + 3 /\ c + 2 # j + 3
  BY <1>2
<1>. QED  BY <1>1, <1>3

\* After the scan the list has an entry for every code.
LEMMA AllCodesListed ==
  ASSUME Scan, Listed, file # Missing, place \notin {"open", "list"}
  PROVE  /\ Entries = 1..(Len(nalu_list) - 1) /\ Len(nalu_list) \in Nat \ {0}
         /\ nalu_list \in Seq(Nat) /\ Len(file) \in Nat
         /\ nalu_list[Len(nalu_list)] = Len(file)
         /\ \A c \in Codes : \E k \in Entries : nalu_list[k] = c
         /\ \A k \in Entries : nalu_list[k] \in Codes \/ nalu_list[k] + 4 > Len(file)
<1>1. \A c \in Codes : c < i
  BY CodesAreSeen DEF Scan
<1>2. Entries = 1..(Len(nalu_list) - 1)
  BY DEF Entries
<1>3. \A k \in Entries : nalu_list[k] \in Codes \/ nalu_list[k] + 4 > Len(file)
  BY <1>2, SeenAreCodes DEF Scan, Listed
<1>. QED  BY <1>1, <1>2, <1>3 DEF Scan, Listed

LEMMA ThirdEntry ==
  ASSUME NEW n \in Nat, n >= 3
  PROVE  n = 3 \/ 3 \in 1..(n - 1)
<1>1. n # 3 => 3 <= n - 1
  OBVIOUS
<1>. QED  BY <1>1

\* With an SPS and a PPS in front neither copy fails.
LEMMA SetsDoNotFail ==
  ASSUME Scan, Listed, place = "sets", HasSets
  PROVE  ~Fails(1, 7) /\ ~Fails(2, 8)
<1>1. file # Missing
  BY DEF HasSets
<1>2. PICK sps, pps \in Codes :
        /\ sps < pps /\ \A c \in Codes : c = sps \/ c >= pps
        /\ pps + 5 <= Len(file)
  BY DEF HasSets
<1>3. /\ Entries = 1..(Len(nalu_list) - 1) /\ Len(nalu_list) \in Nat \ {0}
      /\ nalu_list \in Seq(Nat) /\ Len(file) \in Nat
      /\ nalu_list[Len(nalu_list)] = Len(file)
      /\ \A c \in Codes : \E k \in Entries : nalu_list[k] = c
      /\ \A k \in Entries : nalu_list[k] \in Codes \/ nalu_list[k] + 4 > Len(file)
  BY <1>1, AllCodesListed
<1>4. \A a \in Entries : a \in Nat /\ a > 0 /\ a < Len(nalu_list) /\ nalu_list[a] \in Nat
  <2>. TAKE a \in Entries
  <2>1. a \in 1..(Len(nalu_list) - 1) /\ Len(nalu_list) \in Nat /\ nalu_list \in Seq(Nat)
    BY <1>3
  <2>2. a \in Nat /\ a > 0 /\ a < Len(nalu_list)
    BY <2>1
  <2>. QED  BY <2>1, <2>2
<1>5. PICK k, l \in Entries : nalu_list[k] = sps /\ nalu_list[l] = pps
  BY <1>3
<1>6. \A a, b \in Entries : a < b => nalu_list[a] + 4 <= nalu_list[b]
  BY DEF Listed
<1>7. sps \in Nat /\ pps \in Nat /\ sps + 4 <= Len(file) /\ pps + 4 <= Len(file)
  BY <1>1, CodesAreSeen DEF Scan
<1>8. ASSUME NEW a \in Entries, nalu_list[a] < pps PROVE a = k
  <2>1. nalu_list[a] \in Codes
    <3>1. ~(nalu_list[a] + 4 > Len(file))
      <4>1. nalu_list[a] \in Nat /\ Len(file) \in Nat
        BY <1>3, <1>4
      <4>. QED  BY <1>7, <1>8, <4>1
    <3>. QED  BY <1>3, <3>1
  <2>2. nalu_list[a] = sps
    BY <1>2, <1>4, <1>7, <1>8, <2>1
  <2>3. ~(a < k) /\ ~(k < a)
    BY <1>4, <1>5, <1>6, <1>7, <2>2
  <2>. QED  BY <1>4, <2>3
<1>9. k < l
  BY <1>2, <1>4, <1>5, <1>6, <1>7
<1>10. \A a \in Entries : a < l => a = k
  BY <1>4, <1>5, <1>6, <1>7, <1>8
<1>11. k = 1 /\ l = 2
  <2>1. 1 \in Entries /\ 1 < l
    <3>1. k \in Nat /\ k > 0 /\ l \in Nat /\ l < Len(nalu_list) /\ Len(nalu_list) \in Nat
      BY <1>3, <1>4
    <3>2. 1 < l /\ 1 \in 1..(Len(nalu_list) - 1)
      BY <1>9, <3>1
    <3>. QED  BY <1>3, <3>2
  <2>2. l > 2 => 2 \in Entries
    BY <1>3, <1>4
  <2>3. k = 1
    BY <1>10, <2>1
  <2>. QED  BY <1>4, <1>9, <1>10, <2>2, <2>3
<1>12. Len(nalu_list) >= 3 /\ nalu_list[1] + 4 <= nalu_list[2] /\ 1 \in Entries /\ 2 \in Entries
  BY <1>3, <1>4, <1>6, <1>11
<1>13. nalu_list[2] + 4 <= nalu_list[3] /\ nalu_list[3] \in Nat
  <2>1. CASE Len(nalu_list) = 3
    BY <1>2, <1>3, <1>5, <1>7, <1>11, <2>1
  <2>2. CASE 3 \in Entries
    BY <1>4, <1>6, <1>12, <2>2
  <2>3. Len(nalu_list) = 3 \/ 3 \in Entries
    <3>1. Len(nalu_list) \in Nat /\ Len(nalu_list) >= 3
      BY <1>3, <1>12
    <3>2. Len(nalu_list) = 3 \/ 3 \in 1..(Len(nalu_list) - 1)
      BY <3>1, ThirdEntry
    <3>. QED  BY <1>3, <3>2
  <2>. QED  BY <2>1, <2>2, <2>3
<1>14. nalu_list[1] \in Nat /\ nalu_list[2] \in Nat
  BY <1>4, <1>12
<1>15. \A a, type : \A j \in Seen(a, type) : j \in Nat /\ j <= 4
  BY DEF Seen
<1>16. ~Fails(1, 7)
  BY <1>12, <1>14, <1>15 DEF Fails
<1>17. ~Fails(2, 8)
  BY <1>12, <1>13, <1>14, <1>15 DEF Fails
<1>. QED  BY <1>16, <1>17

----------------------------------------------------------------------------
(* The invariant. *)

LEMMA EmptyList == <<>> \in Seq(Nat) /\ <<>> \in Seq([at : Nat, to : Nat])
<1>. QED  OBVIOUS

LEMMA InitInv == Init => IInv
<1>. SUFFICES ASSUME Init PROVE IInv
  OBVIOUS
<1>1. file # Missing => file \in Seq(0..255)
  BY FilesAssumption DEF Init
<1>2. Scan
  BY <1>1, EmptyList DEF Init, Scan, Places
<1>3. file # Missing => Listed
  <2>. SUFFICES ASSUME file # Missing PROVE Listed
    OBVIOUS
  <2>1. i = 0 /\ Entries = {}
    BY DEF Init, Entries
  <2>. QED  BY <1>1, <2>1, CodesAreSeen DEF Listed
<1>4. Frames
  BY EmptyList, FilesAssumption DEF Init, Frames, NULL
<1>5. Aborted
  BY DEF Init, Aborted
<1>. QED  BY <1>2, <1>3, <1>4, <1>5 DEF IInv

\* One more entry at the end of the list.
LEMMA Appended ==
  ASSUME NEW list \in Seq(Nat), NEW e \in Nat
  PROVE  /\ Append(list, e) \in Seq(Nat)
         /\ Len(Append(list, e)) = Len(list) + 1
         /\ \A k \in 1..Len(list) : Append(list, e)[k] = list[k]
         /\ Append(list, e)[Len(list) + 1] = e
<1>. QED  OBVIOUS

LEMMA ScanStep ==
  ASSUME IInv, [Next]_vars
  PROVE  Scan'
<1>. USE DEF IInv, Scan, Places
<1>1. CASE Open
  BY <1>1 DEF Open, listVars
<1>2. CASE ListByte
  <2>1. /\ nalu_list' = nalu_list \/ nalu_list' = Append(nalu_list, i)
        /\ i' \in Nat
    BY <1>2 DEF ListByte
  <2>2. nalu_list' \in Seq(Nat)
    BY <2>1, Appended
  <2>. QED  BY <1>2, <2>1, <2>2 DEF ListByte
<1>3. CASE ListEnd
  <2>1. file \in Seq(0..255) /\ file # Missing
    BY <1>3 DEF ListEnd
  <2>2. Len(file) \in Nat
    BY <2>1
  <2>3. /\ nalu_list' \in Seq(Nat) /\ Len(nalu_list') = Len(nalu_list) + 1
        /\ nalu_list'[Len(nalu_list) + 1] = Len(file)
    BY <1>3, <2>2, Appended DEF ListEnd
  <2>. QED  BY <1>3, <2>1, <2>2, <2>3 DEF ListEnd
<1>4. CASE GetSets
  <2>1. file = Missing => Fails(1, 7)
    BY <1>4 DEF GetSets, Fails
  <2>. QED  BY <1>4, <2>1 DEF GetSets, listVars
<1>5. CASE Fetch \/ WriteFrame \/ Stop \/ UNCHANGED vars
  BY <1>5 DEF Fetch, WriteFrame, Stop, vars, listVars
<1>. QED  BY <1>1, <1>2, <1>3, <1>4, <1>5 DEF Next

LEMMA ListedStep ==
  ASSUME IInv, [Next]_vars, file # Missing
  PROVE  Listed'
<1>0. file \in Seq(0..255) /\ Listed /\ i \in Nat /\ nalu_list \in Seq(Nat) /\ UNCHANGED <<file, heap>>
  BY DEF IInv, Scan, Next, Open, ListByte, ListEnd, GetSets, Fetch, WriteFrame, Stop, vars
<1>1. Codes' = Codes /\ \A j : CodeAt(j)' = CodeAt(j)
  BY <1>0 DEF Codes, CodeAt, Mem
<1>2. CASE Open \/ GetSets \/ Fetch \/ WriteFrame \/ Stop \/ UNCHANGED vars
  <2>1. Entries' = Entries /\ UNCHANGED <<i, nalu_list>>
    BY <1>2 DEF Open, GetSets, Fetch, WriteFrame, Stop, vars, listVars, Entries
  <2>. QED  BY <1>0, <1>1, <2>1 DEF Listed
<1>3. CASE ListByte
  <2>1. Entries = 1..Len(nalu_list) /\ Entries' = 1..Len(nalu_list')
    BY <1>3 DEF ListByte, Entries
  <2>2. i < Len(file)
    BY <1>3 DEF ListByte
  <2>3. CASE CodeAt(i)
    <3>1. /\ i' = i + 4
          /\ Len(nalu_list') = Len(nalu_list) + 1
          /\ \A k \in 1..Len(nalu_list) : nalu_list'[k] = nalu_list[k]
          /\ nalu_list'[Len(nalu_list) + 1] = i
      BY <1>0, <1>3, <2>3, Appended DEF ListByte
    <3>2. \A c \in Codes : c \in Nat /\ (c < i + 4 => c <= i)
      BY <1>0, <2>3, CodesApart, CodesAreSeen
    <3>3. \A k \in Entries' : k \in Entries \/ k = Len(nalu_list) + 1
      BY <1>0, <2>1, <3>1
    <3>4. \A c \in Codes : c < i' => \E k \in Entries' : nalu_list'[k] = c
      <4>. SUFFICES ASSUME NEW c \in Codes, c < i' PROVE \E k \in Entries' : nalu_list'[k] = c
        OBVIOUS
      <4>1. CASE c = i
        BY <1>0, <2>1, <3>1, <4>1
      <4>2. CASE c < i
        <5>1. PICK k \in Entries : nalu_list[k] = c
          BY <1>0, <4>2 DEF Listed
        <5>. QED  BY <1>0, <2>1, <3>1, <5>1
      <4>. QED  BY <1>0, <3>1, <3>2, <4>1, <4>2
    <3>5. \A k \in Entries' : nalu_list'[k] + 4 <= i' /\ nalu_list'[k] < Len(file) /\ CodeAt(nalu_list'[k])
      BY <1>0, <2>1, <2>2, <2>3, <3>1, <3>3, SMTT(30) DEF Listed
    <3>6. \A k, l \in Entries' : k < l => nalu_list'[k] + 4 <= nalu_list'[l]
      <4>1. \A k \in Entries : /\ k \in 1..Len(nalu_list) /\ nalu_list[k] \in Nat
                            /\ nalu_list'[k] = nalu_list[k] /\ nalu_list[k] + 4 <= i
        BY <1>0, <2>1, <3>1 DEF Listed
      <4>2. \A k, l \in Entries : k < l => nalu_list[k] + 4 <= nalu_list[l]
        BY <1>0 DEF Listed
      <4>. QED  BY <1>0, <3>1, <3>3, <4>1, <4>2
    <3>. QED  BY <1>0, <1>1, <3>4, <3>5, <3>6 DEF Listed
  <2>4. CASE ~CodeAt(i)
    <3>1. i' = i + 1 /\ nalu_list' = nalu_list
      BY <1>3, <2>4 DEF ListByte
    <3>2. \A c \in Codes : c \in Nat /\ c # i
      BY <1>0, <2>4, CodesAreSeen
    <3>3. \A k \in Entries : nalu_list[k] \in Nat
      BY <1>0, <2>1
    <3>. QED  BY <1>0, <1>1, <2>1, <3>1, <3>2, <3>3 DEF Listed
  <2>. QED  BY <2>3, <2>4
<1>4. CASE ListEnd
  <2>1. Len(file) \in Nat /\ nalu_list' = Append(nalu_list, Len(file))
    BY <1>0, <1>4 DEF ListEnd
  <2>2. /\ Len(nalu_list') = Len(nalu_list) + 1
        /\ \A k \in 1..Len(nalu_list) : nalu_list'[k] = nalu_list[k]
    BY <1>0, <2>1, Appended
  <2>3. Entries = 1..Len(nalu_list) /\ Entries' = Entries
    BY <1>0, <1>4, <2>2 DEF ListEnd, Entries
  <2>4. i' = i
    BY <1>4 DEF ListEnd
  <2>. QED  BY <1>0, <1>1, <2>2, <2>3, <2>4 DEF Listed
<1>. QED  BY <1>2, <1>3, <1>4 DEF Next

LEMMA FramesStep ==
  ASSUME IInv, [Next]_vars
  PROVE  Frames'
<1>. USE DEF IInv, Frames, NULL
<1>0. Limit \in Nat /\ nalu_list \in Seq(Nat)
  BY FilesAssumption DEF Scan
<1>1. CASE Open \/ ListByte \/ ListEnd
  BY <1>1 DEF Open, ListByte, ListEnd, frameVars
<1>2. CASE GetSets
  <2>1. UNCHANGED <<nalu_list, frame_index, payload_data, live, handed>>
    BY <1>2 DEF GetSets, listVars, frameVars
  <2>2. place' = "frames" => Len(nalu_list) > 0
    BY <1>0, <1>2 DEF GetSets, Fails
  <2>. QED  BY <1>0, <1>2, <2>1, <2>2 DEF GetSets
<1>3. CASE Fetch
  <2>1. /\ payload_data' = [at |-> nalu_list[frame_index + 1], to |-> nalu_list[frame_index + 2]]
        /\ frame_index' = frame_index + 1 /\ live' = live + 1 /\ payload_data = <<>>
        /\ frame_index < Len(nalu_list) - 1 /\ place = "frames"
        /\ UNCHANGED <<place, nalu_list, handed>>
    BY <1>3 DEF Fetch, listVars, More
  <2>2. payload_data' # <<>>
    BY <2>1
  <2>3. frame_index' < Len(nalu_list') /\ frame_index' \in Nat /\ (frame_index + 2) = frame_index' + 1
    BY <1>0, <2>1
  <2>. QED  BY <1>0, <2>1, <2>2, <2>3
<1>4. CASE WriteFrame
  <2>1. /\ handed' = Append(handed, payload_data) /\ payload_data # <<>> /\ payload_data' = <<>>
        /\ live' = live - 1 /\ Len(handed) < Limit /\ place = "frames"
        /\ UNCHANGED <<place, nalu_list, frame_index>>
    BY <1>4 DEF WriteFrame, listVars
  <2>2. /\ live = 1 /\ Len(handed) + 1 = frame_index /\ frame_index < Len(nalu_list)
        /\ payload_data = [at |-> nalu_list[frame_index], to |-> nalu_list[frame_index + 1]]
    BY <2>1
  <2>3. payload_data \in [at : Nat, to : Nat]
    <3>1. frame_index \in 1..Len(nalu_list) /\ frame_index + 1 \in 1..Len(nalu_list)
      BY <1>0, <2>2
    <3>2. nalu_list[frame_index] \in Nat
      BY <1>0, <3>1
    <3>3. nalu_list[frame_index + 1] \in Nat
      BY <1>0, <3>1
    <3>. QED  BY <2>2, <3>2, <3>3
  <2>4. /\ handed' \in Seq([at : Nat, to : Nat]) /\ Len(handed') = Len(handed) + 1
        /\ \A k \in 1..Len(handed) : handed'[k] = handed[k]
        /\ handed'[Len(handed) + 1] = payload_data
    BY <2>1, <2>3
  <2>5. \A k \in 1..Len(handed') : k \in 1..Len(handed) \/ k = frame_index
    BY <2>2, <2>4
  <2>6. \A k \in 1..Len(handed') : handed'[k] = [at |-> nalu_list[k], to |-> nalu_list[k + 1]]
    BY <2>2, <2>4, <2>5
  <2>. QED  BY <1>0, <2>1, <2>2, <2>4, <2>6
<1>5. CASE Stop
  <2>1. /\ place = "frames" /\ place' = "done"
        /\ UNCHANGED <<nalu_list, frame_index, payload_data, live, handed>>
        /\ \/ payload_data = <<>> /\ ~More
           \/ payload_data # <<>> /\ Len(handed) = Limit
    BY <1>5 DEF Stop, listVars, frameVars
  <2>2. More' = More
    BY <2>1 DEF More
  <2>. QED  BY <2>1, <2>2
<1>6. CASE UNCHANGED vars
  <2>1. UNCHANGED <<place, nalu_list, frame_index, payload_data, live, handed>>
    BY <1>6 DEF vars, listVars, frameVars
  <2>. QED  BY <2>1 DEF More
<1>. QED  BY <1>1, <1>2, <1>3, <1>4, <1>5, <1>6 DEF Next

LEMMA AbortedStep ==
  ASSUME IInv, [Next]_vars
  PROVE  Aborted'
<1>1. UNCHANGED file
  BY DEF Next, Open, ListByte, ListEnd, GetSets, Fetch, WriteFrame, Stop, vars
<1>2. HasSets' = HasSets
  BY <1>1 DEF HasSets, Codes
<1>3. CASE GetSets
  <2>. SUFFICES ASSUME HasSets PROVE place' # "aborted"
    BY <1>2 DEF Aborted
  <2>1. file # Missing /\ place = "sets"
    BY <1>3 DEF HasSets, GetSets
  <2>. QED  BY <1>3, <2>1, SetsDoNotFail DEF GetSets, IInv
<1>4. CASE ~GetSets
  <2>1. place' = "aborted" => place = "aborted"
    BY <1>4 DEF Next, Open, ListByte, ListEnd, Fetch, WriteFrame, Stop, vars
  <2>. QED  BY <1>2, <2>1 DEF IInv, Aborted
<1>. QED  BY <1>3, <1>4

----------------------------------------------------------------------------
(* The theorems. *)

LEMMA NextInv == IInv /\ [Next]_vars => IInv'
<1>. SUFFICES ASSUME IInv, [Next]_vars PROVE IInv'
  OBVIOUS
<1>1. file' = file
  BY DEF Next, Open, ListByte, ListEnd, GetSets, Fetch, WriteFrame, Stop, vars
<1>. QED  BY <1>1, ScanStep, ListedStep, FramesStep, AbortedStep DEF IInv

\* The list of the scan and the account of the frames, as an inductive
\* invariant.
THEOREM Invariance == Spec => []IInv
<1>. QED  BY InitInv, NextInv, PTL DEF Spec

\* The frames written are the pieces of the file, whatever get_to_list reads
\* behind its buffer.
THEOREM FramesCutTheFile == Spec => []CutsTheFile
<1>1. IInv => CutsTheFile
  <2>. SUFFICES ASSUME IInv, place = "done" PROVE CutsTheFile
    BY DEF CutsTheFile
  <2>1. file # Missing
    BY DEF IInv, Scan
  <2>2. Scan /\ Listed
    BY <2>1 DEF IInv
  <2>3. /\ Entries = 1..(Len(nalu_list) - 1) /\ Len(nalu_list) \in Nat \ {0}
        /\ nalu_list \in Seq(Nat) /\ Len(file) \in Nat
        /\ nalu_list[Len(nalu_list)] = Len(file)
        /\ \A c \in Codes : \E k \in Entries : nalu_list[k] = c
        /\ \A k \in Entries : nalu_list[k] \in Codes \/ nalu_list[k] + 4 > Len(file)
    BY <2>1, <2>2, AllCodesListed
  <2>4. \A k \in Entries : k \in Nat /\ k > 0 /\ nalu_list[k] \in Nat
    BY <2>3
  <2>5. /\ Len(handed) \in Nat /\ frame_index \in Nat /\ frame_index < Len(nalu_list)
        /\ Len(handed) <= frame_index /\ Len(handed) <= Limit /\ Limit \in Nat
        /\ \/ Len(handed) = Limit
           \/ Len(handed) = frame_index /\ frame_index = Len(nalu_list) - 1
        /\ \A k \in 1..Len(handed) :
             handed[k].at = nalu_list[k] /\ handed[k].to = nalu_list[k + 1]
    <3>1. /\ Len(handed) \in Nat /\ frame_index \in Nat /\ frame_index < Len(nalu_list)
          /\ Len(handed) <= Limit /\ Limit \in Nat
      BY FilesAssumption DEF IInv, Frames
    <3>2. Len(handed) <= frame_index /\ (payload_data = NULL => Len(handed) = frame_index)
      BY <3>1 DEF IInv, Frames
    <3>3. Len(handed) = Limit \/ (payload_data = NULL /\ ~More)
      BY DEF IInv, Frames
    <3>4. ~More => frame_index = Len(nalu_list) - 1
      BY <2>3, <3>1 DEF More
    <3>5. \A k \in 1..Len(handed) : handed[k] = [at |-> nalu_list[k], to |-> nalu_list[k + 1]]
      BY DEF IInv, Frames
    <3>6. \A k \in 1..Len(handed) :
            handed[k].at = nalu_list[k] /\ handed[k].to = nalu_list[k + 1]
      <4>. TAKE k \in 1..Len(handed)
      <4>1. handed[k] = [at |-> nalu_list[k], to |-> nalu_list[k + 1]]
        BY <3>5
      <4>2. handed[k].at = nalu_list[k]
        BY <4>1
      <4>3. handed[k].to = nalu_list[k + 1]
        BY <4>1
      <4>. QED  BY <4>2, <4>3
    <3>. QED  BY <3>1, <3>2, <3>3, <3>4, <3>6
  <2>6. \A k \in 1..Len(handed) : k \in Entries
    BY <2>3, <2>5
  <2>7. \A k \in 1..(Len(handed) - 1) : handed[k].to = handed[k + 1].at
    BY <2>5
  <2>8. \A k \in 1..Len(handed) : handed[k].at \in Codes \/ handed[k].at > Len(file) - 4
    <3>1. \A k \in Entries : nalu_list[k] \in Codes \/ nalu_list[k] > Len(file) - 4
      BY <2>3, <2>4
    <3>. QED  BY <2>5, <2>6, <3>1
  <2>9. ASSUME NEW c \in Codes, \A k \in 1..Len(handed) : handed[k].at # c
        PROVE  Len(handed) = Limit /\ (Len(handed) > 0 => c > handed[Len(handed)].at)
    <3>1. PICK k \in Entries : nalu_list[k] = c
      BY <2>3
    <3>2. Len(handed) < k /\ k <= Len(nalu_list) - 1
      <4>1. k \in Nat /\ k > 0 /\ k <= Len(nalu_list) - 1
        BY <2>3, <2>4
      <4>2. k \notin 1..Len(handed)
        BY <2>5, <2>9, <3>1
      <4>. QED  BY <2>5, <4>1, <4>2
    <3>3. Len(handed) = Limit
      BY <2>3, <2>4, <2>5, <3>2
    <3>4. ASSUME Len(handed) > 0 PROVE c > handed[Len(handed)].at
      <4>1. Len(handed) \in Entries /\ handed[Len(handed)].at = nalu_list[Len(handed)]
        BY <2>5, <2>6, <3>4
      <4>2. nalu_list[Len(handed)] + 4 <= nalu_list[k]
        BY <2>2, <3>2, <4>1 DEF Listed
      <4>. QED  BY <2>4, <3>1, <4>1, <4>2
    <3>. QED  BY <3>3, <3>4
  <2>10. Len(handed) \in 1..(Limit - 1) => handed[Len(handed)].to = Len(file)
    <3>. SUFFICES ASSUME Len(handed) \in 1..(Limit - 1) PROVE handed[Len(handed)].to = Len(file)
      OBVIOUS
    <3>1. Len(handed) + 1 = Len(nalu_list) /\ Len(handed) \in 1..Len(handed)
      BY <2>3, <2>5
    <3>. QED  BY <2>3, <2>5, <3>1
  <2>. QED  BY <2>7, <2>8, <2>9, <2>10 DEF CutsTheFile
<1>. QED  BY <1>1, Invariance, PTL

\* Every frame allocated is freed before the next, but for one over the limit.
THEOREM FramesAreFreed == Spec => []NothingLeaks
<1>1. IInv => NothingLeaks
  <2>. SUFFICES ASSUME IInv PROVE NothingLeaks
    OBVIOUS
  <2>1. Len(nalu_list) \in Nat /\ Len(handed) \in Nat /\ Limit \in Nat
    BY FilesAssumption DEF IInv, Scan, Frames
  <2>. QED  BY <2>1 DEF IInv, Frames, NothingLeaks
<1>. QED  BY <1>1, Invariance, PTL

\* at() and memcpy are safe with the parameter sets in front.
THEOREM AbortsWithoutSets == Spec => []AbortsOnlyWithoutSets
<1>1. IInv => AbortsOnlyWithoutSets
  BY DEF IInv, Aborted, AbortsOnlyWithoutSets
<1>. QED  BY <1>1, Invariance, PTL
=============================================================================
