--------------------------- MODULE ConvertProofs ---------------------------
(***************************************************************************)
(* Proofs about Convert: the run looks at a dozen values of each byte and  *)
(* at pictures of up to six pixels each way, the theorems are about all    *)
(* bytes and all sizes.                                                    *)
(*                                                                         *)
(* Where the chroma of a pixel lies takes divisions by the width, which is *)
(* not a number here: lines and columns are first shown to behave as they  *)
(* should (Grid, NextPlace, InPicture, Squares), after which they need not *)
(* be looked into again.                                                   *)
(***************************************************************************)
EXTENDS Convert, TLAPS

Byte == 0..255

\* The colour is what the routines of the walk make of the sample.
IInv ==
  /\ walk \in {"rows", "blocks", "rgb565", "planes", "pairs"}
  /\ sample # NotYet =>
       /\ walk \in {"rows", "blocks", "rgb565"}
       /\ \E y, u, v \in Byte :
            sample = [y |-> y, u |-> u, v |-> v] /\ colour = Routines(y, u, v)

LEMMA LevelsAre == Levels \subseteq Byte
<1>. QED  BY SizesAssumption DEF Byte

\* A colour never outlives its sample: it is what the walk's routines make of it.
THEOREM Invariance == Spec => []IInv
<1>1. Init => IInv
  BY DEF Init, IInv
<1>2. IInv /\ [Next]_vars => IInv'
  <2>. SUFFICES ASSUME IInv, [Next]_vars PROVE IInv'
    OBVIOUS
  <2>1. CASE UNCHANGED <<walk, sample, colour>>
    <3>1. \A y, u, v : Routines(y, u, v)' = Routines(y, u, v)
      BY <2>1 DEF Routines
    <3>. QED  BY <2>1, <3>1 DEF IInv
  <2>2. CASE Colour
    <3>1. PICK y \in Levels, u \in Levels, v \in Levels :
            sample' = [y |-> y, u |-> u, v |-> v] /\ colour' = Routines(y, u, v)
      BY <2>2 DEF Colour
    <3>2. UNCHANGED walk /\ walk \in {"rows", "blocks", "rgb565"}
      BY <2>2 DEF Colour, IInv
    <3>3. y \in Byte /\ u \in Byte /\ v \in Byte
      BY LevelsAre
    <3>4. Routines(y, u, v)' = Routines(y, u, v)
      BY <3>2 DEF Routines
    <3>. QED  BY <3>1, <3>2, <3>3, <3>4 DEF IInv
  <2>. QED
    BY <2>1, <2>2 DEF Next, RowPixel, Block, PackedPixel, Planes, Pairs, vars, walkVars
<1>. QED  BY <1>1, <1>2, PTL DEF Spec

----------------------------------------------------------------------------
(* The arithmetic of a pixel. *)

\* Channels keep the order of the sums they are cut from.
LEMMA ChannelMonotone ==
  ASSUME NEW a \in Int, NEW b \in Int, a <= b
  PROVE  Channel(a) <= Channel(b)
<1>. QED  BY DEF Channel, Clamp

\* What is asked of each routine on its own.
Leans(c, u, v) ==
  /\ u = 128 /\ v = 128 => Grey(c)
  /\ u <= 128 /\ 128 <= v => c[3] <= c[1]
  /\ v <= 128 /\ 128 <= u => c[1] <= c[3]

LEMMA ScaledLeans ==
  ASSUME NEW luma \in Int, NEW u \in Byte, NEW v \in Byte
  PROVE  Leans(Scaled(luma, u, v), u, v)
<1>. USE DEF Byte
<1>. DEFINE r == luma + 1634 * (v - 128)
            b == luma + 2066 * (u - 128)
            c == Scaled(luma, u, v)
<1>1. c[1] = Channel(r) /\ c[3] = Channel(b)
  BY DEF Scaled
<1>2. r \in Int /\ b \in Int
  OBVIOUS
<1>3. u = 128 /\ v = 128 => Grey(c)
  BY DEF Scaled, Grey, Channel, Clamp
<1>4. u <= 128 /\ 128 <= v => b <= r
  OBVIOUS
<1>5. v <= 128 /\ 128 <= u => r <= b
  OBVIOUS
<1>. HIDE DEF r, b, c
<1>6. (b <= r => c[3] <= c[1]) /\ (r <= b => c[1] <= c[3])
  BY <1>1, <1>2, ChannelMonotone
<1>. QED  BY <1>3, <1>4, <1>5, <1>6 DEF Leans, c

LEMMA FactorsLean ==
  ASSUME NEW y \in Byte, NEW u \in Byte, NEW v \in Byte
  PROVE  /\ Leans(Factors(y, u, v), u, v) /\ Leans(FactorsJava(y, u, v), u, v)
         /\ Factors(y, u, v)[1] = FactorsJava(y, u, v)[1]
         /\ Factors(y, u, v)[3] = FactorsJava(y, u, v)[3]
<1>. USE DEF Byte
<1>1. /\ Factors(y, u, v)[1] = Clamp(y + (v - 128), 255)
      /\ Factors(y, u, v)[3] = Clamp(y + (u - 128), 255)
      /\ FactorsJava(y, u, v)[1] = Clamp(y + (v - 128), 255)
      /\ FactorsJava(y, u, v)[3] = Clamp(y + (u - 128), 255)
  BY DEF Factors, FactorsJava
<1>2. u = 128 /\ v = 128 => Grey(Factors(y, u, v)) /\ Grey(FactorsJava(y, u, v))
  BY DEF Factors, FactorsJava, Grey, Clamp, Truncated
<1>3. u <= v => Clamp(y + (u - 128), 255) <= Clamp(y + (v - 128), 255)
  BY DEF Clamp
<1>4. v <= u => Clamp(y + (v - 128), 255) <= Clamp(y + (u - 128), 255)
  BY DEF Clamp
<1>. QED  BY <1>1, <1>2, <1>3, <1>4 DEF Leans

LEMMA PackedLeans ==
  ASSUME NEW y \in Byte, NEW u \in Byte, NEW v \in Byte
  PROVE  Leans(Packed(y, u, v), u, v)
<1>. USE DEF Byte
<1>. DEFINE R == 256 * y + 359 * (v - 128)
            B == 256 * y + 454 * (u - 128)
            c == Packed(y, u, v)
            Five(x) == (Clamp(x \div 256, 255) \div 8) * 8
<1>1. c[1] = Five(R) /\ c[3] = Five(B)
  BY DEF Packed
<1>2. R \in Int /\ B \in Int
  OBVIOUS
<1>3. ASSUME u = 128, v = 128 PROVE Grey(c)
  <2>1. (256 * y) \div 256 = y
    OBVIOUS
  <2>2. R = 256 * y /\ B = 256 * y /\ 256 * y - 88 * (u - 128) - 183 * (v - 128) = 256 * y
    BY <1>3
  <2>3. Clamp(y, 255) = y
    BY DEF Clamp
  <2>4. c = <<(y \div 8) * 8, (y \div 4) * 4, (y \div 8) * 8>>
    BY <2>1, <2>2, <2>3 DEF Packed
  <2>5. (y \div 4) * 4 - (y \div 8) * 8 \in {0, 4}
    OBVIOUS
  <2>. HIDE DEF c
  <2>. QED  BY <2>4, <2>5 DEF Grey
<1>4. \A a, b \in Int : a <= b => Five(a) <= Five(b)
  BY DEF Clamp
<1>5. u <= 128 /\ 128 <= v => B <= R
  OBVIOUS
<1>6. v <= 128 /\ 128 <= u => R <= B
  OBVIOUS
<1>. HIDE DEF R, B, c, Five
<1>7. (B <= R => c[3] <= c[1]) /\ (R <= B => c[1] <= c[3])
  BY <1>1, <1>2, <1>4
<1>. QED  BY <1>3, <1>5, <1>6, <1>7 DEF Leans, c

\* Table and formula part only below the black level, where the table goes on
\* downwards.
LEMMA TablesFollow ==
  ASSUME NEW y \in Byte, NEW u \in Byte, NEW v \in Byte
  PROVE  /\ y >= 16 => Tables(y, u, v) = Direct(y, u, v)
         /\ \A ch \in 1..3 : Tables(y, u, v)[ch] <= Direct(y, u, v)[ch]
<1>. USE DEF Byte
<1>. DEFINE low == 1192 * (y - 16)
            high == 1192 * (IF y < 16 THEN 0 ELSE y - 16)
<1>1. low \in Int /\ high \in Int /\ low <= high /\ (y >= 16 => low = high)
  OBVIOUS
<1>2. Tables(y, u, v) = Scaled(low, u, v) /\ Direct(y, u, v) = Scaled(high, u, v)
  BY DEF Tables, Direct
<1>. HIDE DEF low, high
<1>3. /\ Channel(low + 1634 * (v - 128)) <= Channel(high + 1634 * (v - 128))
      /\ Channel(low - 833 * (v - 128) - 400 * (u - 128))
           <= Channel(high - 833 * (v - 128) - 400 * (u - 128))
      /\ Channel(low + 2066 * (u - 128)) <= Channel(high + 2066 * (u - 128))
  BY <1>1, ChannelMonotone
<1>. QED  BY <1>1, <1>2, <1>3 DEF Scaled

\* The routines agree, and lean the right way, for all bytes.
THEOREM AllColoursAgree == Spec => []ColoursAgree
<1>1. IInv => ColoursAgree
  <2>. SUFFICES ASSUME IInv, sample # NotYet PROVE ColoursAgree
    BY DEF ColoursAgree
  <2>1. PICK y \in Byte, u \in Byte, v \in Byte :
          sample = [y |-> y, u |-> u, v |-> v] /\ colour = Routines(y, u, v)
    BY DEF IInv
  <2>2. sample.y = y /\ sample.u = u /\ sample.v = v
    BY <2>1
  <2>. SUFFICES
         /\ walk = "rows" =>
              /\ y >= 16 => colour.tables = colour.direct
              /\ \A ch \in 1..3 : colour.tables[ch] <= colour.direct[ch]
              /\ \A ch \in 1..2 : colour.shifted[ch] = colour.direct[ch]
         /\ walk = "blocks" => \A ch \in {1, 3} : colour.factors[ch] = colour.factorsJava[ch]
         /\ \A f \in DOMAIN colour \ {"shifted"} : Leans(colour[f], u, v)
    BY <2>2 DEF ColoursAgree, Leans
  <2>3. CASE walk = "rows"
    <3>1. colour = [direct  |-> Direct(y, u, v), tables |-> Tables(y, u, v),
                    shifted |-> Shifted(y, u, v)]
      BY <2>1, <2>3 DEF Routines
    <3>2. Leans(Direct(y, u, v), u, v) /\ Leans(Tables(y, u, v), u, v)
      <4>. DEFINE low == 1192 * (y - 16)
                  high == 1192 * (IF y < 16 THEN 0 ELSE y - 16)
      <4>1. low \in Int /\ high \in Int
        BY DEF Byte
      <4>2. Direct(y, u, v) = Scaled(high, u, v) /\ Tables(y, u, v) = Scaled(low, u, v)
        BY DEF Direct, Tables
      <4>. HIDE DEF low, high
      <4>. QED  BY <4>1, <4>2, ScaledLeans
    <3>3. \A ch \in 1..2 : Shifted(y, u, v)[ch] = Direct(y, u, v)[ch]
      BY DEF Shifted, Direct, Scaled
    <3>4. /\ DOMAIN colour = {"direct", "tables", "shifted"}
          /\ colour["direct"] = Direct(y, u, v) /\ colour["tables"] = Tables(y, u, v)
          /\ colour["shifted"] = Shifted(y, u, v)
      BY <3>1
    <3>5. \A f \in DOMAIN colour \ {"shifted"} : Leans(colour[f], u, v)
      BY <3>2, <3>4
    <3>. QED  BY <2>3, <3>3, <3>4, <3>5, TablesFollow
  <2>4. CASE walk = "blocks"
    <3>1. colour = [factors |-> Factors(y, u, v), factorsJava |-> FactorsJava(y, u, v)]
      BY <2>1, <2>4 DEF Routines
    <3>2. /\ DOMAIN colour = {"factors", "factorsJava"}
          /\ colour["factors"] = Factors(y, u, v) /\ colour["factorsJava"] = FactorsJava(y, u, v)
      BY <3>1
    <3>3. /\ Leans(Factors(y, u, v), u, v) /\ Leans(FactorsJava(y, u, v), u, v)
          /\ Factors(y, u, v)[1] = FactorsJava(y, u, v)[1]
          /\ Factors(y, u, v)[3] = FactorsJava(y, u, v)[3]
      BY FactorsLean
    <3>4. \A f \in DOMAIN colour \ {"shifted"} : Leans(colour[f], u, v)
      BY <3>2, <3>3
    <3>5. \A ch \in {1, 3} : colour.factors[ch] = colour.factorsJava[ch]
      BY <3>2, <3>3
    <3>. QED  BY <2>4, <3>4, <3>5
  <2>5. CASE walk = "rgb565"
    <3>1. colour = [packed |-> Packed(y, u, v)]
      BY <2>1, <2>5 DEF Routines
    <3>2. DOMAIN colour = {"packed"} /\ colour["packed"] = Packed(y, u, v)
      BY <3>1
    <3>3. \A f \in DOMAIN colour \ {"shifted"} : Leans(colour[f], u, v)
      BY <3>2, PackedLeans
    <3>. QED  BY <2>5, <3>3
  <2>. QED  BY <2>3, <2>4, <2>5 DEF IInv
<1>. QED  BY <1>1, Invariance, PTL

----------------------------------------------------------------------------
(* The walks. *)

height == size.height

\* The pixel of a line and a column.
Place(r, c) == r * width + c

\* A number is made of its quotient and its remainder ...
LEMMA Places ==
  ASSUME NEW W \in Nat \ {0}, NEW p \in Nat
  PROVE  p \div W \in Nat /\ p % W \in 0..(W - 1) /\ p = (p \div W) * W + (p % W)
  OBVIOUS

\* ... in one way only ...
LEMMA PlaceIs ==
  ASSUME NEW W \in Nat \ {0}, NEW r \in Nat, NEW c \in 0..(W - 1)
  PROVE  (r * W + c) \div W = r /\ (r * W + c) % W = c
  OBVIOUS

\* ... and lines come one after the other.
LEMMA Above ==
  ASSUME NEW W \in Nat, NEW r \in Nat, NEW s \in Nat, r <= s
  PROVE  r * W <= s * W
  OBVIOUS

\* What is inductive of each walk.  Those that go along the lines have written
\* all pixels before i.
Upto == /\ i \in 0..frameSize /\ DOMAIN out = 0..(i - 1)
        /\ \A p \in 0..(i - 1) : out[p] = Pixel(p, Expected(p))

\* Behind an even column the pair of the pixel is in hand, and k at the next one.
Rows ==
  /\ Upto
  /\ Col(i) # 0 => k = frameSize + 2 * Square(i) + (IF Col(i) % 2 = 1 THEN 2 ELSE 0)
  /\ Col(i) % 2 = 1 => chroma = PairOf(i)

\* The squares above those of the line of i, and those before i.
Covered == {p \in 0..(frameSize - 1) :
              \/ Line(p) < Line(i)
              \/ (Line(p) <= Line(i) + 1 /\ Col(p) < Col(i))}

\* The walk in blocks is at the upper left of a square.
Blocks ==
  /\ i \in 0..frameSize /\ Line(i) % 2 = 0 /\ Col(i) % 2 = 0
  /\ k = frameSize + 2 * Square(i)
  /\ DOMAIN out = Covered
  /\ \A p \in Covered : out[p] = Pixel(p, Expected(p))

\* The bytes in hand are those of the pixel, or for the two it gets wrong of the
\* square below.
Packing ==
  /\ Upto
  /\ k = frameSize + Square(i)
  /\ chroma = PlaneOf(IF Line(i) % 2 = 1 /\ Col(i) < 2 THEN Square(i) + width \div 2 ELSE Square(i))

\* libyuv has done nothing or all.
AtOnce == i # 0 => OwnSamples /\ i = frameSize

\* All walks.
WalkInv ==
  /\ size \in Sizes /\ walk \in {"rows", "blocks", "rgb565", "planes", "pairs"}
  /\ walk = "rows" => Rows
  /\ walk = "blocks" /\ width > 2 => Blocks
  /\ walk = "rgb565" => Packing
  /\ walk \in {"planes", "pairs"} => AtOnce

\* Lines and columns of a picture, from here on.
LEMMA Grid ==
  ASSUME size \in Sizes
  PROVE  /\ width \in Nat /\ width >= 2 /\ width % 2 = 0 /\ height \in Nat /\ height % 2 = 0
         /\ frameSize \in Nat /\ frameSize = Place(height, 0) /\ frameSize > 0
         /\ \A p \in Nat : Line(p) \in Nat /\ Col(p) \in 0..(width - 1) /\ p = Place(Line(p), Col(p))
         /\ \A r \in Nat, c \in 0..(width - 1) :
              Place(r, c) \in Nat /\ Line(Place(r, c)) = r /\ Col(Place(r, c)) = c
<1>1. /\ width \in Nat \ {0} /\ width % 2 = 0 /\ height \in Nat \ {0} /\ height % 2 = 0
  BY SizesAssumption DEF width, height
<1>2. width >= 2
  BY <1>1
<1>3. frameSize = width * height
  BY DEF frameSize, width, height
<1>. HIDE DEF width, height
<1>4. frameSize \in Nat /\ frameSize = Place(height, 0) /\ frameSize > 0
  BY <1>1, <1>3 DEF Place
<1>5. \A p \in Nat : Line(p) \in Nat /\ Col(p) \in 0..(width - 1) /\ p = Place(Line(p), Col(p))
  BY <1>1, Places DEF Line, Col, Place
<1>6. \A r \in Nat, c \in 0..(width - 1) :
        Place(r, c) \in Nat /\ Line(Place(r, c)) = r /\ Col(Place(r, c)) = c
  <2>. SUFFICES ASSUME NEW r \in Nat, NEW c \in 0..(width - 1)
                PROVE  Place(r, c) \in Nat /\ Line(Place(r, c)) = r /\ Col(Place(r, c)) = c
    OBVIOUS
  <2>1. r * width \in Nat
    BY <1>1
  <2>2. (r * width + c) \div width = r /\ (r * width + c) % width = c
    BY <1>1, PlaceIs
  <2>. QED  BY <1>1, <2>1, <2>2 DEF Line, Col, Place
<1>. QED  BY <1>1, <1>2, <1>4, <1>5, <1>6

\* The next pixel is in the next column, or starts the next line.
LEMMA NextPlace ==
  ASSUME size \in Sizes, NEW p \in Nat
  PROVE  /\ Col(p) # width - 1 => Line(p + 1) = Line(p) /\ Col(p + 1) = Col(p) + 1
         /\ Col(p) = width - 1 => Line(p + 1) = Line(p) + 1 /\ Col(p + 1) = 0
<1>. DEFINE r == Line(p)
            c == Col(p)
<1>1. /\ width \in Nat /\ width >= 2
      /\ r \in Nat /\ c \in 0..(width - 1) /\ p = Place(r, c)
  BY Grid
<1>2. \A s \in Nat, d \in 0..(width - 1) : Line(Place(s, d)) = s /\ Col(Place(s, d)) = d
  BY Grid
<1>. HIDE DEF r, c
<1>3. CASE c = width - 1
  <2>1. p + 1 = Place(r + 1, 0) /\ r + 1 \in Nat /\ 0 \in 0..(width - 1)
    BY <1>1, <1>3 DEF Place
  <2>2. Line(p + 1) = r + 1 /\ Col(p + 1) = 0
    BY <1>2, <2>1
  <2>. QED  BY <1>3, <2>2 DEF r, c
<1>4. CASE c # width - 1
  <2>1. p + 1 = Place(r, c + 1) /\ c + 1 \in 0..(width - 1)
    BY <1>1, <1>4 DEF Place
  <2>2. Line(p + 1) = r /\ Col(p + 1) = c + 1
    BY <1>1, <1>2, <2>1
  <2>. QED  BY <1>4, <2>2 DEF r, c
<1>. QED  BY <1>3, <1>4

\* The pixels of the picture are those of its lines.
LEMMA InPicture ==
  ASSUME size \in Sizes, NEW r \in Nat, NEW c \in 0..(width - 1)
  PROVE  Place(r, c) < frameSize <=> r < height
<1>1. width \in Nat /\ width >= 2 /\ height \in Nat /\ frameSize = height * width
  BY Grid DEF Place
<1>. HIDE DEF width, height, frameSize
<1>2. r + 1 <= height => (r + 1) * width <= height * width
  BY <1>1, Above
<1>3. height <= r => height * width <= r * width
  BY <1>1, Above
<1>4. (r + 1) * width = r * width + width
  BY <1>1
<1>5. r * width \in Nat /\ height * width \in Nat
  BY <1>1
<1>. QED  BY <1>1, <1>2, <1>3, <1>4, <1>5 DEF Place

\* The square of the next pixel.
LEMMA Squares ==
  ASSUME size \in Sizes, NEW p \in Nat
  PROVE  /\ Square(p) \in Nat
         /\ 2 * Square(p) = (Line(p) \div 2) * width + 2 * (Col(p) \div 2)
         /\ Col(p) % 2 = 0 => Square(p + 1) = Square(p)
         /\ Col(p) % 2 = 1 => Square(p + 1) = IF Col(p) = width - 1 /\ Line(p) % 2 = 0
                                                 THEN Square(p) + 1 - width \div 2 ELSE Square(p) + 1
<1>. DEFINE r == Line(p)
            c == Col(p)
            half == width \div 2
            R == r \div 2
<1>1. width \in Nat /\ width >= 2 /\ width % 2 = 0 /\ r \in Nat /\ c \in 0..(width - 1)
  BY Grid
<1>2. /\ c # width - 1 => Line(p + 1) = r /\ Col(p + 1) = c + 1
      /\ c = width - 1 => Line(p + 1) = r + 1 /\ Col(p + 1) = 0
  BY NextPlace
<1>3. Square(p) = R * half + c \div 2
  BY DEF Square
<1>4. Square(p + 1) = (Line(p + 1) \div 2) * half + Col(p + 1) \div 2
  BY DEF Square
<1>. HIDE DEF r, c, width
<1>5. half \in Nat /\ R \in Nat /\ width = 2 * half /\ (r + 1) \div 2 = (IF r % 2 = 0 THEN R ELSE R + 1)
  BY <1>1
<1>. HIDE DEF half, R
<1>6. R * half \in Nat /\ (R + 1) * half = R * half + half /\ R * width = 2 * (R * half)
  BY <1>5
<1>7. Square(p) \in Nat /\ 2 * Square(p) = R * width + 2 * (c \div 2)
  BY <1>1, <1>3, <1>6
<1>8. c % 2 = 0 => Square(p + 1) = Square(p)
  <2>1. c % 2 = 0 => c # width - 1 /\ (c + 1) \div 2 = c \div 2
    BY <1>1, <1>5
  <2>2. c # width - 1 => Square(p + 1) = R * half + (c + 1) \div 2
    BY <1>2, <1>4 DEF R
  <2>. QED  BY <1>3, <2>1, <2>2
<1>9. ASSUME c % 2 = 1
      PROVE  Square(p + 1) = IF c = width - 1 /\ r % 2 = 0 THEN Square(p) + 1 - half ELSE Square(p) + 1
  <2>1. CASE c # width - 1
    <3>1. Square(p + 1) = R * half + (c + 1) \div 2
      BY <1>2, <1>4, <2>1 DEF R
    <3>2. (c + 1) \div 2 = (c \div 2) + 1
      BY <1>1, <1>9
    <3>. QED  BY <1>1, <1>3, <1>6, <2>1, <3>1, <3>2
  <2>2. CASE c = width - 1
    <3>1. Square(p + 1) = (IF r % 2 = 0 THEN R ELSE R + 1) * half + 0
      BY <1>2, <1>4, <1>5, <2>2
    <3>2. c \div 2 = half - 1
      BY <1>5, <2>2
    <3>. QED  BY <1>3, <1>5, <1>6, <2>2, <3>1, <3>2
  <2>. QED  BY <2>1, <2>2
<1>. QED  BY <1>7, <1>8, <1>9 DEF r, c, half, R
\* One more pixel from the right bytes.
LEMMA OnePixel ==
  ASSUME size \in Sizes, walk \in {"rows", "rgb565"}, UNCHANGED <<size, walk>>,
         Upto, i < frameSize, NEW c, c = Expected(i), out' = Write({i}, c), i' = i + 1
  PROVE  Upto'
<1>1. frameSize \in Nat /\ i \in Nat /\ frameSize' = frameSize
  BY Grid DEF Upto, frameSize
<1>2. \A p : Expected(p)' = Expected(p) /\ Pixel(p, c)' = Pixel(p, c)
  BY DEF Expected, PairOf, PlaneOf, Pair, Square, Line, Col, width, frameSize, Pixel
<1>3. DOMAIN out = 0..(i - 1) /\ \A p \in 0..(i - 1) : out[p] = Pixel(p, Expected(p))
  BY DEF Upto
<1>. HIDE DEF frameSize
<1>4. (0..(i - 1)) \cup {i} = 0..i /\ i' - 1 = i /\ i' \in 0..frameSize
  BY <1>1
<1>5. DOMAIN out' = 0..i /\ out'[i] = Pixel(i, c)
  BY <1>3, <1>4 DEF Write
<1>6. \A p \in 0..(i - 1) : p # i /\ p \in 0..i
  BY <1>1
<1>7. \A p \in 0..(i - 1) : out'[p] = out[p]
  BY <1>3, <1>4, <1>6 DEF Write
<1>8. \A p \in 0..i : out'[p] = Pixel(p, Expected(p))
  <2>1. \A p \in 0..i : p \in 0..(i - 1) \/ p = i
    BY <1>1
  <2>. QED  BY <1>3, <1>5, <1>7, <2>1
<1>9. \A p \in 0..(i' - 1) : out'[p] = Pixel(p, Expected(p)')
  BY <1>2, <1>4, <1>8
<1>10. DOMAIN out' = 0..(i' - 1)
  BY <1>4, <1>5
<1>11. i' \in 0..frameSize'
  BY <1>1, <1>4
<1>12. \A p : (Pixel(p, Expected(p)))' = Pixel(p, Expected(p)')
  BY DEF Pixel
<1>. QED  BY <1>9, <1>10, <1>11, <1>12 DEF Upto

\* A pixel of decodeYUV420SP2 and its like (image_convert.c, lines 251-279).
LEMMA RowsStep ==
  ASSUME size \in Sizes, Rows, RowPixel
  PROVE  Rows'
<1>. DEFINE c == Col(i)
            sq == Square(i)
            uvp == IF c = 0 THEN frameSize + (Line(i) \div 2) * width ELSE k
<1>1. /\ walk = "rows" /\ UNCHANGED <<size, walk>> /\ i < frameSize /\ i \in Nat /\ Upto
      /\ frameSize \in Nat /\ i' = i + 1
      /\ frameSize' = frameSize /\ \A p : Square(p)' = Square(p) /\ Col(p)' = Col(p)
  BY Grid DEF RowPixel, Done, Rows, Upto, Square, Col, Line, width, frameSize
<1>2. /\ IF c % 2 = 0 THEN chroma' = Pair(uvp) /\ k' = uvp + 2
         ELSE k' = uvp /\ UNCHANGED chroma
      /\ out' = Write({i}, chroma')
  BY DEF RowPixel
<1>3. /\ c # 0 => k = frameSize + 2 * sq + (IF c % 2 = 1 THEN 2 ELSE 0)
      /\ c % 2 = 1 => chroma = PairOf(i)
  BY DEF Rows
<1>4. /\ width \in Nat /\ width >= 2 /\ width % 2 = 0 /\ c \in 0..(width - 1) /\ sq \in Nat
      /\ 2 * sq = (Line(i) \div 2) * width + 2 * (c \div 2)
      /\ c % 2 = 0 => Square(i + 1) = sq
      /\ c % 2 = 1 /\ c # width - 1 => Square(i + 1) = sq + 1
      /\ c # width - 1 => Col(i + 1) = c + 1
      /\ c = width - 1 => Col(i + 1) = 0
  BY <1>1, Grid, Squares, NextPlace
<1>5. /\ Col(i)' = Col(i + 1) /\ Square(i)' = Square(i + 1)
      /\ PairOf(i)' = Pair(frameSize + 2 * Square(i + 1))
      /\ PairOf(i) = Pair(frameSize + 2 * sq)
  BY <1>1 DEF Col, Square, Line, width, PairOf, Pair, frameSize
<1>. DEFINE d == Col(i + 1)
            st == Square(i + 1)
            Y == (Line(i) \div 2) * width
<1>. HIDE DEF c, sq, width, frameSize, d, st, Y
<1>6. c % 2 = 0 => uvp = frameSize + 2 * sq
  <2>1. c = 0 => 2 * (c \div 2) = 0
    BY <1>4
  <2>2. c # 0 /\ c % 2 = 0 => k = frameSize + 2 * sq
    BY <1>1, <1>3, <1>4
  <2>3. c = 0 => Y = 2 * sq
    <3>1. Line(i) \in Nat
      BY <1>1, Grid
    <3>2. Y \in Int
      BY <1>4, <3>1 DEF Y
    <3>. QED  BY <1>4, <2>1, <3>2 DEF Y
  <2>4. uvp = IF c = 0 THEN frameSize + Y ELSE k
    BY DEF Y
  <2>. HIDE DEF uvp
  <2>. QED  BY <1>1, <1>4, <2>2, <2>3, <2>4
<1>7. chroma' = PairOf(i)
  BY <1>2, <1>3, <1>4, <1>5, <1>6
<1>8. Upto'
  <2>1. chroma' = Expected(i)
    BY <1>1, <1>7 DEF Expected
  <2>. QED  BY <1>1, <1>2, <2>1, OnePixel
<1>9. /\ d # 0 => k' = frameSize + 2 * st + (IF d % 2 = 1 THEN 2 ELSE 0)
      /\ d % 2 = 1 => chroma' = Pair(frameSize + 2 * st)
  <2>1. CASE c % 2 = 0
    <3>1. d = c + 1 /\ d % 2 = 1 /\ st = sq
      BY <1>4, <2>1 DEF d, st
    <3>2. k' = frameSize + 2 * sq + 2
      BY <1>2, <1>6, <2>1
    <3>. QED  BY <1>5, <1>7, <3>1, <3>2
  <2>2. CASE c % 2 = 1
    <3>1. k' = frameSize + 2 * sq + 2
      BY <1>2, <1>3, <1>4, <2>2
    <3>2. CASE c = width - 1
      BY <1>4, <3>2 DEF d
    <3>3. CASE c # width - 1
      <4>1. d = c + 1 /\ d % 2 = 0 /\ st = sq + 1
        BY <1>4, <2>2, <3>3 DEF d, st
      <4>2. 2 * (sq + 1) = 2 * sq + 2
        BY <1>4
      <4>. QED  BY <1>1, <1>4, <3>1, <4>1, <4>2
    <3>. QED  BY <3>2, <3>3
  <2>. QED  BY <1>4, <2>1, <2>2
<1>10. Col(i)' = d /\ Square(i)' = st /\ PairOf(i)' = Pair(frameSize + 2 * st)
  BY <1>5 DEF d, st
<1>. QED  BY <1>1, <1>8, <1>9, <1>10 DEF Rows

\* A pixel of ccvt_420p_rgb565 with the rewind behind even lines (lines 310-343).
LEMMA PackedStep ==
  ASSUME size \in Sizes, Packing, PackedPixel
  PROVE  Packing'
<1>. DEFINE c == Col(i)
            r == Line(i)
            sq == Square(i)
            half == width \div 2
            d == Col(i + 1)
            rr == Line(i + 1)
            st == Square(i + 1)
            next == IF c % 2 = 1 THEN k + 1 ELSE k
            now == IF r % 2 = 1 /\ c < 2 THEN sq + half ELSE sq
            then == IF rr % 2 = 1 /\ d < 2 THEN st + half ELSE st
<1>1. /\ walk = "rgb565" /\ UNCHANGED <<size, walk>> /\ i < frameSize /\ i \in Nat /\ Upto
      /\ frameSize \in Nat /\ i' = i + 1
  BY Grid DEF PackedPixel, Done, Packing, Upto
<1>2. /\ out' = Write({i}, chroma)
      /\ IF c % 2 = 1 THEN chroma' = PlaneOf(k + 1 - frameSize) ELSE UNCHANGED chroma
      /\ k' = IF c = width - 1 /\ r % 2 = 0 THEN next - half ELSE next
  <2>1. k \in Int /\ frameSize \in Int
    BY <1>1, Squares DEF Packing
  <2>2. frameSize + (k + 1 - frameSize) = k + 1
        /\ frameSize + frameSize \div 4 + (k + 1 - frameSize) = k + 1 + frameSize \div 4
    BY <2>1
  <2>. QED  BY <2>2 DEF PackedPixel, PlaneOf
<1>3. k = frameSize + sq /\ chroma = PlaneOf(now)
  BY DEF Packing
<1>4. /\ width \in Nat /\ width >= 2 /\ width % 2 = 0 /\ c \in 0..(width - 1) /\ r \in Nat
      /\ sq \in Nat /\ st \in Nat
      /\ c % 2 = 0 => st = sq
      /\ c % 2 = 1 => st = IF c = width - 1 /\ r % 2 = 0 THEN sq + 1 - half ELSE sq + 1
      /\ c # width - 1 => rr = r /\ d = c + 1
      /\ c = width - 1 => rr = r + 1 /\ d = 0
  <2>1. /\ width \in Nat /\ width >= 2 /\ width % 2 = 0 /\ c \in 0..(width - 1) /\ r \in Nat
    BY <1>1, Grid
  <2>2. /\ sq \in Nat
        /\ c % 2 = 0 => st = sq
        /\ c % 2 = 1 => st = IF c = width - 1 /\ r % 2 = 0 THEN sq + 1 - half ELSE sq + 1
    BY <1>1, Squares
  <2>3. st \in Nat
    BY <1>1, Squares
  <2>4. /\ c # width - 1 => rr = r /\ d = c + 1
        /\ c = width - 1 => rr = r + 1 /\ d = 0
    BY <1>1, NextPlace
  <2>. QED  BY <2>1, <2>2, <2>3, <2>4
<1>5. frameSize' = frameSize /\ Square(i)' = st
      /\ (PlaneOf(IF Line(i) % 2 = 1 /\ Col(i) < 2 THEN Square(i) + width \div 2 ELSE Square(i)))'
            = PlaneOf(then)
  BY <1>1 DEF Col, Square, Line, width, PlaneOf, frameSize
<1>6. Upto'
  <2>1. chroma = Expected(i)
    BY <1>1, <1>3 DEF Expected
  <2>. QED  BY <1>1, <1>2, <2>1, OnePixel
<1>. HIDE DEF c, r, sq, d, rr, st, width, frameSize
<1>7. k' = frameSize + st
  BY <1>1, <1>2, <1>3, <1>4
<1>8. c % 2 = 0 => now = then
  BY <1>4
<1>9. c % 2 = 1 => k + 1 - frameSize = then
  <2>1. k + 1 - frameSize = sq + 1
    BY <1>1, <1>3, <1>4
  <2>2. CASE c = width - 1
    BY <1>4, <2>1, <2>2
  <2>3. CASE c # width - 1
    BY <1>4, <2>1, <2>3
  <2>. QED  BY <2>2, <2>3
<1>10. chroma' = PlaneOf(then)
  <2>. HIDE DEF now, then
  <2>1. c % 2 = 0 => chroma' = PlaneOf(then)
    BY <1>2, <1>3, <1>8
  <2>2. c % 2 = 1 => chroma' = PlaneOf(then)
    BY <1>2, <1>9
  <2>. QED  BY <1>4, <2>1, <2>2
<1>. QED  BY <1>5, <1>6, <1>7, <1>10 DEF Packing
\* The four pixels of a square, for the one that the walk has reached.
Four == {i, i + 1, width + i, width + i + 1}

\* They lie in the picture, and in two lines and two columns.
LEMMA FourAre ==
  ASSUME size \in Sizes, Blocks, i < frameSize
  PROVE  /\ Four \subseteq 0..(frameSize - 1) /\ Line(i) + 2 <= height
         /\ \A p \in 0..(frameSize - 1) :
              p \in Four <=> Line(p) \in {Line(i), Line(i) + 1} /\ Col(p) \in {Col(i), Col(i) + 1}
         /\ \A p \in Four : Square(p) = Square(i)
<1>. DEFINE r == Line(i)
            c == Col(i)
            F == frameSize
<1>0. /\ \A p \in Nat : Line(p) \in Nat /\ Col(p) \in 0..(width - 1) /\ p = Place(Line(p), Col(p))
      /\ \A s \in Nat, d \in 0..(width - 1) :
           Place(s, d) \in Nat /\ Line(Place(s, d)) = s /\ Col(Place(s, d)) = d
  BY Grid
<1>1. /\ width \in Nat /\ width >= 2 /\ width % 2 = 0 /\ height \in Nat /\ height % 2 = 0
      /\ F \in Nat /\ i \in Nat /\ i < F /\ r \in Nat /\ c \in 0..(width - 1) /\ i = Place(r, c)
      /\ r % 2 = 0 /\ c % 2 = 0
  <2>1. i \in 0..F /\ r % 2 = 0 /\ c % 2 = 0
    BY DEF Blocks
  <2>2. /\ width \in Nat /\ width >= 2 /\ width % 2 = 0 /\ height \in Nat /\ height % 2 = 0
        /\ F \in Nat
    BY Grid
  <2>. HIDE DEF F
  <2>3. i \in Nat
    BY <2>1, <2>2
  <2>4. r \in Nat /\ c \in 0..(width - 1) /\ i = Place(r, c)
    BY <1>0, <2>3
  <2>. QED  BY <2>1, <2>2, <2>3, <2>4 DEF F
<1>2. \A s \in Nat, d \in 0..(width - 1) : Place(s, d) < F <=> s < height
  BY InPicture
<1>3. \A p : Square(p) = (Line(p) \div 2) * (width \div 2) + Col(p) \div 2
  BY DEF Square
<1>4. Four = {i, i + 1, width + i, width + i + 1}
  BY DEF Four
<1>5. i = r * width + c
  BY <1>1 DEF Place
<1>6. i + 1 = Place(r, c + 1) /\ width + i = Place(r + 1, c) /\ width + i + 1 = Place(r + 1, c + 1)
  <2>1. (r + 1) * width = r * width + width /\ r * width \in Nat
    BY <1>1
  <2>. HIDE DEF r, c, width
  <2>. QED  BY <1>1, <1>5, <2>1 DEF Place
<1>. HIDE DEF r, c, F, width, height
<1>7. r < height /\ r + 2 <= height /\ c + 1 \in 0..(width - 1) /\ r + 1 \in Nat
  <2>1. r < height
    BY <1>1, <1>2
  <2>. QED  BY <1>1, <2>1
<1>8. \A p \in Four : /\ p \in Nat /\ p < F
                     /\ Line(p) \in {r, r + 1} /\ Col(p) \in {c, c + 1}
  <2>1. /\ Place(r, c) \in Nat /\ Line(Place(r, c)) = r /\ Col(Place(r, c)) = c
        /\ Place(r, c + 1) \in Nat /\ Line(Place(r, c + 1)) = r /\ Col(Place(r, c + 1)) = c + 1
        /\ Place(r + 1, c) \in Nat /\ Line(Place(r + 1, c)) = r + 1 /\ Col(Place(r + 1, c)) = c
        /\ Place(r + 1, c + 1) \in Nat /\ Line(Place(r + 1, c + 1)) = r + 1
        /\ Col(Place(r + 1, c + 1)) = c + 1
    BY <1>0, <1>1, <1>7
  <2>2. /\ Place(r, c) < F /\ Place(r, c + 1) < F
        /\ Place(r + 1, c) < F /\ Place(r + 1, c + 1) < F
    BY <1>1, <1>2, <1>7
  <2>. QED  BY <1>1, <1>4, <1>6, <2>1, <2>2
<1>9. \A p \in Nat : Line(p) \in {r, r + 1} /\ Col(p) \in {c, c + 1} => p \in Four
  <2>1. \A p \in Nat : p = Place(Line(p), Col(p))
    BY <1>0
  <2>. QED  BY <1>1, <1>4, <1>6, <2>1
<1>10. Four \subseteq 0..(F - 1) /\ 0..(F - 1) \subseteq Nat
  BY <1>1, <1>8
<1>11. \A p \in Four : Square(p) = Square(i)
  <2>1. r \div 2 = (r + 1) \div 2 /\ c \div 2 = (c + 1) \div 2
    BY <1>1
  <2>2. \A p \in Four : Line(p) \div 2 = r \div 2 /\ Col(p) \div 2 = c \div 2
    BY <1>8, <2>1
  <2>3. Line(i) = r /\ Col(i) = c
    BY DEF r, c
  <2>. QED  BY <1>3, <2>2, <2>3
<1>12. \A p \in 0..(F - 1) : p \in Four <=> Line(p) \in {r, r + 1} /\ Col(p) \in {c, c + 1}
  BY <1>8, <1>9, <1>10
<1>. QED  BY <1>7, <1>10, <1>11, <1>12 DEF r, c, F

\* Where the walk goes next: two columns on, or two lines.
LEMMA BlockNext ==
  ASSUME size \in Sizes, width > 2, Blocks, i < frameSize, NEW j, j = BlockEnd(i) + 2
  PROVE  /\ j \in 0..frameSize /\ Square(j) = Square(i) + 1
         /\ Line(j) % 2 = 0 /\ Col(j) % 2 = 0
         /\ IF Col(i) = width - 2 THEN Line(j) = Line(i) + 2 /\ Col(j) = 0
                                  ELSE Line(j) = Line(i) /\ Col(j) = Col(i) + 2
<1>. DEFINE r == Line(i)
            c == Col(i)
            F == frameSize
            half == width \div 2
<1>0. \A s \in Nat, d \in 0..(width - 1) :
        Place(s, d) \in Nat /\ Line(Place(s, d)) = s /\ Col(Place(s, d)) = d
  BY Grid
<1>1. /\ width \in Nat /\ width > 2 /\ width % 2 = 0 /\ height \in Nat
      /\ F \in Nat /\ i \in Nat /\ i < F /\ r \in Nat /\ c \in 0..(width - 1) /\ i = Place(r, c)
      /\ r % 2 = 0 /\ c % 2 = 0 /\ F = Place(height, 0)
  <2>1. i \in 0..F /\ r % 2 = 0 /\ c % 2 = 0
    BY DEF Blocks
  <2>2. /\ width \in Nat /\ width % 2 = 0 /\ height \in Nat /\ F \in Nat /\ F = Place(height, 0)
    BY Grid
  <2>. HIDE DEF F
  <2>3. i \in Nat
    BY <2>1, <2>2
  <2>4. r \in Nat /\ c \in 0..(width - 1) /\ i = Place(r, c)
    BY <2>3, Grid
  <2>. QED  BY <2>1, <2>2, <2>3, <2>4 DEF F
<1>2. r + 2 <= height
  BY FourAre
<1>3. \A s \in Nat, d \in 0..(width - 1) : Place(s, d) < F <=> s < height
  BY InPicture
<1>4. j = IF i # 0 /\ Col(i + 2) = 0 THEN i + width + 2 ELSE i + 2
  BY <1>1 DEF BlockEnd, Col
<1>5. /\ Square(j) = (Line(j) \div 2) * half + Col(j) \div 2
      /\ Square(i) = (r \div 2) * half + c \div 2
  BY DEF Square
<1>. HIDE DEF r, c, F, width, height
<1>6. i = r * width + c /\ r * width \in Nat
  BY <1>1 DEF Place
<1>. HIDE DEF half
<1>7. CASE c = width - 2
  <2>1. i # 0
    BY <1>1, <1>6, <1>7
  <2>2. i + 2 = Place(r + 1, 0) /\ i + width + 2 = Place(r + 2, 0)
    BY <1>1, <1>6, <1>7 DEF Place
  <2>3. r + 1 \in Nat /\ r + 2 \in Nat /\ 0 \in 0..(width - 1)
    BY <1>1
  <2>4. j = Place(r + 2, 0)
    BY <1>0, <1>1, <1>4, <2>1, <2>2, <2>3
  <2>5. Line(j) = r + 2 /\ Col(j) = 0 /\ j \in Nat
    BY <1>0, <2>3, <2>4
  <2>6. j <= F
    <3>1. (r + 2) * width <= height * width
      BY <1>1, <1>2, Above
    <3>. QED  BY <1>1, <2>4, <3>1 DEF Place
  <2>7. Square(j) = Square(i) + 1
    <3>. DEFINE R == r \div 2
    <3>1. (r + 2) \div 2 = R + 1 /\ c \div 2 = half - 1 /\ half \in Nat /\ R \in Nat
      BY <1>1, <1>7 DEF half
    <3>. HIDE DEF R
    <3>2. (R + 1) * half = R * half + half /\ R * half \in Nat
      BY <3>1
    <3>. QED  BY <1>5, <2>5, <3>1, <3>2 DEF R
  <2>. QED
    <3>1. j \in 0..F /\ Line(j) % 2 = 0 /\ Col(j) % 2 = 0
      BY <1>1, <2>5, <2>6
    <3>. QED  BY <1>7, <2>5, <2>7, <3>1 DEF r, c, F
<1>8. CASE c # width - 2
  <2>1. i + 2 = Place(r, c + 2) /\ c + 2 \in 0..(width - 1) /\ c + 2 # 0
    BY <1>1, <1>6, <1>8 DEF Place
  <2>2. j = Place(r, c + 2)
    BY <1>0, <1>1, <1>4, <2>1
  <2>3. Line(j) = r /\ Col(j) = c + 2 /\ j \in Nat
    BY <1>0, <1>1, <2>1, <2>2
  <2>4. j < F
    BY <1>1, <1>2, <1>3, <2>1, <2>2
  <2>5. Square(j) = Square(i) + 1
    <3>. DEFINE R == r \div 2
    <3>1. (c + 2) \div 2 = (c \div 2) + 1 /\ half \in Nat /\ R \in Nat
      BY <1>1 DEF half
    <3>. HIDE DEF R
    <3>2. R * half \in Nat
      BY <3>1
    <3>. QED  BY <1>1, <1>5, <2>3, <3>1, <3>2 DEF R
  <2>. QED
    <3>1. j \in 0..F /\ Line(j) % 2 = 0 /\ Col(j) % 2 = 0
      BY <1>1, <2>3, <2>4
    <3>. QED  BY <1>8, <2>3, <2>5, <3>1 DEF r, c, F
<1>. QED  BY <1>7, <1>8
\* A square of convertYUV420_NV21toRGB8888 or YUV420PtoARGB8888.
LEMMA BlockStep ==
  ASSUME size \in Sizes, width > 2, Blocks, Block
  PROVE  Blocks'
<1>. DEFINE c == [u |-> k, v |-> k + 1]
            pixels == 0..(frameSize - 1)
<1>1. /\ walk = "blocks" /\ UNCHANGED <<size, walk>> /\ i < frameSize /\ frameSize \in Nat
      /\ i' = BlockEnd(i) + 2 /\ k' = k + 2 /\ out' = Write(Four, c)
  BY Grid DEF Block, Done, Blocks, Four
<1>2. /\ frameSize' = frameSize /\ \A p : Line(p)' = Line(p) /\ Col(p)' = Col(p)
      /\ \A p : Square(p)' = Square(p) /\ Expected(p)' = Expected(p) /\ Pixel(p, Expected(p))' = Pixel(p, Expected(p)')
      /\ Line(i)' = Line(i') /\ Col(i)' = Col(i') /\ Square(i)' = Square(i')
  BY <1>1 DEF Square, Col, Line, width, frameSize, Expected, PairOf, Pair, Swapped, Pixel
<1>3. /\ i' \in 0..frameSize /\ Square(i') = Square(i) + 1
      /\ Line(i') % 2 = 0 /\ Col(i') % 2 = 0
      /\ IF Col(i) = width - 2 THEN Line(i') = Line(i) + 2 /\ Col(i') = 0
                               ELSE Line(i') = Line(i) /\ Col(i') = Col(i) + 2
  BY <1>1, BlockNext
<1>4. /\ Four \subseteq pixels
      /\ \A p \in pixels :
           p \in Four <=> Line(p) \in {Line(i), Line(i) + 1} /\ Col(p) \in {Col(i), Col(i) + 1}
      /\ \A p \in Four : Square(p) = Square(i)
  BY <1>1, FourAre
<1>5. /\ k = frameSize + 2 * Square(i) /\ DOMAIN out = Covered
      /\ \A p \in Covered : out[p] = Pixel(p, Expected(p))
      /\ Col(i) % 2 = 0
  BY DEF Blocks
<1>6. i \in Nat /\ Square(i) \in Nat /\ Line(i) \in Nat /\ Col(i) \in 0..(width - 1) /\ width \in Nat
      /\ width % 2 = 0
  <2>1. i \in Nat
    BY <1>1 DEF Blocks
  <2>. QED  BY <2>1, Squares, Grid
<1>7. k' = frameSize + 2 * Square(i')
  <2>. HIDE DEF frameSize
  <2>. QED  BY <1>1, <1>3, <1>5, <1>6
<1>8. Covered' = Covered \cup Four
  <2>1. Covered' = {p \in pixels : Line(p) < Line(i') \/ (Line(p) <= Line(i') + 1 /\ Col(p) < Col(i'))}
    BY <1>2 DEF Covered
  <2>2. ASSUME NEW p \in pixels
        PROVE  (Line(p) < Line(i') \/ (Line(p) <= Line(i') + 1 /\ Col(p) < Col(i')))
                 <=> p \in Covered \/ p \in Four
    <3>1. Line(p) \in Nat /\ Col(p) \in 0..(width - 1)
      <4>1. p \in Nat
        BY <1>1
      <4>. QED  BY <4>1, Grid
    <3>2. p \in Covered <=> Line(p) < Line(i) \/ (Line(p) <= Line(i) + 1 /\ Col(p) < Col(i))
      BY DEF Covered
    <3>3. p \in Four <=> Line(p) \in {Line(i), Line(i) + 1} /\ Col(p) \in {Col(i), Col(i) + 1}
      BY <1>4
    <3>. HIDE DEF pixels
    <3>4. CASE Col(i) = width - 2
      BY <1>3, <1>6, <3>1, <3>2, <3>3, <3>4
    <3>5. CASE Col(i) # width - 2
      <4>. DEFINE L == Line(i)
                  C == Col(i)
                  lp == Line(p)
                  cp == Col(p)
      <4>1. L \in Nat /\ C \in Nat /\ lp \in Nat /\ cp \in Nat /\ Line(i') = L /\ Col(i') = C + 2
        BY <1>3, <1>6, <3>1, <3>5
      <4>2. (p \in Covered <=> lp < L \/ (lp <= L + 1 /\ cp < C))
            /\ (p \in Four <=> (lp = L \/ lp = L + 1) /\ (cp = C \/ cp = C + 1))
        BY <3>2, <3>3
      <4>. HIDE DEF L, C, lp, cp
      <4>3. (lp < L \/ (lp <= L + 1 /\ cp < C + 2))
              <=> p \in Covered \/ p \in Four
        BY <4>1, <4>2
      <4>. QED  BY <4>1, <4>3 DEF lp, cp
    <3>. QED  BY <3>4, <3>5
  <2>3. Covered \subseteq pixels
    BY DEF Covered
  <2>. QED  BY <1>4, <2>1, <2>2, <2>3
<1>9. \A p \in Four : Expected(p) = c
  <2>1. ASSUME NEW p \in Four PROVE Expected(p) = c
    <3>1. Expected(p) = Swapped(Pair(frameSize + 2 * Square(i)))
      BY <1>1, <1>4 DEF Expected, PairOf
    <3>. QED  BY <1>5, <3>1 DEF Pair, Swapped
  <2>. QED  BY <2>1
<1>10. DOMAIN out' = Covered'
  BY <1>1, <1>5, <1>8 DEF Write
<1>11. \A p \in Covered' : out'[p] = Pixel(p, Expected(p))
  <2>1. \A p \in Covered \cup Four : out'[p] = IF p \in Four THEN Pixel(p, c) ELSE out[p]
    BY <1>1, <1>5 DEF Write
  <2>. QED  BY <1>5, <1>8, <1>9, <2>1
<1>. QED  BY <1>1, <1>2, <1>3, <1>7, <1>10, <1>11 DEF Blocks

\* The walks of libyuv are done in one step.
LEMMA AtOnceStep ==
  ASSUME size \in Sizes, Planes \/ Pairs
  PROVE  AtOnce'
<1>. DEFINE F == frameSize
            half == width \div 2
            uAt == IF walk = "planes" THEN (F * 5) \div 4 ELSE F
            vAt == IF walk = "planes" THEN F ELSE F + 1
            step == IF walk = "planes" THEN 1 ELSE 2
            at(p) == (Line(p) \div 2) * half + (Col(p) \div 2) * step
<1>1. /\ walk \in {"planes", "pairs"} /\ UNCHANGED <<size, walk>> /\ i' = F
      /\ out' = [p \in 0..(F - 1) |-> [y |-> p, u |-> uAt + at(p), v |-> vAt + at(p)]]
  <2>1. /\ walk \in {"planes", "pairs"} /\ UNCHANGED <<size, walk>> /\ i' = F
        /\ out' = RowLoop(uAt, vAt, half, step)
    BY DEF Planes, Pairs, I420ToARGB, NV12ToARGB
  <2>2. RowLoop(uAt, vAt, half, step) = [p \in 0..(F - 1) |-> [y |-> p, u |-> uAt + at(p), v |-> vAt + at(p)]]
    BY DEF RowLoop
  <2>. QED  BY <2>1, <2>2
<1>2. F \in Nat /\ half \in Nat /\ (F * 5) \div 4 = F + F \div 4
      /\ \A p \in 0..(F - 1) : Line(p) \in Nat /\ Col(p) \in Nat
  <2>1. F \in Nat /\ width \in Nat
    BY Grid
  <2>2. \A p \in Nat : Line(p) \in Nat /\ Col(p) \in 0..(width - 1)
    BY Grid
  <2>. HIDE DEF F, width
  <2>3. 0..(F - 1) \subseteq Nat
    BY <2>1
  <2>4. half \in Nat /\ (F * 5) \div 4 = F + F \div 4
    BY <2>1
  <2>5. \A p \in Nat : Col(p) \in Nat
    BY <2>1, <2>2
  <2>. QED  BY <2>1, <2>2, <2>3, <2>4, <2>5
<1>3. \A p : Square(p) = (Line(p) \div 2) * half + Col(p) \div 2
  BY DEF Square
<1>4. /\ frameSize' = F /\ (\A p : Pixel(p, Expected(p))' = Pixel(p, Expected(p)'))
      /\ \A p : (walk = "planes" => Expected(p)' = [u |-> F + F \div 4 + Square(p), v |-> F + Square(p)])
      /\ \A p : walk = "pairs" =>
           Expected(p)' = IF Line(p) < 2 THEN [u |-> F + 2 * Square(p), v |-> F + 2 * Square(p) + 1]
                          ELSE [u |-> out'[p].u, v |-> out'[p].v]
  BY <1>1 DEF Square, Col, Line, width, frameSize, Expected, PairOf, PlaneOf, Pair, Swapped, Pixel
<1>. HIDE DEF F, half
<1>5. ASSUME NEW p \in 0..(F - 1) PROVE out'[p] = Pixel(p, Expected(p)')
  <2>1. out'[p] = [y |-> p, u |-> uAt + at(p), v |-> vAt + at(p)]
    BY <1>1
  <2>. DEFINE L == Line(p) \div 2
              C == Col(p) \div 2
  <2>2. L \in Nat /\ C \in Nat /\ (Line(p) < 2 => L = 0) /\ Line(p) \in Nat
    BY <1>2
  <2>3. Square(p) = L * half + C /\ at(p) = L * half + C * step /\ L * half \in Nat
    BY <1>2, <1>3, <2>2
  <2>4. CASE walk = "planes"
    <3>1. Expected(p)' = [u |-> F + F \div 4 + Square(p), v |-> F + Square(p)]
      BY <1>4, <2>4
    <3>2. at(p) = Square(p)
      BY <2>2, <2>3, <2>4
    <3>. QED  BY <1>2, <2>1, <2>4, <3>1, <3>2 DEF Pixel
  <2>5. CASE walk = "pairs"
    <3>1. CASE Line(p) < 2
      <4>1. Expected(p)' = [u |-> F + 2 * Square(p), v |-> F + 2 * Square(p) + 1]
        BY <1>4, <2>5, <3>1
      <4>2. at(p) = 2 * Square(p)
        BY <1>2, <2>2, <2>3, <2>5, <3>1
      <4>3. Square(p) \in Nat
        BY <2>2, <2>3
      <4>. QED  BY <1>2, <2>1, <2>5, <4>1, <4>2, <4>3 DEF Pixel
    <3>2. CASE ~(Line(p) < 2)
      <4>1. Expected(p)' = [u |-> out'[p].u, v |-> out'[p].v]
        BY <1>4, <2>5, <3>2
      <4>. QED  BY <2>1, <4>1 DEF Pixel
    <3>. QED  BY <3>1, <3>2
  <2>. QED  BY <1>1, <2>4, <2>5
<1>6. DOMAIN out' = 0..(F - 1)
  BY <1>1
<1>. QED  BY <1>1, <1>4, <1>5, <1>6 DEF AtOnce, OwnSamples
\* The walks start right and stay right.
LEMMA WalkInit == Init => WalkInv
<1>. SUFFICES ASSUME Init PROVE WalkInv
  OBVIOUS
<1>1. size \in Sizes /\ i = 0 /\ k = frameSize /\ DOMAIN out = {}
      /\ chroma = [u |-> frameSize, v |-> frameSize + frameSize \div 4]
  BY DEF Init, NotYet
<1>2. /\ frameSize \in Nat /\ frameSize > 0 /\ width \in Nat /\ width >= 2 /\ 0 = Place(0, 0)
      /\ Line(0) = 0 /\ Col(0) = 0
  <2>1. /\ frameSize \in Nat /\ frameSize > 0 /\ width \in Nat /\ width >= 2
        /\ \A r \in Nat, c \in 0..(width - 1) : Line(Place(r, c)) = r /\ Col(Place(r, c)) = c
    BY <1>1, Grid
  <2>2. Place(0, 0) = 0 /\ 0 \in 0..(width - 1)
    BY <2>1 DEF Place
  <2>. QED  BY <2>1, <2>2
<1>3. Square(0) = 0
  <2>1. 0 * (width \div 2) = 0 /\ 0 \div 2 = 0
    BY <1>2
  <2>. QED  BY <1>2, <2>1 DEF Square
<1>. HIDE DEF frameSize
<1>4. Upto
  BY <1>1, <1>2 DEF Upto
<1>5. Rows
  BY <1>1, <1>2, <1>4 DEF Rows
<1>6. Blocks
  <2>1. \A p \in 0..(frameSize - 1) : ~(Line(p) < 0) /\ ~(Col(p) < 0)
    <3>1. \A p \in Nat : Line(p) \in Nat /\ Col(p) \in 0..(width - 1)
      BY <1>1, Grid
    <3>. QED  BY <1>2, <3>1
  <2>2. Covered = {}
    BY <1>1, <1>2, <2>1 DEF Covered
  <2>. QED  BY <1>1, <1>2, <1>3, <2>2 DEF Blocks
<1>7. Packing
  BY <1>1, <1>2, <1>3, <1>4 DEF Packing, PlaneOf
<1>8. walk \in {"rows", "blocks", "rgb565", "planes", "pairs"}
  BY DEF Init
<1>. QED  BY <1>1, <1>5, <1>6, <1>7, <1>8 DEF WalkInv, AtOnce

\* Every step is one of one walk.
LEMMA WalkNext == WalkInv /\ [Next]_vars => WalkInv'
<1>. SUFFICES ASSUME WalkInv, [Next]_vars PROVE WalkInv'
  OBVIOUS
<1>1. CASE UNCHANGED <<size, walk, walkVars>>
  <2>1. WalkInv' = WalkInv
    BY <1>1 DEF walkVars, WalkInv, Rows, Blocks, Packing, AtOnce, Upto, Covered, OwnSamples, Done, Pixel,
       Expected, PairOf, PlaneOf, Pair, Swapped, Square, Line, Col, width, frameSize
  <2>. QED  BY <2>1
<1>2. CASE RowPixel
  <2>1. walk = "rows" /\ UNCHANGED <<size, walk>>
    BY <1>2 DEF RowPixel
  <2>. QED  BY <1>2, <2>1, RowsStep DEF WalkInv
<1>3. CASE Block
  <2>1. walk = "blocks" /\ UNCHANGED <<size, walk>> /\ width' = width
    BY <1>3 DEF Block, width
  <2>. QED  BY <1>3, <2>1, BlockStep DEF WalkInv
<1>4. CASE PackedPixel
  <2>1. walk = "rgb565" /\ UNCHANGED <<size, walk>>
    BY <1>4 DEF PackedPixel
  <2>. QED  BY <1>4, <2>1, PackedStep DEF WalkInv
<1>5. CASE Planes \/ Pairs
  <2>1. walk \in {"planes", "pairs"} /\ UNCHANGED <<size, walk>> /\ size \in Sizes
    BY <1>5 DEF Planes, Pairs, WalkInv
  <2>. QED  BY <1>5, <2>1, AtOnceStep DEF WalkInv
<1>6. CASE Colour \/ UNCHANGED vars
  BY <1>1, <1>6 DEF Colour, vars
<1>. QED  BY <1>2, <1>3, <1>4, <1>5, <1>6 DEF Next

\* What each walk has done, and the chroma it holds, at every pixel.
THEOREM WalkInvariance == Spec => []WalkInv
  BY WalkInit, WalkNext, PTL DEF Spec

\* For every even width and height each walk ends with the picture, has written
\* all of its pixels and nothing else, and has made each of them from its own
\* luma byte and the chroma of its square, but for those that Expected names
\* (Convert.java and image_convert.c).
THEOREM EveryPixelItsOwn == Spec => []OwnSamples
<1>1. WalkInv => OwnSamples
  <2>. SUFFICES ASSUME WalkInv, Done, walk = "blocks" => width > 2
                PROVE  /\ i = frameSize
                       /\ DOMAIN out = 0..(frameSize - 1)
                       /\ \A p \in DOMAIN out : out[p] = Pixel(p, Expected(p))
    BY DEF OwnSamples
  <2>1. size \in Sizes /\ frameSize \in Nat /\ frameSize > 0 /\ i >= frameSize
    BY Grid DEF WalkInv, Done
  <2>2. CASE Upto
    <3>. HIDE DEF frameSize
    <3>1. i = frameSize
      BY <2>1, <2>2 DEF Upto
    <3>. QED  BY <2>2, <3>1 DEF Upto
  <2>3. CASE Blocks
    <3>1. i = frameSize
      <4>. HIDE DEF frameSize
      <4>. QED  BY <2>1, <2>3 DEF Blocks
    <3>2. Line(i) = height /\ Col(i) = 0 /\ height \in Nat /\ width >= 2 /\ width \in Nat
      <4>1. /\ i = Place(height, 0) /\ height \in Nat /\ width \in Nat /\ width >= 2
            /\ \A r \in Nat, c \in 0..(width - 1) : Line(Place(r, c)) = r /\ Col(Place(r, c)) = c
        BY <2>1, <3>1, Grid
      <4>. QED  BY <4>1
    <3>3. ASSUME NEW p \in 0..(frameSize - 1) PROVE Line(p) < height
      <4>1. p \in Nat /\ p < frameSize
        BY <2>1
      <4>2. Line(p) \in Nat /\ Col(p) \in 0..(width - 1) /\ p = Place(Line(p), Col(p))
        BY <2>1, <4>1, Grid
      <4>. QED  BY <2>1, <4>1, <4>2, InPicture
    <3>4. Covered = 0..(frameSize - 1)
      BY <3>2, <3>3 DEF Covered
    <3>. QED  BY <2>3, <3>1, <3>4 DEF Blocks
  <2>4. CASE AtOnce /\ walk \in {"planes", "pairs"}
    <3>1. i # 0
      <4>. HIDE DEF frameSize
      <4>. QED  BY <2>1
    <3>. QED  BY <2>4, <3>1 DEF AtOnce, OwnSamples
  <2>. QED  BY <2>2, <2>3, <2>4 DEF WalkInv, Rows, Packing
<1>. QED  BY <1>1, WalkInvariance, PTL
=============================================================================
