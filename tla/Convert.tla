------------------------------ MODULE Convert ------------------------------
(***************************************************************************)
(* The conversions of a decoded 4:2:0 picture to RGB: Convert.java and     *)
(* image_convert.c.  There are five ways to walk over the picture, and     *)
(* several routines that share one.  A walk is modelled by which bytes of  *)
(* the buffer it takes for each pixel; the arithmetic, the same for every  *)
(* pixel, by one step at its end, for a pixel of any bytes.                *)
(*                                                                         *)
(* Offsets count from 0 as in the code: first the luma bytes, then the     *)
(* chroma, either in pairs or in two planes.                               *)
(***************************************************************************)
EXTENDS Integers

CONSTANTS Sizes,   \* pictures considered: [width, height]
          Levels   \* bytes considered for the colour of a pixel

ASSUME SizesAssumption ==
  /\ \A s \in Sizes : s.width \in Nat \ {0} /\ s.height \in Nat \ {0}
                     /\ s.width % 2 = 0 /\ s.height % 2 = 0
  /\ Levels \subseteq 0..255

VARIABLES
  size, walk,
  i,        \* the pixel reached: yp, i, or py less one
  k,        \* the chroma byte reached: uvp, k, or pu
  chroma,   \* offsets of the bytes that u and v hold
  out,      \* for each pixel written the offsets of its bytes
  sample,   \* the bytes of one pixel
  colour    \* what each routine makes of them: <<red, green, blue>>

walkVars == <<i, k, chroma, out>>
vars == <<size, walk, walkVars, sample, colour>>

width     == size.width
frameSize == size.width * size.height
Line(p)   == p \div width
Col(p)    == p % width

Pair(at)  == [u |-> at + 1, v |-> at]
Pixel(p, c) == [y |-> p, u |-> c.u, v |-> c.v]

NotYet == <<>>

\* Some pixels are written, all with the same chroma.
Write(places, c) ==
  [p \in DOMAIN out \cup places |-> IF p \in places THEN Pixel(p, c) ELSE out[p]]

\* ccvt_420p_rgb565 loads the first bytes before its loops.
Init ==
  /\ size \in Sizes
  /\ walk \in {"rows", "blocks", "rgb565", "planes", "pairs"}
  /\ i = 0
  /\ k = frameSize
  /\ chroma = [u |-> frameSize, v |-> frameSize + frameSize \div 4]
  /\ out = NotYet /\ sample = NotYet /\ colour = NotYet

Done == i >= frameSize

----------------------------------------------------------------------------
(* The walks. *)

\* decodeYUV420SP_1, decodeYUV420SP2, jdecodeYUV420SP and jdecodeYUV420P, all
\* of which take the V byte of a pair first.
RowPixel ==
  /\ walk = "rows" /\ ~Done
  /\ LET uvp == IF Col(i) = 0 THEN frameSize + (Line(i) \div 2) * width ELSE k
     IN  IF Col(i) % 2 = 0
           THEN chroma' = Pair(uvp) /\ k' = uvp + 2
           ELSE k' = uvp /\ UNCHANGED chroma
  /\ out' = Write({i}, chroma')
  /\ i' = i + 1
  /\ UNCHANGED <<size, walk, sample, colour>>

\* Mutated BlockEnd: the lower line is not skipped.
BlockEndFlat(at) == at

\* At the end of a line the block's lower line is done as well, and is skipped.
BlockEnd(at) == IF at # 0 /\ (at + 2) % width = 0 THEN at + width ELSE at

\* convertYUV420_NV21toRGB8888 and YUV420PtoARGB8888 take the U byte first.
Block ==
  /\ walk = "blocks" /\ ~Done
  /\ chroma' = [u |-> k, v |-> k + 1]
  /\ out' = Write({i, i + 1, width + i, width + i + 1}, chroma')
  /\ k' = k + 2
  /\ i' = BlockEnd(i) + 2
  /\ UNCHANGED <<size, walk, sample, colour>>

\* ccvt_420p_rgb565 loads the next bytes behind every second pixel; the rewind
\* at the end of an even line moves the pointers and loads nothing.
PackedPixel ==
  /\ walk = "rgb565" /\ ~Done
  /\ out' = Write({i}, chroma)
  /\ IF Col(i) % 2 = 1
       THEN chroma' = [u |-> k + 1, v |-> k + 1 + frameSize \div 4]
       ELSE UNCHANGED chroma
  /\ LET next == IF Col(i) % 2 = 1 THEN k + 1 ELSE k
     IN  k' = IF Col(i) = width - 1 /\ Line(i) % 2 = 0 THEN next - width \div 2 ELSE next
  /\ i' = i + 1
  /\ UNCHANGED <<size, walk, sample, colour>>

\* The rows of libyuv: the pointers to the chroma move on after every odd line.
RowLoop(uAt, vAt, stride, step) ==
  [p \in 0..(frameSize - 1) |->
     LET at == (Line(p) \div 2) * stride + (Col(p) \div 2) * step
     IN  [y |-> p, u |-> uAt + at, v |-> vAt + at]]

\* A row of I420ToARGB takes the bytes of two planes one by one, and a row of
\* NV12ToARGB those of one plane in pairs, U first.
I420ToARGB(uAt, vAt, stride) == RowLoop(uAt, vAt, stride, 1)
NV12ToARGB(uvAt, stride) == RowLoop(uvAt, uvAt + 1, stride, 2)

\* decodeYUV420P: the planes are given to I420ToARGB in exchanged order.
Planes ==
  /\ walk = "planes" /\ ~Done
  /\ out' = I420ToARGB((frameSize * 5) \div 4, frameSize, width \div 2)
  /\ i' = frameSize
  /\ UNCHANGED <<size, walk, k, chroma, sample, colour>>

\* decodeYUV420SP gives NV12ToARGB half of the stride of the pairs.
Pairs ==
  /\ walk = "pairs" /\ ~Done
  /\ out' = NV12ToARGB(frameSize, width \div 2)
  /\ i' = frameSize
  /\ UNCHANGED <<size, walk, k, chroma, sample, colour>>

----------------------------------------------------------------------------
(* The arithmetic, from the Y, U and V byte of a pixel in the routine's own
   format. *)

Clamp(x, top) == IF x < 0 THEN 0 ELSE IF x > top THEN top ELSE x
Truncated(x, n) == IF x < 0 THEN -((-x) \div n) ELSE x \div n

\* 18 bits to the 8 bits of a channel.
Channel(x) == Clamp(x, 262143) \div 1024

\* 18 bits of each channel, from the brightness, U and V.
Scaled(luma, u, v) ==
  <<Channel(luma + 1634 * (v - 128)),
    Channel(luma - 833 * (v - 128) - 400 * (u - 128)),
    Channel(luma + 2066 * (u - 128))>>

\* decodeYUV420SP2 and jdecodeYUV420P.
Direct(y, u, v) == Scaled(1192 * (IF y < 16 THEN 0 ELSE y - 16), u, v)

\* Mutated Tables: the tables start from y.
TablesFromZero(y, u, v) == Scaled(1192 * y, u, v)

\* decodeYUV420SP_1: the tables hold the sums for y - 16, which may be negative.
Tables(y, u, v) == Scaled(1192 * (y - 16), u, v)

\* jdecodeYUV420SP: the last part is not masked, and blue is set in all bits.
Shifted(y, u, v) == [Direct(y, u, v) EXCEPT ![3] = 255]

\* convertYUVtoARGB as it is called: its v is the U byte and its u the V byte.
\* The casts are on the factors, which leaves 1 of 1.402 and of 1.772.
Factors(y, u, v) ==
  LET uu == v - 128
      vv == u - 128
  IN  <<Clamp(y + uu, 255), Clamp(y - Truncated(344 * vv + 714 * uu, 1000), 255), Clamp(y + vv, 255)>>

\* convertYUVtoRGB on NV21, where its u is the V byte and its v the U byte; red
\* and blue are exchanged once more when packed.
FactorsJava(y, u, v) ==
  LET uu == v - 128
      vv == u - 128
      r == Clamp(y + vv, 255)
      g == Clamp(y - Truncated(344 * uu + 714 * vv, 1000), 255)
      b == Clamp(y + uu, 255)
  IN  <<b, g, r>>

\* ccvt_420p_rgb565, with what is left of 5, 6 and 5 bits.
Packed(y, u, v) ==
  LET r == Clamp((256 * y + 359 * (v - 128)) \div 256, 255)
      g == Clamp((256 * y - 88 * (u - 128) - 183 * (v - 128)) \div 256, 255)
      b == Clamp((256 * y + 454 * (u - 128)) \div 256, 255)
  IN  <<(r \div 8) * 8, (g \div 4) * 4, (b \div 8) * 8>>

Routines(y, u, v) ==
  CASE walk = "rows" -> [direct  |-> Direct(y, u, v), tables |-> Tables(y, u, v),
                         shifted |-> Shifted(y, u, v)]
    [] walk = "blocks" -> [factors |-> Factors(y, u, v), factorsJava |-> FactorsJava(y, u, v)]
    [] walk = "rgb565" -> [packed |-> Packed(y, u, v)]

Colour ==
  /\ Done /\ walk \notin {"planes", "pairs"} /\ sample = NotYet
  /\ \E y, u, v \in Levels :
       /\ sample' = [y |-> y, u |-> u, v |-> v]
       /\ colour' = Routines(y, u, v)
  /\ UNCHANGED <<size, walk, walkVars>>

Next == RowPixel \/ Block \/ PackedPixel \/ Planes \/ Pairs \/ Colour

Spec == Init /\ [][Next]_vars

----------------------------------------------------------------------------
(* What the pictures should be. *)

\* The chroma of the square of four pixels that a pixel lies in, if stored in
\* pairs with the first byte being V, or in planes.
Square(p)  == (Line(p) \div 2) * (width \div 2) + Col(p) \div 2
PairOf(p)  == Pair(frameSize + 2 * Square(p))
PlaneOf(n) == [u |-> frameSize + n, v |-> frameSize + frameSize \div 4 + n]
Swapped(c) == [u |-> c.v, v |-> c.u]

\* The bytes a walk is known to miss: the first two pixels of the odd lines in
\* ccvt_420p_rgb565, which get the chroma of the squares below, and every
\* square but those of the first two lines in decodeYUV420SP.
Expected(p) ==
  CASE walk = "rows"   -> PairOf(p)
    [] walk = "blocks" -> Swapped(PairOf(p))
    [] walk = "rgb565" -> PlaneOf(IF Line(p) % 2 = 1 /\ Col(p) < 2
                                    THEN Square(p) + width \div 2 ELSE Square(p))
    [] walk = "planes" -> Swapped(PlaneOf(Square(p)))
    [] OTHER           -> IF Line(p) < 2 THEN Swapped(PairOf(p)) ELSE [u |-> out[p].u, v |-> out[p].v]

\* Every walk writes every pixel from its own luma byte and, but for what
\* Expected excepts, from the chroma of its own square; it writes no other
\* place, and its loop ends with the picture.  Pictures two pixels wide are no
\* input for the walk in blocks: its first line is never skipped.
OwnSamples ==
  Done /\ (walk = "blocks" => width > 2) =>
    /\ i = frameSize
    /\ DOMAIN out = 0..(frameSize - 1)
    /\ \A p \in DOMAIN out : out[p] = Pixel(p, Expected(p))

Grey(c)   == c[1] = c[3] /\ c[2] - c[1] \in {0, 4}

\* The routines of a walk agree on the colour of a pixel.  The tables do so
\* from the luma 16 on, below which they are darker, and the two block
\* routines, of which one exchanges U and V twice, but for green.  In all of
\* them grey stays grey and V leans to red, U to blue; only jdecodeYUV420SP has
\* no blue to compare.
ColoursAgree ==
  sample # NotYet =>
    /\ walk = "rows" =>
         /\ sample.y >= 16 => colour.tables = colour.direct
         /\ \A ch \in 1..3 : colour.tables[ch] <= colour.direct[ch]
         /\ \A ch \in 1..2 : colour.shifted[ch] = colour.direct[ch]
    /\ walk = "blocks" => \A ch \in {1, 3} : colour.factors[ch] = colour.factorsJava[ch]
    /\ \A f \in DOMAIN colour \ {"shifted"} :
         /\ sample.u = 128 /\ sample.v = 128 => Grey(colour[f])
         /\ sample.u <= 128 /\ 128 <= sample.v => colour[f][3] <= colour[f][1]
         /\ sample.v <= 128 /\ 128 <= sample.u => colour[f][1] <= colour[f][3]
=============================================================================
