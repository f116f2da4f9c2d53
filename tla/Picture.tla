------------------------------- MODULE Picture -------------------------------
(***************************************************************************)
(* The geometry of a picture on its way to the output: rotation,           *)
(* letterbox and flips (video/transform.rs, video/pixels.rs) and the       *)
(* samples of the preview (preview.rs).  FFmpeg converts and scales; it is *)
(* external, and of it only the sizes are kept.                            *)
(*                                                                         *)
(* A picture is a function from <<column, row>> to a pixel, both from 0.   *)
(* In YUYV two pixels of a row share their chroma: a row is the bytes      *)
(* Y U Y V, Y U Y V, ...                                                   *)
(***************************************************************************)
EXTENDS Integers, Sequences, SequencesExt

CONSTANT PREVIEW_WIDTH      \* 320

ASSUME PictureAssumption == PREVIEW_WIDTH \in Nat \ {0}

Angles == {0, 90, 180, 270}
Points(width, height) == (0 .. width - 1) \X (0 .. height - 1)
EvenBelow(n) == n - (n % 2)                             \* n & !1

-----------------------------------------------------------------------------
(* rotate(), fit() and flips() *)

RotatedSize(width, height, angle) ==
    IF angle \in {90, 270} THEN <<height, width>> ELSE <<width, height>>

(* Where rotate() writes the pixel <<x, y>>.                               *)
Target(width, height, angle, p) ==
    CASE angle = 0   -> p
      [] angle = 90  -> <<height - p[2] - 1, p[1]>>
      [] angle = 180 -> <<width - p[1] - 1, height - p[2] - 1>>
      [] angle = 270 -> <<p[2], width - p[1] - 1>>
Rotated(picture, width, height, angle) ==
    LET size == RotatedSize(width, height, angle)
    IN  [q \in Points(size[1], size[2]) |->
            picture[CHOOSE p \in Points(width, height) : Target(width, height, angle, p) = q]]

Rect(x, y, width, height) == [x |-> x, y |-> y, width |-> width, height |-> height]
NoRect == Rect(0, 0, 0, 0)
\* Mutant: the picture starts in the middle of two pixels that share chroma.
Fit_Odd(width, height, outWidth, outHeight) ==
    LET narrow == width * outHeight <= height * outWidth
        w == IF narrow THEN EvenBelow((width * outHeight) \div height) ELSE outWidth
        h == IF narrow THEN outHeight ELSE (height * outWidth) \div width
    IN  IF w < 2 \/ h = 0 THEN NoRect
        ELSE Rect((outWidth - w) \div 2, (outHeight - h) \div 2, w, h)
(* The largest picture of this shape, in whole pairs of pixels.            *)
Fit(width, height, outWidth, outHeight) ==
    LET narrow == width * outHeight <= height * outWidth
        w == IF narrow THEN EvenBelow((width * outHeight) \div height) ELSE outWidth
        h == IF narrow THEN outHeight ELSE (height * outWidth) \div width
    IN  IF w < 2 \/ h = 0 THEN NoRect
        ELSE Rect(EvenBelow((outWidth - w) \div 2), (outHeight - h) \div 2, w, h)

(* A horizontal flip of a YUYV row exchanges the lumas of each pair, and   *)
(* then the pairs from both ends.                                          *)
FlippedRow(row, width) ==
    LET within == [i \in DOMAIN row |-> CASE i % 4 = 1 -> row[i + 2]
                                          [] i % 4 = 3 -> row[i - 2]
                                          [] OTHER     -> row[i]]
        pairs  == width \div 2
        Other(pair) == IF pair < width \div 4 \/ pairs - pair - 1 < width \div 4
                       THEN pairs - pair - 1 ELSE pair
    IN  [i \in DOMAIN row |-> within[(4 * Other((i - 1) \div 4)) + ((i - 1) % 4) + 1]]

-----------------------------------------------------------------------------
(* Pixels::convert() writes an output of the size of the capture. *)

(* The part of the output that has the picture; without a rotation it is   *)
(* scaled to the whole output.                                             *)
Shown(width, height, angle) ==
    IF angle = 0 THEN Rect(0, 0, width, height)
    ELSE LET size == RotatedSize(width, height, angle)
         IN  Fit(size[1], size[2], width, height)
Inside(rect, p) == /\ rect.x <= p[1] /\ p[1] < rect.x + rect.width
                   /\ rect.y <= p[2] /\ p[2] < rect.y + rect.height
(* Windows' rows run from the bottom: convert() flips them once more.      *)
Converted(width, height, transform, windows) ==
    LET rect == Shown(width, height, transform.angle)
        vertical == transform.vertical # windows
        at(p) == <<IF transform.mirror THEN width - p[1] - 1 ELSE p[1],
                   IF vertical THEN height - p[2] - 1 ELSE p[2]>>
    IN  [p \in Points(width, height) |-> IF Inside(rect, at(p)) THEN "picture" ELSE "black"]

-----------------------------------------------------------------------------
(* from_sink() *)

StepFor(width) ==
    IF width <= PREVIEW_WIDTH THEN 1 ELSE ((width + PREVIEW_WIDTH) - 1) \div PREVIEW_WIDTH
(* The preview's pixel <<x, y>> is the middle of a block of the source: a  *)
(* luma, and the chroma of its pair.                                       *)
Sampled(width, height) ==
    LET step == StepFor(width)
        middle(n) == (n * step) + (step \div 2)
    IN  [p \in Points(width \div step, height \div step) |->
            LET x == middle(p[1])
            IN  [row  |-> middle(p[2]), chroma |-> x \div 2,
                 luma |-> (4 * (x \div 2)) + IF x % 2 = 0 THEN 0 ELSE 2]]

-----------------------------------------------------------------------------
(* Inputs and what is asked of them. *)

SomeSizes == {<<w, h>> : w \in {2, 4, 6, 8, 10, 14}, h \in {1, 2, 3, 4, 6, 9}}

Whole(width, height) == [p \in Points(width, height) |-> p]
Row(width) == [i \in 1 .. 2 * width |->
                  LET pair == (i - 1) \div 4 IN
                  CASE i % 4 = 1 -> <<"y", 2 * pair>> [] i % 4 = 2 -> <<"u", pair>>
                    [] i % 4 = 3 -> <<"y", 2 * pair + 1>> [] OTHER -> <<"v", pair>>]
Mirrored(row, width) ==                 \* what a mirrored row should be
    [i \in DOMAIN row |->
        LET pair == (width \div 2) - ((i - 1) \div 4) - 1 IN
        CASE i % 4 = 1 -> <<"y", 2 * pair + 1>> [] i % 4 = 2 -> <<"u", pair>>
          [] i % 4 = 3 -> <<"y", 2 * pair>>     [] OTHER -> <<"v", pair>>]

(* Rotations lose no pixel and add up; the letterbox lies in the output,   *)
(* keeps the shape to within a pair of pixels, touches two opposite edges  *)
(* and parts no pair, mirrored or not; a mirrored row has each luma with   *)
(* its own chroma; and a preview has at most PREVIEW_WIDTH columns, each   *)
(* taken from the source, a luma with the chroma of its own pair.          *)
PictureIsKept(width, height, angle) ==
    LET size == RotatedSize(width, height, angle)
        turned == Rotated(Whole(width, height), width, height, angle)
        rect == Shown(width, height, angle)
        sampled == Sampled(width, height)
    IN  /\ Rotated(turned, size[1], size[2], (360 - angle) % 360) = Whole(width, height)
        /\ angle = 180 => LET quarter == Rotated(Whole(width, height), width, height, 90)
                          IN  Rotated(quarter, height, width, 90) = turned
        /\ angle = 90 => turned[<<height - 1, 0>>] = <<0, 0>>
        /\ rect # NoRect =>
              /\ rect.x + rect.width <= width /\ rect.y + rect.height <= height
              /\ rect.x % 2 = 0 /\ rect.width % 2 = 0
              /\ rect.width = width \/ rect.height = height
              /\ rect.width = width  => size[2] * width - size[1] * rect.height \in 0 .. size[1] - 1
              /\ rect.width # width => size[1] * height - size[2] * rect.width \in 0 .. 2 * size[2] - 1
              /\ \A t \in [angle : {angle}, mirror : BOOLEAN, vertical : BOOLEAN] :
                    LET out == Converted(width, height, t, FALSE)
                    IN  \A p \in DOMAIN out :
                            p[1] % 2 = 0 => out[p] = out[<<p[1] + 1, p[2]>>]
        /\ FlippedRow(Row(width), width) = Mirrored(Row(width), width)
        /\ \A p \in DOMAIN sampled :
              LET sample == sampled[p] IN
              /\ p[1] < PREVIEW_WIDTH /\ sample.row < height
              /\ sample.luma + 1 \in DOMAIN Row(width)
              /\ Row(width)[sample.luma + 1][1] = "y"
              /\ Row(width)[sample.luma + 1][2] \div 2 = sample.chroma
=============================================================================
