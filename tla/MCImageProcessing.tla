-------------------------- MODULE MCImageProcessing --------------------------
(***************************************************************************)
(* Model-checking instance of ImageProcessing: every picture of up to 4x3  *)
(* grey pixels, or 3x3 colour pixels, over two levels per channel, and a   *)
(* grey-and-alpha picture.                                                 *)
(***************************************************************************)
EXTENDS ImageProcessing

\* A grey level that saturates the edge response when alone in black.
MCGreyLevels == {0, 40}

\* Two colours, black and a brown whose luminance is 124.
MCColours == {<<0, 0, 0>>, <<200, 100, 50>>}

MCGreyImages ==
    UNION { { [width |-> w, height |-> h, comp |-> 1, data |-> d] :
                d \in [0..w * h - 1 -> MCGreyLevels] } : w \in 1..4, h \in 1..3 }

\* A picture of c components whose pixel k has colour p[k] (alpha 255).
MkColourImage(w, h, c, p) ==
    [width |-> w, height |-> h, comp |-> c,
     data |-> [k \in 0..w * h * c - 1 |->
                 IF k % c = 3 THEN 255 ELSE p[k \div c][(k % c) + 1]]]

MCColourImages ==
    UNION { { MkColourImage(w, h, c, p) : p \in [0..w * h - 1 -> MCColours] } :
              w \in 1..3, h \in 1..3, c \in {3, 4} }

MCGreyAlphaImage == [width |-> 1, height |-> 1, comp |-> 2, data |-> [k \in 0..1 |-> IF k = 0 THEN 40 ELSE 255]]

MCImages == MCGreyImages \cup MCColourImages \cup {MCGreyAlphaImage}
=============================================================================
