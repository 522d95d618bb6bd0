---------------------------- MODULE ImageOutput -----------------------------
(***************************************************************************)
(* The image output node (io.hpp, image.hpp): words arrive as commands     *)
(* "x, y, colour, colour, ..., negative", and a counter of the pixels that *)
(* still differ from the expected picture decides whether the node is      *)
(* satisfied.  A picture is a function from <<x, y>> to a colour; the node *)
(* is a record of image_received, wrong_pixels and the cursor c_x, c_y.    *)
(***************************************************************************)
EXTENDS Words, FiniteSets

CONSTANTS ImageWidth, ImageHeight, (* 30 and 18                            *)
          C_red                    (* the last colour, 4; C_black is 0     *)

ASSUME ImageAssumption ==
  /\ ImageWidth \in Nat \ {0}
  /\ ImageHeight \in Nat \ {0}
  /\ C_red \in Nat

C_black == 0
Colour  == C_black .. C_red
Pixels  == (0 .. ImageWidth - 1) \X (0 .. ImageHeight - 1)
Picture == [Pixels -> Colour]

normalize(w) == IF w \in Colour THEN w ELSE C_black

(* The pixels in which two pictures differ.                                *)
Differing(p, q) == {xy \in Pixels : p[xy] # q[xy]}

ImageReset(expected) ==
  LET blank == [xy \in Pixels |-> C_black]
  IN [image_received |-> blank,
      wrong_pixels   |-> Cardinality(Differing(blank, expected)),
      c_x |-> word_empty, c_y |-> word_empty]

Bug_RepaintUncounted(i, expected, w) ==
  LET xy == <<i.c_x, i.c_y>>
      c  == normalize(w)
  IN IF xy \notin Pixels THEN i
     ELSE [i EXCEPT
             !.image_received[xy] = c,
             !.wrong_pixels = @ - (IF c = expected[xy] THEN 1 ELSE 0)]

(* Put a pixel under the cursor and keep wrong_pixels up to date.          *)
Poke(i, expected, w) ==
  LET xy == <<i.c_x, i.c_y>>
      c  == normalize(w)
  IN IF xy \notin Pixels THEN i
     ELSE [i EXCEPT
             !.image_received[xy] = c,
             !.wrong_pixels =
               @ + (IF i.image_received[xy] = expected[xy] THEN 1 ELSE 0)
                 - (IF c = expected[xy] THEN 1 ELSE 0)]

Bug_LineKept(i, expected, r) ==
  IF r < 0 THEN [i EXCEPT !.c_x = word_empty]
  ELSE IF i.c_x = word_empty THEN [i EXCEPT !.c_x = r]
  ELSE IF i.c_y = word_empty THEN [i EXCEPT !.c_y = r]
  ELSE [Poke(i, expected, r) EXCEPT !.c_x = increment16(@)]

(* What the node does with the word r it has read.                         *)
ImageRead(i, expected, r) ==
  IF r < 0 THEN [i EXCEPT !.c_x = word_empty, !.c_y = word_empty]
  ELSE IF i.c_x = word_empty THEN [i EXCEPT !.c_x = r]
  ELSE IF i.c_y = word_empty THEN [i EXCEPT !.c_y = r]
  ELSE [Poke(i, expected, r) EXCEPT !.c_x = increment16(@)]

ImageValid(i) == i.wrong_pixels = 0
=============================================================================
