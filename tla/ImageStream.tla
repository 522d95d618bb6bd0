----------------------------- MODULE ImageStream ----------------------------
(***************************************************************************)
(* An image output fed with an arbitrary stream of words for an arbitrary  *)
(* expected picture.                                                       *)
(***************************************************************************)
EXTENDS ImageOutput

VARIABLES
  expected,  (* image_expected                                             *)
  node,      (* the node, as ImageOutput describes it                      *)
  pending    (* how many coordinates the sender still owes: 2, 1 or 0      *)

Init ==
  /\ expected \in Picture
  /\ node = ImageReset(expected)
  /\ pending = 2

(* The sender's view of the protocol: a negative word starts a new run of  *)
(* pixels, whose first two words are its coordinates.                      *)
Send(r) ==
  /\ node' = ImageRead(node, expected, r)
  /\ pending' = IF r < 0 THEN 2 ELSE IF pending > 0 THEN pending - 1 ELSE 0
  /\ UNCHANGED expected

Next == \E r \in Word : Send(r)

Spec == Init /\ [][Next]_<<expected, node, pending>>

-----------------------------------------------------------------------------
(* wrong_pixels, kept up to date pixel by pixel, is the number of pixels   *)
(* that differ, whatever was painted, repainted or painted off the canvas  *)
(* (image_output::poke); so the node is valid exactly when the pictures    *)
(* agree.                                                                  *)
CounterExact ==
  node.wrong_pixels = Cardinality(Differing(node.image_received, expected))

(* A word changes one pixel at most, on the line of the cursor, and none   *)
(* while coordinates are being sent.                                       *)
PaintsUnderCursor ==
  [][\A xy \in Pixels :
       node.image_received[xy] # node'.image_received[xy] =>
         pending = 0 /\ xy = <<node.c_x, node.c_y>>]_<<expected, node, pending>>
=============================================================================
