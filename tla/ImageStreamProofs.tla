------------------------- MODULE ImageStreamProofs --------------------------
(***************************************************************************)
(* Proofs about an image output fed with any stream of words, on every     *)
(* canvas.                                                                 *)
(***************************************************************************)
EXTENDS ImageStream, SharedLemmas

(* While coordinates are owed, the cursor says which.  Once they have been *)
(* sent it may say anything: c_x wraps around to word_empty at the end of  *)
(* the int16_t range.                                                      *)
CursorKnown ==
  /\ pending \in 0 .. 2
  /\ pending = 2 => node.c_x = word_empty /\ node.c_y = word_empty
  /\ pending = 1 => node.c_y = word_empty

IInv == node \in ImageType /\ CounterExact /\ CursorKnown

(* While coordinates are owed, a word goes into the cursor.                *)
LEMMA NothingPainted ==
  ASSUME IInv, NEW r \in Word, pending # 0
  PROVE  ImageRead(node, expected, r).image_received = node.image_received
BY DEF IInv, CursorKnown, ImageRead, ImageType

LEMMA SendStep ==
  ASSUME IInv, NEW r \in Word, Send(r)
  PROVE  IInv'
<1>1. /\ node' = ImageRead(node, expected, r) /\ expected' = expected
      /\ pending' = IF r < 0 THEN 2 ELSE IF pending > 0 THEN pending - 1 ELSE 0
      /\ r \in Int /\ r # word_empty
  BY WordAssumption DEF Send, Word, word_min, word_empty
<1>2. node' \in ImageType /\ CounterExact'
  <2>1. Exact(node, expected) /\ node \in ImageType
    BY DEF IInv, CounterExact, Exact
  <2>2. Exact(node', expected) /\ node' \in ImageType
    BY <1>1, <2>1, ImageReadExact, ImageReadType
  <2>3. QED
    BY <1>1, <2>2 DEF Exact, CounterExact
<1>3. CursorKnown'
  <2>1. CASE r < 0
    BY <1>1, <2>1 DEF IInv, CursorKnown, ImageRead, ImageType
  <2>2. CASE r >= 0
    <3>1. pending' \in 0 .. 1 /\ (pending' = 1 => pending = 2)
      BY <1>1, <2>2 DEF IInv, CursorKnown
    <3>2. pending = 2 => node'.c_y = word_empty
      BY <1>1, <2>2 DEF IInv, CursorKnown, ImageRead, ImageType
    <3>3. QED
      BY <3>1, <3>2 DEF CursorKnown
  <2>3. QED
    BY <1>1, <2>1, <2>2
<1>4. QED
  BY <1>2, <1>3 DEF IInv

LEMMA Invariance == Spec => []IInv
<1>1. Init => IInv
  <2> SUFFICES ASSUME Init PROVE IInv
    OBVIOUS
  <2>1. node \in ImageType /\ Exact(node, expected)
    BY ImageResetExact DEF Init
  <2>2. CursorKnown
    BY DEF Init, CursorKnown, ImageReset
  <2>3. QED
    BY <2>1, <2>2 DEF IInv, CounterExact, Exact
<1>2. IInv /\ [Next]_<<expected, node, pending>> => IInv'
  <2> SUFFICES ASSUME IInv, [Next]_<<expected, node, pending>> PROVE IInv'
    OBVIOUS
  <2>1. ASSUME NEW r \in Word, Send(r) PROVE IInv'
    BY <2>1, SendStep
  <2>2. CASE UNCHANGED <<expected, node, pending>>
    BY <2>2 DEF IInv, CounterExact, CursorKnown
  <2>3. QED
    BY <2>1, <2>2 DEF Next
<1>3. QED
  BY <1>1, <1>2, PTL DEF Spec

-----------------------------------------------------------------------------
(* wrong_pixels is the number of pixels that differ, on every canvas and   *)
(* for every stream of words (image_output::poke).                         *)
THEOREM CounterAlwaysExact == Spec => []CounterExact
<1>1. IInv => CounterExact
  BY DEF IInv
<1>2. QED
  BY <1>1, Invariance, PTL

(* Only the pixel under the cursor changes, and none while coordinates are *)
(* being sent (image_output::step).                                        *)
THEOREM OnlyUnderCursor == Spec => PaintsUnderCursor
<1> DEFINE Painted ==
      \A xy \in Pixels :
        node.image_received[xy] # node'.image_received[xy] =>
          pending = 0 /\ xy = <<node.c_x, node.c_y>>
<1>1. ASSUME IInv, NEW r \in Word, Send(r) PROVE Painted
  <2> SUFFICES ASSUME NEW xy \in Pixels,
                      node.image_received[xy] # node'.image_received[xy]
               PROVE  pending = 0 /\ xy = <<node.c_x, node.c_y>>
    OBVIOUS
  <2>1. node' = ImageRead(node, expected, r) /\ node \in ImageType
    BY <1>1 DEF IInv, Send
  <2>2. pending = 0
    BY <1>1, <2>1, NothingPainted
  <2>3. node'.image_received # node.image_received
    OBVIOUS
  <2>4. node'.image_received = Poke(node, expected, r).image_received
    <3>1. Poke(node, expected, r) \in ImageType
      BY <2>1, PokeEffect
    <3>2. QED
      BY <2>1, <2>3, <3>1 DEF ImageRead, ImageType
  <2>5. /\ <<node.c_x, node.c_y>> \in Pixels
        /\ node'.image_received =
             [node.image_received EXCEPT ![<<node.c_x, node.c_y>>] = normalize(r)]
    BY <2>1, <2>3, <2>4, PokeEffect
  <2>6. xy = <<node.c_x, node.c_y>>
    <3>1. node.image_received \in Picture
      BY <2>1 DEF ImageType
    <3>2. QED
      BY <2>5, <3>1 DEF Picture
  <2>7. QED
    BY <2>2, <2>6
<1>2. IInv /\ [Next]_<<expected, node, pending>>
        => [Painted]_<<expected, node, pending>>
  BY <1>1 DEF Next
<1>3. QED
  BY <1>2, Invariance, PTL DEF Spec, PaintsUnderCursor
=============================================================================
