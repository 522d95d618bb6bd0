---------------------------- MODULE FieldProtocol ---------------------------
(***************************************************************************)
(* The fields of Field implement PortProtocol: what write_word,            *)
(* write_port and the activity of a T21 mean to its neighbours.            *)
(***************************************************************************)
EXTENDS Field

(* The calls that may still read from a node this cycle.                   *)
ReadingLoops == {"step", "input", "numeric", "image"}

halfBar ==
  IF (\A c \in todo : c[1] \notin ReadingLoops)
  THEN "finalize" ELSE "step"

T21s == {n \in Regular : save.type[n] = "T21"}

(* A T21 in the write state: its word is set (no port yet), open (to one   *)
(* port, or to ANY), or taken; otherwise it offers nothing.                *)
offerBar ==
  [n \in Regular |->
     IF t21[n].s # "write" THEN [state |-> "idle"]
     ELSE IF out[n].word = word_empty
     THEN [state |-> "taken", by |-> out[n].port]
     ELSE IF out[n].port = "nil" THEN [state |-> "set", word |-> out[n].word]
     ELSE [state |-> "open", word |-> out[n].word,
           to |-> IF out[n].port = "any" THEN Dir ELSE {out[n].port}]]

lastBar == [n \in Regular |-> t21[n].last]

Protocol ==
  INSTANCE PortProtocol WITH
    Writers <- Regular, nil <- "nil",
    half <- halfBar, offer <- offerBar, last <- lastBar

(* Every write of every T21 follows the protocol: one cycle's delay, one   *)
(* reader, LAST told where an ANY write went (T21::step, T21::finalize,    *)
(* node::emit, and the phases of do_step).                                 *)
WritesFollowProtocol == Protocol!Spec
=============================================================================
