---------------------------- MODULE PortProtocol ----------------------------
(***************************************************************************)
(* What a programmable node may count on when it writes to its ports:      *)
(*                                                                         *)
(*   - a word is set in one cycle and open to readers from the next on;    *)
(*   - it is open until exactly one reader takes it, in a direction it was *)
(*     open to;                                                            *)
(*   - the writer goes on only in the second half of the cycle in which    *)
(*     the word was taken, and after a write to ANY it then knows, as      *)
(*     LAST, where the word went.                                          *)
(*                                                                         *)
(* All writers share one clock of two halves per cycle.  In one step any   *)
(* number of them may make a move: a node that reads from several          *)
(* neighbours takes from all of them at once.                              *)
(***************************************************************************)
CONSTANTS Writers, Dir, Word, nil

VARIABLES
  half,   (* "step" or "finalize"                                          *)
  offer,  (* what every writer has on its ports                            *)
  last    (* the direction every writer knows as LAST, or nil              *)

Idle        == [state |-> "idle"]
Set(w)      == [state |-> "set", word |-> w]
Open(w, D)  == [state |-> "open", word |-> w, to |-> D]
TakenBy(d)  == [state |-> "taken", by |-> d]

Offers ==
  {Idle} \cup {Set(w) : w \in Word}
    \cup {Open(w, D) : w \in Word, D \in {{d} : d \in Dir} \cup {Dir}}
    \cup {TakenBy(d) : d \in Dir \cup {nil}}

-----------------------------------------------------------------------------
(* The moves of one writer n.                                              *)

(* It computes, reads (an ANY read sets LAST), and perhaps sets a word.    *)
Works(n) ==
  /\ offer[n].state = "idle"
  /\ offer'[n] \in {Idle} \cup {Set(w) : w \in Word}
  /\ last'[n] \in Dir \cup {last[n]}

(* A reader takes its word; who it was is told to a writer to ANY.         *)
IsRead(n) ==
  /\ offer[n].state = "open"
  /\ \E d \in offer[n].to :
       offer'[n] = TakenBy(IF offer[n].to = Dir THEN d ELSE nil)
  /\ last'[n] = last[n]

Publishes(n) ==
  /\ offer[n].state = "set"
  /\ \E D \in {{d} : d \in Dir} \cup {Dir} : offer'[n] = Open(offer[n].word, D)
  /\ last'[n] = last[n]

GoesOn(n) ==
  /\ offer[n].state = "taken"
  /\ offer'[n] = Idle
  /\ last'[n] = IF offer[n].by = nil THEN last[n] ELSE offer[n].by

Stays(n) == offer'[n] = offer[n] /\ last'[n] = last[n]

-----------------------------------------------------------------------------
Settled == \A n \in Writers : offer[n].state \in {"idle", "open"}

Init ==
  /\ half \in {"step", "finalize"}
  /\ offer = [n \in Writers |-> Idle]
  /\ last = [n \in Writers |-> nil]

StepHalf ==
  /\ half = "step"
  /\ half' \in {"step", "finalize"}
  /\ \A n \in Writers : Works(n) \/ IsRead(n) \/ Stays(n)

FinalizeHalf ==
  /\ half = "finalize"
  /\ half' = "finalize"
  /\ \A n \in Writers : Publishes(n) \/ GoesOn(n) \/ Stays(n)

NewCycle ==
  /\ half = "finalize" /\ Settled
  /\ half' = "step"
  /\ \A n \in Writers : Stays(n)

(* A new test starts from scratch.                                         *)
Restart ==
  /\ half' \in {"step", "finalize"}
  /\ offer' = [n \in Writers |-> Idle]
  /\ last' = [n \in Writers |-> nil]

Next ==
  /\ offer' \in [Writers -> Offers]
  /\ last' \in [Writers -> Dir \cup {nil}]
  /\ StepHalf \/ FinalizeHalf \/ NewCycle \/ Restart

Spec == Init /\ [][Next]_<<half, offer, last>>
=============================================================================
