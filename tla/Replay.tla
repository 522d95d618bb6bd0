------------------------------- MODULE Replay -------------------------------
(***************************************************************************)
(* Field with a history of what its tests have done.  simulate_code and    *)
(* every thread of run_seed_ranges put one test after another into the     *)
(* same field, and which tests a field has run before depends on the       *)
(* scheduler: set_expected has to make that irrelevant for a score, and    *)
(* has to keep what has_achievement wants to know of all of them.          *)
(***************************************************************************)
EXTENDS Field

VARIABLES
  scores,  (* the scores every test has got so far                         *)
  pushed   (* the stacks some test has pushed a word to                    *)

ReplayInit == Init /\ scores = [t \in Tests |-> {}] /\ pushed = {}

(* A test that a signal cut short has no score worth keeping: simulate_code *)
(* and the tasks of run_seed_ranges return without looking at it.          *)
Scored ==
  IF phase = "running" /\ phase' = "ended" /\ ~stop_requested
  THEN [scores EXCEPT ![test] = @ \cup {<<validated', cycles'>>}]
  ELSE scores

Grown == {n \in Regular : Len(t30'[n].data) > Len(t30[n].data)}

ReplayNext == Next /\ scores' = Scored /\ pushed' = pushed \cup Grown

ReplaySpec ==
  /\ ReplayInit /\ [][ReplayNext]_<<vars, scores, pushed>>
  /\ WF_vars(Handler \/ NextCycle \/ EndRun)

(* builtin_level::has_achievement for SEQUENCE REVERSER.                   *)
NO_MEMORY == \A n \in Regular : save.type[n] = "T30" => ~t30[n].used

-----------------------------------------------------------------------------
(* A test's score does not depend on the tests the field ran before it,    *)
(* not even on one that ended in the middle of a cycle by HCF              *)
(* (set_expected and the reset functions it calls).                        *)
ScoreIndependentOfHistory == \A t \in Tests : Cardinality(scores[t]) <= 1

(* The achievement for using no memory goes to the solutions none of whose *)
(* tests ever pushed a word, although every reset empties the stacks: what *)
(* `used` remembers is neither lost nor invented between tests (T30::reset,*)
(* T30::step, has_achievement).                                            *)
NoMemoryExact == NO_MEMORY <=> pushed = {}
=============================================================================
