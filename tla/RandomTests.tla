---------------------------- MODULE RandomTests -----------------------------
(***************************************************************************)
(* tis_sim::run_seed_ranges (sim.cpp): num_threads tasks share one         *)
(* iterator over the seeds, under the mutex it_m, and one score, under the *)
(* mutex sc_m; simulate_code then turns the merged score into the flags /c *)
(* and /h.  A critical section is one action: what it touches is touched   *)
(* by nobody outside it until the threads have been joined.                *)
(*                                                                         *)
(* A seed stands for its place in the concatenated ranges.  What a test    *)
(* scores is fixed by its seed (Replay), so it is chosen once and for all  *)
(* in Init; cycles = 0 says that the level has no test for this seed.      *)
(***************************************************************************)
EXTENDS Integers, FiniteSets, FiniteSetsExt

CONSTANTS
  Threads,              (* one per task                                    *)
  total_random_tests,   (* how many seeds the ranges hold                  *)
  fixed_cycles,         (* what total_cycles may be after the fixed tests  *)
  random_cycles_limit, total_cycles_limit,
  cheat_num, cheat_den, (* cheat_rate = cheat_num / cheat_den              *)
  compute_stats

ASSUME RandomTestsAssumption ==
  /\ IsFiniteSet(Threads) /\ Threads # {}
  /\ total_random_tests \in Nat
  /\ IsFiniteSet(fixed_cycles) /\ fixed_cycles \subseteq Nat
  /\ {random_cycles_limit, total_cycles_limit} \subseteq Nat
  /\ cheat_num \in Nat /\ cheat_den \in Nat \ {0}
  /\ compute_stats \in BOOLEAN

(* run makes one cycle before it looks at the limit, 0 or not.             *)
longest_test == Max({1, random_cycles_limit})

Seeds   == 1 .. total_random_tests
Score   == [validated : BOOLEAN, cycles : 1 .. longest_test]
no_test == [validated |-> FALSE, cycles |-> 0]

VARIABLES
  outcome,         (* what the test of every seed scores, or no_test       *)
  seed_it,         (* the shared iterator                                  *)
  worst,           (* the shared score                                     *)
  total_cycles,
  pc, seed, last,  (* where each task is; its seed and its last score      *)
  stop_requested,
  sc,              (* what simulate_code reports; ran = -1 before it does  *)
  merged,          (* history: the seeds whose score went into worst       *)
  late             (* history: the tests each task began after the signal  *)

shared == <<seed_it, worst, total_cycles, merged>>
local  == <<pc, seed, last, late>>
vars   == <<outcome, shared, local, stop_requested, sc>>

unreported == [ran |-> -1, valid |-> 0, cycles |-> 0, cheat |-> FALSE,
               hardcoded |-> FALSE]

Init ==
  /\ outcome \in [Seeds -> Score \cup {no_test}]
  /\ seed_it = 1
  /\ worst = [ran |-> 0, valid |-> 0, validated |-> FALSE, cycles |-> 0]
  /\ total_cycles \in fixed_cycles
  /\ pc = [t \in Threads |-> "take"]
  /\ seed = [t \in Threads |-> 0]
  /\ last = [t \in Threads |-> no_test]
  /\ stop_requested = FALSE
  /\ sc = unreported
  /\ merged = {}
  /\ late = [t \in Threads |-> 0]

-----------------------------------------------------------------------------
(* The definitions named Bug_ are mistakes one could make in the definition *)
(* that follows them; each breaks a property below.                        *)

GoTo(t, from, to) == pc[t] = from /\ pc' = [pc EXCEPT ![t] = to]

Bug_NotAdvanced(k) == k

(* ++ on the iterator.                                                     *)
Successor(k) == k + 1

Bug_PastTheEnd(t) ==
  /\ GoTo(t, "take", "generate")
  /\ seed' = [seed EXCEPT ![t] = seed_it]
  /\ seed_it' = Successor(seed_it)
  /\ UNCHANGED <<outcome, worst, total_cycles, merged, last, late,
                 stop_requested, sc>>

(* Under it_m: the end of the ranges, or the next seed.                    *)
Take(t) ==
  /\ \/ /\ seed_it \notin Seeds
        /\ GoTo(t, "take", "returned")
        /\ UNCHANGED <<seed_it, seed>>
     \/ /\ seed_it \in Seeds
        /\ GoTo(t, "take", "generate")
        /\ seed' = [seed EXCEPT ![t] = seed_it]
        /\ seed_it' = Successor(seed_it)
  /\ UNCHANGED <<outcome, worst, total_cycles, merged, last, late,
                 stop_requested, sc>>

Late(t) ==
  late' = IF stop_requested /\ outcome[seed[t]] # no_test
          THEN [late EXCEPT ![t] = @ + 1] ELSE late

Bug_SameSeedAgain(t) ==
  /\ GoTo(t, "generate", IF outcome[seed[t]] = no_test THEN "generate" ELSE "run")
  /\ Late(t)
  /\ UNCHANGED <<outcome, shared, seed, last, stop_requested, sc>>

(* random_test(seed); a seed without a test is skipped.                    *)
RandomTest(t) ==
  /\ GoTo(t, "generate", IF outcome[seed[t]] = no_test THEN "take" ELSE "run")
  /\ Late(t)
  /\ UNCHANGED <<outcome, shared, seed, last, stop_requested, sc>>

(* What run() may return: the score, or after a signal an invalid one that *)
(* says how far it came.                                                   *)
Returns(k) ==
  {outcome[k]} \cup
    {[validated |-> FALSE, cycles |-> c] :
       c \in {c \in 1 .. outcome[k].cycles : stop_requested /\ c < outcome[k].cycles}}

Run(t) ==
  /\ GoTo(t, "run", "check")
  /\ \E s \in Returns(seed[t]) : last' = [last EXCEPT ![t] = s]
  /\ UNCHANGED <<outcome, shared, seed, late, stop_requested, sc>>

Bug_IgnoresStop(t) ==
  /\ GoTo(t, "check", "merge")
  /\ UNCHANGED <<outcome, shared, seed, last, late, stop_requested, sc>>

CheckStop(t) ==
  /\ GoTo(t, "check", IF stop_requested THEN "returned" ELSE "merge")
  /\ UNCHANGED <<outcome, shared, seed, last, late, stop_requested, sc>>

Bug_CountsPassesOnly(s) ==
  [ran       |-> worst.ran + (IF s.validated THEN 1 ELSE 0),
   valid     |-> worst.valid + (IF s.validated THEN 1 ELSE 0),
   validated |-> worst.validated \/ s.validated,
   cycles    |-> IF s.validated /\ s.cycles > worst.cycles
                 THEN s.cycles ELSE worst.cycles]

(* worst once the score s has been merged into it.                         *)
Merged(s) ==
  [ran       |-> worst.ran + 1,
   valid     |-> worst.valid + (IF s.validated THEN 1 ELSE 0),
   validated |-> worst.validated \/ s.validated,
   cycles    |-> IF s.validated /\ s.cycles > worst.cycles
                 THEN s.cycles ELSE worst.cycles]

Bug_EnoughPasses(w) ==
  /\ ~compute_stats
  /\ w.valid * cheat_den >= cheat_num * total_random_tests

(* At least K passes and at least one fail.                                *)
SurelyCheat(w) ==
  /\ ~compute_stats
  /\ w.valid * cheat_den >= cheat_num * total_random_tests
  /\ w.valid < w.ran

Bug_BeyondLimit(cycles) == cycles > total_cycles_limit

Exhausted(cycles) == cycles >= total_cycles_limit

(* Under sc_m: merge the score and decide whether to go on.                *)
Merge(t) ==
  /\ worst' = Merged(last[t])
  /\ total_cycles' = total_cycles + last[t].cycles
  /\ merged' = merged \cup {seed[t]}
  /\ GoTo(t, "merge", IF SurelyCheat(worst') \/ Exhausted(total_cycles')
                      THEN "returned" ELSE "take")
  /\ UNCHANGED <<outcome, seed_it, seed, last, late, stop_requested, sc>>

-----------------------------------------------------------------------------
Cheat(ran, valid) == ran = 0 \/ ran # valid

Hardcoded(ran, valid) == valid <= (ran * cheat_num) \div cheat_den

(* All threads are joined; simulate_code reports the flags.                *)
Report ==
  /\ sc = unreported
  /\ \A t \in Threads : pc[t] = "returned"
  /\ sc' = [ran |-> worst.ran, valid |-> worst.valid, cycles |-> worst.cycles,
            cheat |-> Cheat(worst.ran, worst.valid),
            hardcoded |-> Hardcoded(worst.ran, worst.valid)]
  /\ UNCHANGED <<outcome, shared, local, stop_requested>>

(* sigterm_handler                                                         *)
Signal ==
  /\ ~stop_requested
  /\ stop_requested' = TRUE
  /\ UNCHANGED <<outcome, shared, local, sc>>

Task(t) == Take(t) \/ RandomTest(t) \/ Run(t) \/ CheckStop(t) \/ Merge(t)

Next == (\E t \in Threads : Task(t)) \/ Report \/ Signal

(* The operating system runs every thread; no signal need ever come.       *)
Spec ==
  /\ Init /\ [][Next]_vars
  /\ \A t \in Threads : WF_vars(Task(t))
  /\ WF_vars(Report)

-----------------------------------------------------------------------------
Reported == sc # unreported

Tested == {k \in Seeds : outcome[k] # no_test}
Passed(S) == {k \in S : outcome[k].validated}

(* Nobody cut the tests short.                                             *)
Undisturbed == ~stop_requested /\ ~Exhausted(total_cycles)

Types ==
  /\ outcome \in [Seeds -> Score \cup {no_test}]
  /\ seed_it \in 1 .. total_random_tests + 1
  /\ worst \in [ran : Nat, valid : Nat, validated : BOOLEAN, cycles : Nat]
  /\ total_cycles \in Nat
  /\ pc \in [Threads -> {"take", "generate", "run", "check", "merge", "returned"}]
  /\ seed \in [Threads -> Seeds \cup {0}]
  /\ last \in [Threads -> Score \cup {no_test}]
  /\ stop_requested \in BOOLEAN
  /\ sc \in [ran : Nat \cup {-1}, valid : Nat, cycles : Nat, cheat : BOOLEAN,
             hardcoded : BOOLEAN]
  /\ merged \subseteq Seeds
  /\ late \in [Threads -> Nat]

(* The tasks that still have their seed's score to merge.                  *)
Busy == {t \in Threads : pc[t] \in {"generate", "run", "check", "merge"}}

(* A seed is worked on by one task only, and never again once its score is *)
(* merged (the critical section of it_m).                                  *)
EachSeedOnce ==
  \A t \in Busy :
    /\ seed[t] \notin merged
    /\ \A u \in Busy \ {t} : seed[u] # seed[t]

(* The merged score counts exactly the genuine results of the merged       *)
(* seeds: nothing is counted twice or lost, and no score that a signal cut *)
(* short slips in, whenever the signal comes (run, the check of            *)
(* stop_requested, the critical section of sc_m).                          *)
ScoreExact ==
  /\ worst.ran = Cardinality(merged)
  /\ worst.valid = Cardinality(Passed(merged))
  /\ worst.validated <=> Passed(merged) # {}
  /\ worst.cycles = Max({0} \cup {outcome[k].cycles : k \in Passed(merged)})

(* Stopping early never costs a seed its test but for a reason: without a  *)
(* signal and below the total limit, either every test was counted, or the *)
(* solution is a cheat whatever the other tests would have said, and is    *)
(* not taken for hardcoded (but --cheat-rate 0 gives up at the first fail, *)
(* and takes a solution that has passed nothing by then for hardcoded).    *)
StopsForCause ==
  Reported /\ Undisturbed =>
    \/ merged = Tested
    \/ ~compute_stats /\ sc.cheat /\ (sc.hardcoded => cheat_num = 0)

(* Which tests were counted depends on the schedule; the flag /c does not. *)
CheatIndependentOfSchedule ==
  Reported /\ Undisturbed =>
    sc.cheat = Cheat(Cardinality(Tested), Cardinality(Passed(Tested)))

(* The total limit is overrun by less than one test for every thread.      *)
OvershootBounded ==
  total_cycles < Max({total_cycles_limit} \cup {c + 1 : c \in fixed_cycles})
                   + Cardinality(Threads) * longest_test

(* After a signal every task begins one more test at most: wherever the    *)
(* signal finds it, it looks at stop_requested after the test it is in, or *)
(* after the one it begins next, and comes back for no other seed.         *)
OneMoreEach == \A t \in Threads : late[t] <= 1

(* run_seed_ranges returns: every task runs out of seeds or gives up.      *)
AlwaysReports == <>Reported
=============================================================================
