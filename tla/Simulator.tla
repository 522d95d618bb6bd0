----------------------------- MODULE Simulator ------------------------------
(***************************************************************************)
(* One run of the program: main sets a tis_sim up from the command line    *)
(* and calls simulate_file on one solution after another; simulate_code    *)
(* runs the fixed tests, then the random ones, and makes the score         *)
(* (main.cpp, sim.cpp, sim.hpp).                                           *)
(*                                                                         *)
(* What a test scores is chosen when it runs: Field says what it can be.   *)
(* Of the tasks that share the random tests only the number is kept, and   *)
(* what a task does for one seed is one step: RandomTests has each task by *)
(* itself, and shows what the schedule cannot change.                      *)
(***************************************************************************)
EXTENDS SeedRanges, FiniteSets

CONSTANTS
  Commands,    (* the command lines considered                             *)
  Levels,
  level_of,    (* what a level has of its own, see IsLevel                 *)
  hardware_concurrency, (* what -j 0 stands for; 0 if it is not known      *)
  busy_cycles  (* 100000: the cycles the achievement BUSY_LOOP asks for    *)

none == "none"

IsLevel(l) ==
  l \in [inputs : BOOLEAN,         (* FALSE for an invariant level         *)
         skips : BOOLEAN,          (* a seed may have no test              *)
         throws : BOOLEAN,         (* its script may fail on a seed        *)
         busy : BOOLEAN]           (* its achievement is BUSY_LOOP         *)

(* prefix: the level the file name begins with.                            *)
SolutionFile ==
  [prefix : Levels \cup {none}, readable : BOOLEAN, parses : BOOLEAN]

(* limit_multiplier = multiplier_num / multiplier_den, and so cheat_rate.  *)
IsCommand(c) ==
  /\ c.level \in Levels \cup {none}
  /\ c.seeds \in {"unset", "ranges", "counted", "both"}
  /\ c.exprs \in Seq(Element) /\ c.seed \in Seed /\ c.count \in Numeral
  /\ {c.limit, c.total_limit, c.threads} \subseteq Nat
  /\ c.multiplier_num \in Nat /\ c.multiplier_den \in Nat \ {0}
  /\ c.cheat_num \in Nat /\ c.cheat_den \in Nat \ {0}
  /\ {c.run_fixed, c.compute_stats, c.dry_run, c.trace} \subseteq BOOLEAN
  /\ c.solutions \in Seq(SolutionFile) /\ c.solutions # <<>>

ASSUME SimulatorAssumption ==
  /\ \A c \in Commands : IsCommand(c)
  /\ \A l \in Levels : IsLevel(level_of[l])
  /\ {busy_cycles, hardware_concurrency} \subseteq Nat

VARIABLES
  cmd,                   (* the command line                               *)
  seed_ranges,
  target_level, deduced, (* deduced: from this solution's file name        *)
  at,                    (* where the main thread is                       *)
  sc, worst,             (* the score; that of the random tests            *)
  total_cycles, random_cycles_limit,
  tasks,                 (* how many tasks have not returned yet           *)
  seed_it,
  stop_requested, return_code,
  tests,    (* history: the tests whose scores this solution has got       *)
  taken,    (* history: the seeds this solution has taken                  *)
  results,  (* history: what became of the solutions before                *)
  late      (* history: how many tests were begun after the signal         *)

config  == <<cmd, seed_ranges>>
level   == <<target_level, deduced>>
scores  == <<sc, worst, total_cycles, random_cycles_limit, tasks>>
history == <<tests, taken, late>>
outcome == <<results, return_code>>
vars == <<config, level, at, scores, seed_it, stop_requested, outcome, history>>

SUCCESS   == 0
FAILURE   == 1
EXCEPTION == 2

no_score == [validated |-> FALSE, cycles |-> 0, ran |-> 0, valid |-> 0,
             achievement |-> FALSE, cheat |-> FALSE, hardcoded |-> FALSE]

(* run makes one cycle before it looks at the limit, 0 or not.             *)
TestScore(limit) == [validated : BOOLEAN, cycles : 1 .. Max({1, limit})]

Solution == cmd.solutions[Len(results) + 1]

Here == level_of[target_level]

(* set_num_threads                                                         *)
num_threads == IF cmd.threads = 0 THEN hardware_concurrency ELSE cmd.threads

-----------------------------------------------------------------------------
(* main: from the command line to a tis_sim                                *)

(* What main throws at before it runs anything.                            *)
SetupFails(c) ==
  \/ c.seeds = "both"
  \/ c.seeds = "counted" /\ ~Fits(c.count)
  \/ c.seeds = "ranges" /\ \E k \in DOMAIN c.exprs : Refused(c.exprs[k])
  \/ c.threads # 1 /\ c.trace
  \/ c.dry_run /\ \E k \in DOMAIN c.solutions : ~c.solutions[k].readable

SeedRangesOf(c) ==
  IF SetupFails(c) THEN <<>>
  ELSE CASE c.seeds = "ranges" -> parse_ranges(c.exprs)
         [] c.seeds = "counted" -> CountedRange(c.seed, c.count)
         [] OTHER -> <<>>

Init ==
  /\ cmd \in Commands
  /\ seed_ranges = SeedRangesOf(cmd)
  /\ target_level = cmd.level /\ deduced = FALSE
  /\ at = IF SetupFails(cmd) \/ cmd.dry_run THEN "exit" ELSE "next"
  /\ return_code = IF SetupFails(cmd) THEN EXCEPTION ELSE SUCCESS
  /\ sc = no_score /\ worst = no_score
  /\ total_cycles = 0 /\ random_cycles_limit = 0 /\ tasks = 0
  /\ seed_it = [it |-> <<>>, cur |-> 0]
  /\ stop_requested = FALSE
  /\ tests = <<>> /\ taken = <<>> /\ results = <<>> /\ late = 0

(* The end of an iteration of the loop over the solutions.                 *)
Done(result) ==
  /\ results' = Append(results, result)
  /\ at' = IF stop_requested \/ Len(results) + 1 = Len(cmd.solutions)
           THEN "exit" ELSE "next"

Bug_Retried == at' = "next" /\ return_code' = EXCEPTION /\ UNCHANGED results

(* The catch clause: nothing else is put back.                             *)
Caught == Done("exception") /\ return_code' = EXCEPTION

-----------------------------------------------------------------------------
(* simulate_file                                                           *)

DeduceLevel ==
  /\ at = "next"
  /\ deduced' = (target_level = none)
  /\ target_level' = IF target_level = none THEN Solution.prefix ELSE target_level
  /\ IF target_level' = none THEN Caught ELSE at' = "read" /\ UNCHANGED outcome
  /\ UNCHANGED <<config, scores, seed_it, stop_requested, history>>

ReadFile ==
  /\ at = "read"
  /\ IF Solution.readable THEN at' = "code" /\ UNCHANGED outcome ELSE Caught
  /\ UNCHANGED <<config, level, scores, seed_it, stop_requested, history>>

-----------------------------------------------------------------------------
(* simulate_code                                                           *)

Begins ==
  /\ tests' = <<>> /\ taken' = <<>>
  /\ IF ~Solution.parses THEN Caught
     ELSE /\ at' = IF cmd.run_fixed THEN "fixed" ELSE "gate"
          /\ UNCHANGED outcome
  /\ UNCHANGED <<config, level, worst, tasks, seed_it, stop_requested, late>>

Bug_ScoreKept ==
  /\ at = "code"
  /\ sc' = [sc EXCEPT !.validated = cmd.run_fixed /\ Solution.parses]
  /\ total_cycles' = 0 /\ random_cycles_limit' = cmd.limit
  /\ Begins

(* The score is reset, the code assembled, the fixed tests begin.          *)
ParseCode ==
  /\ at = "code"
  /\ sc' = [no_score EXCEPT !.validated = cmd.run_fixed /\ Solution.parses]
  /\ total_cycles' = 0 /\ random_cycles_limit' = cmd.limit
  /\ Begins

Ran(s) ==
  /\ tests' = Append(tests, [fixed |-> at = "fixed", validated |-> s.validated,
                             cycles |-> s.cycles])
  /\ total_cycles' = total_cycles + s.cycles

Late == late' = late + (IF stop_requested THEN 1 ELSE 0)

Slowest(score, s) ==
  IF s.validated THEN Max({score.cycles, s.cycles}) ELSE score.cycles

Bug_NotBroken(s) == ~s.validated \/ Len(tests) = 2 \/ ~Here.inputs

(* What ends the loop over the fixed tests.                                *)
LastFixed(s) ==
  ~s.validated \/ Len(tests) = 2 \/ ~Here.inputs \/ stop_requested

FixedTest ==
  /\ at = "fixed"
  /\ \E s \in TestScore(cmd.limit) :
       /\ Ran(s)
       /\ sc' = [sc EXCEPT !.validated = s.validated, !.cycles = Slowest(sc, s)]
       /\ at' = IF LastFixed(s) THEN "gate" ELSE "fixed"
  /\ Late
  /\ UNCHANGED <<config, level, worst, random_cycles_limit, tasks, seed_it,
                 stop_requested, outcome, taken>>

(* has_achievement, of which only BUSY_LOOP looks at the score.            *)
has_achievement(l, score) == l.busy /\ score.cycles > busy_cycles

(* The dynamic timeout, a truncated multiple of the score.                 *)
effective_limit(cycles) == (cycles * cmd.multiplier_num) \div cmd.multiplier_den

(* The random tests begin, or there are none to run.  An invariant level   *)
(* needs no threads.                                                       *)
Gate ==
  /\ at = "gate"
  /\ sc' = [sc EXCEPT !.achievement = sc.validated /\ has_achievement(Here, sc)]
  /\ IF /\ sc.validated \/ ~cmd.run_fixed \/ cmd.compute_stats
        /\ ~stop_requested
        /\ seed_ranges # <<>>
     THEN /\ at' = "random"
          /\ random_cycles_limit' =
               IF sc.validated THEN Min({cmd.limit, effective_limit(sc.cycles)})
               ELSE random_cycles_limit
          /\ tasks' = IF Here.inputs /\ num_threads > 1 THEN num_threads ELSE 1
          /\ seed_it' = Begin(IF Here.inputs THEN seed_ranges
                              ELSE <<[begin |-> 0, end |-> 1]>>)
          /\ worst' = no_score
     ELSE /\ at' = "report"
          /\ UNCHANGED <<random_cycles_limit, tasks, seed_it, worst>>
  /\ UNCHANGED <<config, level, total_cycles, stop_requested, outcome, history>>

-----------------------------------------------------------------------------
(* run_seed_ranges                                                         *)

(* A task returns; with the last one, run_seed_ranges does.                *)
Returns ==
  /\ tasks' = tasks - 1
  /\ at' = IF tasks = 1 THEN "flags" ELSE "random"

NextSeed ==
  /\ at = "random"
  /\ ~AtEnd(seed_it)
  /\ taken' = Append(taken, seed_it.cur)
  /\ seed_it' = Advance(seed_it)

SeedsOver ==
  /\ at = "random"
  /\ AtEnd(seed_it)
  /\ Returns
  /\ UNCHANGED <<config, level, sc, worst, total_cycles, random_cycles_limit,
                 seed_it, stop_requested, outcome, history>>

(* The level has no test for the seed.                                     *)
NoTest ==
  /\ NextSeed
  /\ Here.skips
  /\ UNCHANGED <<config, level, at, scores, stop_requested, outcome, tests, late>>

(* static_test or random_test throws.  An exception that leaves a thread   *)
(* ends the program; the main thread runs the tests of an invariant level  *)
(* whatever -j says.                                                       *)
TestThrows ==
  /\ \/ at = "fixed" /\ UNCHANGED <<taken, seed_it>>
     \/ NextSeed
  /\ Here.throws
  /\ IF at = "fixed" \/ num_threads <= 1 \/ ~Here.inputs THEN Caught
     ELSE at' = "terminated" /\ UNCHANGED outcome
  /\ UNCHANGED <<config, level, scores, stop_requested, tests, late>>

SurelyCheat(w) ==
  /\ ~cmd.compute_stats
  /\ w.valid * cmd.cheat_den >= cmd.cheat_num * total_random_tests(seed_ranges)
  /\ w.valid < w.ran

Merge(s) ==
  /\ Ran(s)
  /\ worst' = [worst EXCEPT !.ran = @ + 1,
                            !.valid = @ + (IF s.validated THEN 1 ELSE 0),
                            !.validated = @ \/ s.validated,
                            !.cycles = Slowest(worst, s)]
  /\ IF SurelyCheat(worst') \/ total_cycles' >= cmd.total_limit
     THEN Returns ELSE UNCHANGED <<at, tasks>>

(* One task takes a seed and runs its test; what a signal has cut short it *)
(* does not merge.  The other tasks go on.                                 *)
RandomTest ==
  /\ NextSeed
  /\ \E s \in TestScore(random_cycles_limit) :
       IF stop_requested
       THEN Returns /\ UNCHANGED <<worst, total_cycles, tests>>
       ELSE Merge(s)
  /\ Late
  /\ UNCHANGED <<config, level, sc, random_cycles_limit, stop_requested, outcome>>

(* The score gets the random tests' results and its flags.                 *)
Flags ==
  /\ at = "flags" /\ at' = "report"
  /\ sc' = [(IF cmd.run_fixed
             THEN [sc EXCEPT !.ran = worst.ran, !.valid = worst.valid] ELSE worst)
            EXCEPT !.cheat = worst.ran = 0 \/ worst.ran # worst.valid,
                   !.hardcoded = worst.valid
                                   <= (worst.ran * cmd.cheat_num) \div cmd.cheat_den]
  /\ UNCHANGED <<config, level, worst, total_cycles, random_cycles_limit, tasks,
                 seed_it, stop_requested, outcome, history>>

-----------------------------------------------------------------------------
Printed ==
  /\ at = "report"
  /\ UNCHANGED <<config, scores, seed_it, stop_requested, history>>

Bug_LastDecides ==
  /\ Printed
  /\ target_level' = IF deduced THEN none ELSE target_level
  /\ return_code' = IF sc.validated THEN SUCCESS ELSE FAILURE
  /\ Done(IF sc.validated THEN "valid" ELSE "invalid")
  /\ UNCHANGED deduced

Bug_LevelKept ==
  /\ Printed
  /\ return_code' = IF sc.validated THEN return_code ELSE Max({return_code, FAILURE})
  /\ Done(IF sc.validated THEN "valid" ELSE "invalid")
  /\ UNCHANGED level

(* simulate_file returns and main prints the score.                        *)
Report ==
  /\ Printed
  /\ target_level' = IF deduced THEN none ELSE target_level
  /\ return_code' = IF sc.validated THEN return_code ELSE Max({return_code, FAILURE})
  /\ Done(IF sc.validated THEN "valid" ELSE "invalid")
  /\ UNCHANGED deduced

(* sigterm_handler                                                         *)
Signal ==
  /\ at \notin {"exit", "terminated"} /\ ~stop_requested
  /\ stop_requested' = TRUE
  /\ UNCHANGED <<config, level, at, scores, seed_it, outcome, history>>

Main ==
  \/ DeduceLevel \/ ReadFile \/ ParseCode \/ FixedTest \/ Gate
  \/ SeedsOver \/ NoTest \/ TestThrows \/ RandomTest \/ Flags \/ Report

Next == Main \/ Signal

(* The program runs; no signal need ever come.                             *)
Spec == Init /\ [][Next]_vars /\ WF_vars(Main)

-----------------------------------------------------------------------------
Results == {"valid", "invalid", "exception"}

TypeOK ==
  /\ cmd \in Commands
  /\ \A k \in DOMAIN seed_ranges : {seed_ranges[k].begin, seed_ranges[k].end} \subseteq Seed
  /\ target_level \in Levels \cup {none}
  /\ deduced \in BOOLEAN
  /\ at \in {"next", "read", "code", "fixed", "gate", "random", "flags", "report",
             "exit", "terminated"}
  /\ {sc.validated, sc.achievement, sc.cheat, sc.hardcoded} \subseteq BOOLEAN
  /\ {sc.cycles, sc.ran, sc.valid, worst.cycles, worst.ran, worst.valid} \subseteq Nat
  /\ {total_cycles, random_cycles_limit, tasks, late} \subseteq Nat
  /\ seed_it.cur \in Seed
  /\ stop_requested \in BOOLEAN
  /\ return_code \in {SUCCESS, FAILURE, EXCEPTION}
  /\ \A k \in DOMAIN tests : {tests[k].fixed, tests[k].validated} \subseteq BOOLEAN
  /\ \A k \in DOMAIN taken : taken[k] \in Seed
  /\ \A k \in DOMAIN results : results[k] \in Results

(* "0 on a validation, 1 on a validation failure, 2 on an exception": the  *)
(* exit code is that of the worst solution, wherever it stands in the list *)
(* (main's loop and its catch clause).                                     *)
ExitCodeExact ==
  at = "exit" /\ ~SetupFails(cmd) =>
    return_code = IF Contains(results, "exception") THEN EXCEPTION
                  ELSE IF Contains(results, "invalid") THEN FAILURE
                  ELSE SUCCESS

FixedOnes  == {k \in DOMAIN tests : tests[k].fixed}
RandomOnes == DOMAIN tests \ FixedOnes

Passing(S) == {k \in S : tests[k].validated}
Worst(S)   == Max({0} \cup {tests[k].cycles : k \in Passing(S)})

CyclesOf(all) ==
  LET sum[k \in 0 .. Len(all)] == IF k = 0 THEN 0 ELSE sum[k - 1] + all[k].cycles
  IN  sum[Len(all)]

(* The score printed is that of this solution's own tests, whatever ran    *)
(* before it and wherever its tests were broken off: validated by all the  *)
(* fixed tests (those before it, if a signal stopped them); the slowest    *)
(* fixed test or, without fixed tests, the slowest random one; its flags;  *)
(* and no random test went on beyond its first cycle for longer than       *)
(* --limit or the multiple of the slowest fixed test (simulate_code,       *)
(* run_seed_ranges, run).                                                  *)
ScoreOwn ==
  at = "report" =>
    LET deciding == IF cmd.run_fixed THEN FixedOnes ELSE RandomOnes
        passed   == Cardinality(Passing(RandomOnes))
        ran      == Cardinality(RandomOnes)
    IN /\ sc.validated <=>
            /\ cmd.run_fixed => Passing(deciding) = deciding
            /\ Passing(deciding) # {}
       /\ cmd.run_fixed /\ sc.validated /\ ~stop_requested =>
            Cardinality(FixedOnes) = IF Here.inputs THEN 3 ELSE 1
       /\ sc.cycles = Worst(deciding)
       /\ <<sc.ran, sc.valid>> = <<ran, passed>>
       /\ total_cycles = CyclesOf(tests)
       /\ sc.achievement <=>
            /\ cmd.run_fixed /\ sc.validated
            /\ Here.busy /\ sc.cycles > busy_cycles
       /\ sc.cheat <=> taken # <<>> /\ (passed < ran \/ ran = 0)
       /\ sc.hardcoded <=>
            taken # <<>> /\ passed * cmd.cheat_den <= ran * cmd.cheat_num
       /\ \A k \in RandomOnes : tests[k].cycles > 1 =>
            /\ tests[k].cycles <= cmd.limit
            /\ cmd.run_fixed /\ sc.validated =>
                 tests[k].cycles * cmd.multiplier_den <= sc.cycles * cmd.multiplier_num

AskedSeeds ==
  IF ~Here.inputs THEN <<0>>
  ELSE IF cmd.seeds = "ranges" THEN Asked(cmd.exprs)
  ELSE AskedCounted(cmd.seed, cmd.count)

(* The random tests take the seeds asked for, each as often as it was asked*)
(* for, in that order, up to the largest uint32_t, and miss none unless    *)
(* they stop early; their number is known in advance, unless it is 2^32.   *)
(* (parse_int, parse_ranges, add_seed_range, seed_range_iterator; -r 0 is  *)
(* the exception NoMoreThanAsked is about.)                                *)
SeedsExact ==
  at \in {"random", "flags"} /\ AskedSeeds # <<>> =>
    /\ IsPrefix(taken, AskedSeeds)
    /\ AtEnd(seed_it) => taken = AskedSeeds
    /\ Here.inputs /\ Len(AskedSeeds) <= seed_max =>
         total_random_tests(seed_ranges) = Len(AskedSeeds)

(* "upper bound" (--help, -r): no more random tests than asked for.        *)
NoMoreThanAsked ==
  at = "random" /\ Here.inputs => Len(taken) <= Len(AskedSeeds)

Own == IF cmd.level # none THEN cmd.level ELSE Solution.prefix

AgainstOwn == at \in {"fixed", "gate", "random", "flags", "report"} => target_level = Own

(* A solution runs against the level given, or the one its own file name   *)
(* begins with, as long as no solution before it ended in an exception     *)
(* (simulate_file).                                                        *)
OwnLevelUntilFailure == Contains(results, "exception") \/ AgainstOwn

(* "each filename in the arguments is checked individually for its prefix, *)
(* so they can be for different levels" (README).                          *)
EachAgainstItsOwn == AgainstOwn

(* After a signal at most one test begins for each thread, and only one if *)
(* the signal finds the solution before its random tests, however many     *)
(* tests and solutions are left: the loop over the fixed tests, every task *)
(* and the loop over the solutions look at stop_requested in each pass.    *)
StopsPromptly ==
  late <= IF taken # <<>> /\ num_threads > 1 THEN num_threads ELSE 1

(* The program ends, and only an exception in a thread of -j keeps it from *)
(* ending by itself.                                                       *)
AlwaysExits ==
  <>(at = "exit" \/ (at = "terminated" /\ num_threads > 1 /\ Here.throws))
=============================================================================
