--------------------------- MODULE SimulatorProofs --------------------------
(***************************************************************************)
(* Proofs about one run of the program, for every command line: types, the *)
(* exit code, the level of a solution, what a signal leaves to be run, the *)
(* score of a solution and the seeds of its random tests.                  *)
(***************************************************************************)
EXTENDS Simulator, SharedLemmas, TLAPS, SequenceTheorems

-----------------------------------------------------------------------------
(* Sequences and bounds                                                    *)

LEMMA AppendContains ==
  ASSUME NEW S, NEW s \in Seq(S), NEW e \in S, NEW x
  PROVE  Contains(Append(s, e), x) <=> Contains(s, x) \/ x = e
<1>1. Len(s) \in Nat /\ Len(Append(s, e)) = Len(s) + 1
  BY LenProperties, AppendProperties
<1>2. /\ \A i \in 1 .. Len(s) : Append(s, e)[i] = s[i]
      /\ Append(s, e)[Len(s) + 1] = e
  BY AppendProperties
<1>3. 1 .. Len(s) + 1 = (1 .. Len(s)) \cup {Len(s) + 1}
  BY <1>1
<1>4. QED
  BY <1>1, <1>2, <1>3 DEF Contains

LEMMA EmptyContains == \A x : ~Contains(<<>>, x)
BY EmptySeq DEF Contains

LEMMA MaxOfTwo ==
  ASSUME NEW a \in Nat, NEW b \in Nat
  PROVE  Max({a, b}) \in Nat /\ Max({a, b}) \in {a, b}
         /\ Max({a, b}) >= a /\ Max({a, b}) >= b
<1>1. \E x \in {a, b} : \A y \in {a, b} : x >= y
  <2>1. CASE a >= b
    BY <2>1
  <2>2. CASE b >= a
    BY <2>2
  <2>3. QED
    BY <2>1, <2>2
<1>2. Max({a, b}) \in {a, b} /\ \A y \in {a, b} : Max({a, b}) >= y
  BY <1>1 DEF Max
<1>3. QED
  BY <1>2

LEMMA MinOfTwo ==
  ASSUME NEW a \in Nat, NEW b \in Nat
  PROVE  Min({a, b}) \in Nat /\ Min({a, b}) <= a /\ Min({a, b}) <= b
<1>1. \E x \in {a, b} : \A y \in {a, b} : x =< y
  <2>1. CASE a >= b
    BY <2>1
  <2>2. CASE b >= a
    BY <2>2
  <2>3. QED
    BY <2>1, <2>2
<1>2. Min({a, b}) \in {a, b} /\ \A y \in {a, b} : Min({a, b}) =< y
  BY <1>1 DEF Min
<1>3. QED
  BY <1>2

LEMMA UpToMost ==
  ASSUME NEW m \in Nat, NEW n \in 1 .. m
  PROVE  n > 0 /\ 0 + n <= m
OBVIOUS

-----------------------------------------------------------------------------
(* Seeds                                                                   *)

RangeType == [begin : Seed, end : Seed]

LEMMA WrapIsSeed == \A v \in Int : wrap(v) \in Seed
BY SeedAssumption DEF wrap, Seed

LEMMA NumeralIsSeed == \A n \in Numeral : parse_int(n) \in Seed
<1> SUFFICES ASSUME NEW n \in Numeral PROVE parse_int(n) \in Seed
  OBVIOUS
<1>1. n.multiplier \in Nat /\ n.base \in Nat
  BY DEF Numeral
<1>2. n.multiplier * n.base \in Int
  BY <1>1
<1>3. QED
  BY <1>2, WrapIsSeed DEF parse_int

LEMMA ElementIsRange == \A x \in Element : range_t(x) \in RangeType
<1> SUFFICES ASSUME NEW x \in Element PROVE range_t(x) \in RangeType
  OBVIOUS
<1>1. parse_int(x.from) \in Seed /\ parse_int(x.to) \in Seed
  BY NumeralIsSeed DEF Element
<1>2. seed_max \in Seed /\ \A v \in Seed : v \in Int
  BY SeedAssumption DEF Seed
<1>3. Upper(x) \in Seed
  BY <1>1, <1>2 DEF Upper
<1>4. wrap(parse_int(x.from) + 1) \in Seed /\ wrap(Upper(x) + 1) \in Seed
  BY <1>1, <1>2, <1>3, WrapIsSeed
<1>5. QED
  BY <1>1, <1>4 DEF range_t, RangeType

LEMMA RangesOfCommand ==
  ASSUME NEW c \in Commands
  PROVE  SeedRangesOf(c) \in Seq(RangeType)
<1>1. c.exprs \in Seq(Element) /\ c.seed \in Seed /\ c.count \in Numeral
  BY SimulatorAssumption DEF IsCommand
<1>2. parse_ranges(c.exprs) \in Seq(RangeType)
  <2>1. Len(c.exprs) \in Nat /\ DOMAIN c.exprs = 1 .. Len(c.exprs)
        /\ \A k \in 1 .. Len(c.exprs) : c.exprs[k] \in Element
    BY <1>1, LenProperties, ElementOfSeq
  <2>2. \A k \in 1 .. Len(c.exprs) : range_t(c.exprs[k]) \in RangeType
    BY <2>1, ElementIsRange
  <2>3. parse_ranges(c.exprs) = [k \in 1 .. Len(c.exprs) |-> range_t(c.exprs[k])]
    BY <2>1 DEF parse_ranges
  <2>4. QED
    BY <2>1, <2>2, <2>3, IsASeq
<1>3. CountedRange(c.seed, c.count) \in Seq(RangeType)
  <2>1. parse_int(c.count) \in Seed
    BY <1>1, NumeralIsSeed
  <2>2. c.seed + parse_int(c.count) \in Int
    BY <1>1, <2>1 DEF Seed
  <2>3. wrap(c.seed + parse_int(c.count)) \in Seed
    BY <2>2, WrapIsSeed
  <2>4. [begin |-> c.seed, end |-> wrap(c.seed + parse_int(c.count))] \in RangeType
    BY <1>1, <2>3 DEF RangeType
  <2>5. QED
    BY <2>4 DEF CountedRange
<1>4. <<>> \in Seq(RangeType)
  BY EmptySeq
<1>5. QED
  BY <1>2, <1>3, <1>4 DEF SeedRangesOf

IteratorType == [it : Seq(RangeType), cur : Seed]

LEMMA BeginIsIterator ==
  ASSUME NEW r \in Seq(RangeType), r # <<>>
  PROVE  Begin(r) \in IteratorType
<1>1. Len(r) \in Nat /\ Len(r) # 0
  BY LenProperties, EmptySeq
<1>2. r[1] \in RangeType
  BY <1>1, ElementOfSeq
<1>3. QED
  BY <1>2 DEF Begin, IteratorType, RangeType

LEMMA AdvanceIsIterator ==
  ASSUME NEW i \in IteratorType, ~AtEnd(i)
  PROVE  Advance(i) \in IteratorType
<1>1. i.it \in Seq(RangeType) /\ i.it # <<>> /\ i.cur \in Seed
  BY DEF IteratorType, AtEnd
<1>2. wrap(i.cur + 1) \in Seed
  BY <1>1, WrapIsSeed DEF Seed
<1>3. Tail(i.it) \in Seq(RangeType)
  BY <1>1, HeadTailProperties
<1>4. Len(i.it) > 1 => i.it[2].begin \in Seed
  <2>1. Len(i.it) \in Nat
    BY <1>1, LenProperties
  <2>2. Len(i.it) > 1 => i.it[2] \in RangeType
    BY <1>1, <2>1, ElementOfSeq
  <2>3. QED
    BY <2>2 DEF RangeType
<1>5. CASE wrap(i.cur + 1) # i.it[1].end
  BY <1>2, <1>5 DEF Advance, IteratorType
<1>6. CASE wrap(i.cur + 1) = i.it[1].end
  BY <1>2, <1>3, <1>4, <1>6 DEF Advance, IteratorType
<1>7. QED
  BY <1>5, <1>6

-----------------------------------------------------------------------------
(* The inductive invariant                                                 *)

ScoreType ==
  [validated : BOOLEAN, cycles : Nat, ran : Nat, valid : Nat,
   achievement : BOOLEAN, cheat : BOOLEAN, hardcoded : BOOLEAN]

TestType == [fixed : BOOLEAN, validated : BOOLEAN, cycles : Nat]

(* In simulate_file or simulate_code.                                      *)
Running == {"read", "code", "fixed", "gate", "random", "flags", "report"}

Typed ==
  /\ cmd \in Commands /\ seed_ranges \in Seq(RangeType)
  /\ target_level \in Levels \cup {none} /\ deduced \in BOOLEAN
  /\ at \in Running \cup {"next", "exit", "terminated"}
  /\ sc \in ScoreType /\ worst \in ScoreType
  /\ total_cycles \in Nat /\ random_cycles_limit \in Nat /\ tasks \in Nat
  /\ seed_it \in IteratorType
  /\ stop_requested \in BOOLEAN /\ return_code \in {SUCCESS, FAILURE, EXCEPTION}
  /\ tests \in Seq(TestType) /\ taken \in Seq(Seed) /\ results \in Seq(Results)
  /\ late \in Nat

(* There is a solution to run until the program ends.                      *)
Unfinished ==
  at \notin {"exit", "terminated"} => Len(results) < Len(cmd.solutions)

(* The exit code says what became of the solutions so far.                 *)
CodeOf(r) ==
  IF Contains(r, "exception") THEN EXCEPTION
  ELSE IF Contains(r, "invalid") THEN FAILURE
  ELSE SUCCESS

CodeSoFar == ~SetupFails(cmd) => return_code = CodeOf(results)

(* Until a solution ends in an exception, the level is the one given       *)
(* between two solutions, and its own while one runs.                      *)
LevelSoFar ==
  \/ Contains(results, "exception")
  \/ /\ at = "next" => target_level = cmd.level
     /\ at \in Running => target_level = Own /\ (deduced <=> cmd.level = none)

(* How many tests may begin after a signal among the random ones.          *)
Most == IF num_threads > 1 THEN num_threads ELSE 1

(* A fixed test run after the signal was the last test; every task that    *)
(* has run one since has returned, so it and the tasks left are not more   *)
(* than there were.                                                        *)
LateSoFar ==
  /\ at \in {"fixed", "gate"} => taken = <<>>
  /\ at = "random" => tasks > 0 /\ late + tasks <= Most
  /\ late # 0 =>
       /\ stop_requested
       /\ IF taken = <<>> THEN late = 1 /\ at \in {"gate", "report", "exit"}
          ELSE /\ late <= Most
               /\ at \in {"random", "flags", "report", "exit", "terminated"}

IInv == Typed /\ Unfinished /\ CodeSoFar /\ LevelSoFar /\ LateSoFar

-----------------------------------------------------------------------------
(* What the steps have in common                                           *)

LEMMA CommandTypes ==
  ASSUME NEW c \in Commands
  PROVE  /\ c.level \in Levels \cup {none}
         /\ c.limit \in Nat /\ c.threads \in Nat
         /\ c.multiplier_num \in Nat /\ c.multiplier_den \in Nat \ {0}
         /\ c.run_fixed \in BOOLEAN
         /\ c.solutions \in Seq(SolutionFile) /\ Len(c.solutions) \in Nat \ {0}
<1>1. /\ c.level \in Levels \cup {none}
      /\ c.limit \in Nat /\ c.threads \in Nat
      /\ c.multiplier_num \in Nat /\ c.multiplier_den \in Nat \ {0}
      /\ c.run_fixed \in BOOLEAN
      /\ c.solutions \in Seq(SolutionFile) /\ c.solutions # <<>>
  BY SimulatorAssumption DEF IsCommand
<1>2. QED
  BY <1>1, LenProperties, EmptySeq

LEMMA MostType ==
  ASSUME Typed
  PROVE  Most \in Nat \ {0}
<1>1. cmd.threads \in Nat /\ hardware_concurrency \in Nat
  BY CommandTypes, SimulatorAssumption DEF Typed
<1>2. QED
  BY <1>1 DEF Most, num_threads

(* Truncating leaves a natural number.                                     *)
LEMMA EffectiveLimitType ==
  ASSUME Typed, NEW cycles \in Nat
  PROVE  effective_limit(cycles) \in Nat
<1>1. cmd.multiplier_num \in Nat /\ cmd.multiplier_den \in Nat \ {0}
  BY CommandTypes DEF Typed
<1>2. PICK p \in Nat : p = cycles * cmd.multiplier_num
  BY <1>1
<1>3. p \div cmd.multiplier_den \in Nat
  BY <1>1
<1>4. QED
  BY <1>2, <1>3 DEF effective_limit

LEMMA SolutionType ==
  ASSUME Typed, Unfinished, at \notin {"exit", "terminated"}
  PROVE  Solution \in SolutionFile
<1>1. cmd.solutions \in Seq(SolutionFile) /\ Len(results) \in Nat
      /\ Len(cmd.solutions) \in Nat
  BY CommandTypes, LenProperties DEF Typed
<1>2. Len(results) + 1 \in 1 .. Len(cmd.solutions)
  BY <1>1 DEF Unfinished
<1>3. QED
  BY <1>1, <1>2, ElementOfSeq DEF Solution

(* A step within a solution leaves what main's loop keeps.                 *)
LEMMA Continues ==
  ASSUME IInv, at \in Running, at' \in Running \cup {"terminated"},
         UNCHANGED <<config, level, outcome>>
  PROVE  Unfinished' /\ CodeSoFar' /\ LevelSoFar'
<1>1. UNCHANGED <<cmd, results, return_code, target_level, deduced>>
  BY DEF config, level, outcome
<1>2. Own' = Own /\ SetupFails(cmd)' = SetupFails(cmd)
  BY <1>1 DEF Own, Solution, SetupFails
<1>3. at \notin {"exit", "terminated"} /\ at' # "next"
  BY DEF Running
<1>4. Unfinished'
  BY <1>1, <1>3 DEF IInv, Unfinished
<1>5. CodeSoFar'
  BY <1>1, <1>2 DEF IInv, CodeSoFar
<1>6. LevelSoFar'
  BY <1>1, <1>2, <1>3 DEF IInv, LevelSoFar
<1>7. QED
  BY <1>4, <1>5, <1>6

(* The end of a solution: the worst result so far decides the exit code.   *)
LEMMA Finishes ==
  ASSUME IInv, at \notin {"exit", "terminated"}, NEW r \in Results, Done(r),
         return_code' = CASE r = "exception" -> EXCEPTION
                          [] r = "invalid" -> Max({return_code, FAILURE})
                          [] OTHER -> return_code,
         UNCHANGED config
  PROVE  /\ results' \in Seq(Results) /\ at' \in {"exit", "next"}
         /\ return_code' \in {SUCCESS, FAILURE, EXCEPTION}
         /\ stop_requested => at' = "exit"
         /\ Unfinished' /\ CodeSoFar'
         /\ \A x : Contains(results', x) <=> Contains(results, x) \/ x = r
<1>1. results \in Seq(Results) /\ results' = Append(results, r) /\ cmd' = cmd
      /\ cmd \in Commands /\ return_code \in {SUCCESS, FAILURE, EXCEPTION}
  BY DEF IInv, Typed, Done, config
<1>2. results' \in Seq(Results) /\ Len(results') = Len(results) + 1
  BY <1>1, AppendProperties
<1>3. at' = IF stop_requested \/ Len(results) + 1 = Len(cmd.solutions)
            THEN "exit" ELSE "next"
  BY DEF Done
<1>4. \A x : Contains(results', x) <=> Contains(results, x) \/ x = r
  BY <1>1, AppendContains
<1>5. Unfinished'
  <2>1. Len(results) < Len(cmd.solutions)
    BY DEF IInv, Unfinished
  <2>2. Len(results) \in Nat /\ Len(cmd.solutions) \in Nat
    BY <1>1, LenProperties, CommandTypes
  <2>3. QED
    BY <1>1, <1>2, <1>3, <2>1, <2>2 DEF Unfinished
<1>6. \A c \in {SUCCESS, FAILURE, EXCEPTION} :
        Max({c, FAILURE}) = IF c = SUCCESS THEN FAILURE ELSE c
  BY MaxOfTwo DEF SUCCESS, FAILURE, EXCEPTION
<1>7. CodeSoFar'
  <2> SUFFICES ASSUME ~SetupFails(cmd) PROVE return_code' = CodeOf(results')
    BY <1>1 DEF CodeSoFar, SetupFails
  <2>1. return_code = CodeOf(results)
    BY DEF IInv, CodeSoFar
  <2>2. /\ Contains(results', "exception") <=>
             Contains(results, "exception") \/ r = "exception"
        /\ Contains(results', "invalid") <=>
             Contains(results, "invalid") \/ r = "invalid"
    BY <1>4
  <2>3. CASE r = "exception"
    BY <2>2, <2>3 DEF CodeOf
  <2>4. CASE r = "invalid"
    <3>1. return_code' = IF return_code = SUCCESS THEN FAILURE ELSE return_code
      BY <1>1, <1>6, <2>4
    <3>2. QED
      BY <2>1, <2>2, <2>4, <3>1 DEF CodeOf, SUCCESS, FAILURE, EXCEPTION
  <2>5. CASE r = "valid"
    <3>1. return_code' = return_code
      BY <2>5
    <3>2. QED
      BY <2>1, <2>2, <2>5, <3>1 DEF CodeOf
  <2>6. QED
    BY <2>3, <2>4, <2>5 DEF Results
<1>8. return_code' \in {SUCCESS, FAILURE, EXCEPTION}
  BY <1>1, <1>6
<1>9. QED
  BY <1>2, <1>3, <1>4, <1>5, <1>7, <1>8

(* ... and after an exception nothing is known of the level.               *)
LEMMA CatchKeeps ==
  ASSUME IInv, at \in {"next", "read", "code", "fixed", "random"}, Caught,
         at = "random" => taken' # <<>>,
         UNCHANGED <<config, late, stop_requested>>
  PROVE  /\ results' \in Seq(Results) /\ at' \in {"exit", "next"}
         /\ return_code' \in {SUCCESS, FAILURE, EXCEPTION}
         /\ Unfinished' /\ CodeSoFar' /\ LevelSoFar' /\ LateSoFar'
<1>1. "exception" \in Results /\ at \notin {"exit", "terminated"}
  BY DEF Results
<1>2. /\ results' \in Seq(Results) /\ at' \in {"exit", "next"}
      /\ return_code' \in {SUCCESS, FAILURE, EXCEPTION}
      /\ stop_requested => at' = "exit"
      /\ Unfinished' /\ CodeSoFar'
      /\ Contains(results', "exception")
  BY <1>1, Finishes DEF Caught
<1>3. LevelSoFar'
  BY <1>2 DEF LevelSoFar
<1>4. LateSoFar'
  <2>1. Most' = Most
    BY DEF Most, num_threads, config
  <2>2. late # 0 => stop_requested /\ at = "random" /\ late <= Most
    BY DEF IInv, LateSoFar
  <2>3. QED
    BY <1>2, <2>1, <2>2 DEF LateSoFar
<1>5. QED
  BY <1>2, <1>3, <1>4

-----------------------------------------------------------------------------
(* main and simulate_file                                                  *)

LEMMA InitIInv == Init => IInv
<1> SUFFICES ASSUME Init PROVE IInv
  OBVIOUS
<1>1. cmd \in Commands /\ seed_ranges = SeedRangesOf(cmd)
  BY DEF Init
<1>2. Typed
  <2>1. seed_ranges \in Seq(RangeType)
    BY <1>1, RangesOfCommand
  <2>2. cmd.level \in Levels \cup {none}
    BY <1>1, CommandTypes
  <2>3. no_score \in ScoreType
    BY DEF no_score, ScoreType
  <2>4. [it |-> <<>>, cur |-> 0] \in IteratorType
    BY EmptySeq, SeedAssumption DEF IteratorType, Seed
  <2>5. /\ <<>> \in Seq(TestType) /\ <<>> \in Seq(Seed) /\ <<>> \in Seq(Results)
    BY EmptySeq
  <2>6. QED
    BY <1>1, <2>1, <2>2, <2>3, <2>4, <2>5 DEF Init, Typed
<1>3. Unfinished
  BY <1>1, CommandTypes, EmptySeq DEF Init, Unfinished
<1>4. CodeSoFar
  BY EmptyContains DEF Init, CodeSoFar, CodeOf
<1>5. LevelSoFar /\ LateSoFar
  BY DEF Init, LevelSoFar, LateSoFar, Running
<1>6. QED
  BY <1>2, <1>3, <1>4, <1>5 DEF IInv

LEMMA DeducingKeeps == IInv /\ DeduceLevel => IInv'
<1> SUFFICES ASSUME IInv, DeduceLevel PROVE IInv'
  OBVIOUS
<1>1. /\ at = "next" /\ Solution \in SolutionFile /\ cmd \in Commands
      /\ target_level \in Levels \cup {none}
  BY SolutionType DEF IInv, Typed, DeduceLevel
<1>2. /\ deduced' = (target_level = none) /\ deduced' \in BOOLEAN
      /\ target_level' = IF target_level = none THEN Solution.prefix ELSE target_level
      /\ target_level' \in Levels \cup {none}
      /\ UNCHANGED <<config, scores, seed_it, stop_requested, history>>
  BY <1>1 DEF DeduceLevel, SolutionFile
<1>3. CASE target_level' = none
  <2>1. Caught
    BY <1>3 DEF DeduceLevel
  <2>2. /\ results' \in Seq(Results) /\ at' \in {"exit", "next"}
        /\ return_code' \in {SUCCESS, FAILURE, EXCEPTION}
        /\ Unfinished' /\ CodeSoFar' /\ LevelSoFar' /\ LateSoFar'
    BY <1>1, <1>2, <2>1, CatchKeeps DEF history
  <2>3. Typed'
    BY <1>2, <2>2 DEF IInv, Typed, config, scores, history
  <2>4. QED
    BY <2>2, <2>3 DEF IInv
<1>4. CASE target_level' # none
  <2>1. at' = "read" /\ UNCHANGED <<cmd, results, return_code, late, taken>>
    BY <1>2, <1>4 DEF DeduceLevel, outcome, config, history
  <2>2. Typed'
    BY <1>2, <2>1 DEF IInv, Typed, config, scores, history, Running
  <2>3. Unfinished' /\ CodeSoFar'
    BY <1>1, <2>1 DEF IInv, Unfinished, CodeSoFar, SetupFails
  <2>4. LevelSoFar'
    <3> SUFFICES ASSUME ~Contains(results, "exception")
                 PROVE  target_level' = Own /\ (deduced' <=> cmd.level = none)
      BY <2>1 DEF LevelSoFar, Own, Solution
    <3>1. target_level = cmd.level
      BY <1>1 DEF IInv, LevelSoFar
    <3>2. QED
      BY <1>2, <3>1 DEF Own
  <2>5. LateSoFar'
    BY <1>1, <2>1 DEF IInv, LateSoFar
  <2>6. QED
    BY <2>2, <2>3, <2>4, <2>5 DEF IInv
<1>5. QED
  BY <1>3, <1>4

LEMMA ReadingKeeps == IInv /\ ReadFile => IInv'
<1> SUFFICES ASSUME IInv, ReadFile PROVE IInv'
  OBVIOUS
<1>1. at = "read" /\ at \in Running
      /\ UNCHANGED <<config, level, scores, seed_it, stop_requested, history>>
  BY DEF ReadFile, Running
<1>2. CASE Caught
  <2>1. /\ results' \in Seq(Results) /\ at' \in {"exit", "next"}
        /\ return_code' \in {SUCCESS, FAILURE, EXCEPTION}
        /\ Unfinished' /\ CodeSoFar' /\ LevelSoFar' /\ LateSoFar'
    BY <1>1, <1>2, CatchKeeps DEF history
  <2>2. Typed'
    BY <1>1, <2>1 DEF IInv, Typed, config, level, scores, history
  <2>3. QED
    BY <2>1, <2>2 DEF IInv
<1>3. CASE at' = "code" /\ UNCHANGED outcome
  <2>1. Unfinished' /\ CodeSoFar' /\ LevelSoFar'
    BY <1>1, <1>3, Continues DEF Running
  <2>2. Typed'
    BY <1>1, <1>3 DEF IInv, Typed, config, level, scores, history, outcome, Running
  <2>3. LateSoFar'
    BY <1>1, <1>3 DEF IInv, LateSoFar, history
  <2>4. QED
    BY <2>1, <2>2, <2>3 DEF IInv
<1>4. QED
  BY <1>2, <1>3 DEF ReadFile

LEMMA ParsingKeeps == IInv /\ ParseCode => IInv'
<1> SUFFICES ASSUME IInv, ParseCode PROVE IInv'
  OBVIOUS
<1>1. /\ at = "code" /\ at \in Running /\ tests' = <<>> /\ taken' = <<>>
      /\ total_cycles' = 0 /\ random_cycles_limit' = cmd.limit
      /\ UNCHANGED <<config, level, worst, tasks, seed_it, stop_requested, late>>
  BY DEF ParseCode, Begins, Running
<1>2. /\ sc' \in ScoreType
      /\ <<>> \in Seq(TestType) /\ <<>> \in Seq(Seed)
      /\ random_cycles_limit' \in Nat
  <2>1. cmd.run_fixed \in BOOLEAN /\ cmd.limit \in Nat
    BY CommandTypes DEF IInv, Typed
  <2>2. sc' = [no_score EXCEPT !.validated = cmd.run_fixed /\ Solution.parses]
    BY DEF ParseCode
  <2>3. (cmd.run_fixed /\ Solution.parses) \in BOOLEAN
    OBVIOUS
  <2>4. sc' \in ScoreType
    BY <2>2, <2>3 DEF no_score, ScoreType
  <2>5. QED
    BY <1>1, <2>1, <2>4, EmptySeq
<1>3. CASE Caught
  <2>1. /\ results' \in Seq(Results) /\ at' \in {"exit", "next"}
        /\ return_code' \in {SUCCESS, FAILURE, EXCEPTION}
        /\ Unfinished' /\ CodeSoFar' /\ LevelSoFar' /\ LateSoFar'
    BY <1>1, <1>3, CatchKeeps
  <2>2. Typed'
    BY <1>1, <1>2, <2>1 DEF IInv, Typed, config, level
  <2>3. QED
    BY <2>1, <2>2 DEF IInv
<1>4. CASE at' \in {"fixed", "gate"} /\ UNCHANGED outcome
  <2>1. Unfinished' /\ CodeSoFar' /\ LevelSoFar'
    BY <1>1, <1>4, Continues DEF Running
  <2>2. Typed'
    BY <1>1, <1>2, <1>4 DEF IInv, Typed, config, level, outcome, Running
  <2>3. LateSoFar'
    BY <1>1, <1>4 DEF IInv, LateSoFar
  <2>4. QED
    BY <2>1, <2>2, <2>3 DEF IInv
<1>5. QED
  BY <1>3, <1>4 DEF ParseCode, Begins

-----------------------------------------------------------------------------
(* simulate_code                                                           *)

(* What a test adds to the totals.                                         *)
LEMMA TestAdds ==
  ASSUME Typed, NEW limit \in Nat, NEW s \in TestScore(limit), Ran(s),
         NEW score \in ScoreType
  PROVE  /\ tests' \in Seq(TestType) /\ total_cycles' \in Nat
         /\ Slowest(score, s) \in Nat
<1>1. Max({1, limit}) \in Nat
  BY MaxOfTwo
<1>2. s.validated \in BOOLEAN /\ s.cycles \in Nat
  BY <1>1 DEF TestScore
<1>3. [fixed |-> at = "fixed", validated |-> s.validated, cycles |-> s.cycles]
        \in TestType
  BY <1>2 DEF TestType
<1>4. tests' \in Seq(TestType)
  BY <1>3, AppendProperties DEF Typed, Ran
<1>5. total_cycles' \in Nat
  BY <1>2 DEF Typed, Ran
<1>6. Slowest(score, s) \in Nat
  <2>1. score.cycles \in Nat
    BY DEF ScoreType
  <2>2. Max({score.cycles, s.cycles}) \in Nat
    BY <1>2, <2>1, MaxOfTwo
  <2>3. QED
    BY <2>1, <2>2 DEF Slowest
<1>7. QED
  BY <1>4, <1>5, <1>6

LEMMA FixedKeeps == IInv /\ FixedTest => IInv'
<1> SUFFICES ASSUME IInv, FixedTest PROVE IInv'
  OBVIOUS
<1>1. PICK s \in TestScore(cmd.limit) :
        /\ Ran(s)
        /\ sc' = [sc EXCEPT !.validated = s.validated, !.cycles = Slowest(sc, s)]
        /\ at' = IF LastFixed(s) THEN "gate" ELSE "fixed"
  BY DEF FixedTest
<1>2. /\ at = "fixed" /\ at \in Running /\ Late
      /\ UNCHANGED <<config, level, worst, random_cycles_limit, tasks, seed_it,
                     stop_requested, outcome, taken>>
  BY DEF FixedTest, Running
<1>3. cmd.limit \in Nat /\ sc \in ScoreType /\ Typed
  BY CommandTypes DEF IInv, Typed
<1>4. tests' \in Seq(TestType) /\ total_cycles' \in Nat /\ Slowest(sc, s) \in Nat
  BY <1>1, <1>3, TestAdds
<1>5. s.validated \in BOOLEAN
  BY DEF TestScore
<1>6. sc' \in ScoreType
  BY <1>1, <1>3, <1>4, <1>5 DEF ScoreType
<1>7. late = 0 /\ taken = <<>> /\ late' = IF stop_requested THEN 1 ELSE 0
  BY <1>2 DEF IInv, LateSoFar, Late
<1>8. at' \in {"gate", "fixed"} /\ (stop_requested => at' = "gate")
  BY <1>1 DEF LastFixed
<1>9. Typed'
  BY <1>2, <1>4, <1>6, <1>7, <1>8 DEF IInv, Typed, config, level, outcome, Running
<1>10. LateSoFar'
  BY <1>2, <1>7, <1>8 DEF LateSoFar
<1>11. Unfinished' /\ CodeSoFar' /\ LevelSoFar'
  BY <1>2, <1>8, Continues DEF Running
<1>12. QED
  BY <1>9, <1>10, <1>11 DEF IInv

LEMMA GateKeeps == IInv /\ Gate => IInv'
<1> SUFFICES ASSUME IInv, Gate PROVE IInv'
  OBVIOUS
<1>1. /\ at = "gate" /\ at \in Running
      /\ sc' = [sc EXCEPT !.achievement = sc.validated /\ has_achievement(Here, sc)]
      /\ UNCHANGED <<config, level, total_cycles, stop_requested, outcome, history>>
  BY DEF Gate, Running
<1>2. sc \in ScoreType /\ sc' \in ScoreType
  <2>1. (sc.validated /\ has_achievement(Here, sc)) \in BOOLEAN
    OBVIOUS
  <2>2. QED
    BY <1>1, <2>1 DEF IInv, Typed, ScoreType
<1>3. /\ at' \in {"random", "report"} /\ (stop_requested => at' = "report")
      /\ random_cycles_limit' \in Nat /\ seed_it' \in IteratorType
      /\ worst' \in ScoreType /\ tasks' \in Nat
      /\ at' = "random" => tasks' \in 1 .. Most
  <2>1. CASE /\ ~stop_requested /\ seed_ranges # <<>> /\ at' = "random"
             /\ random_cycles_limit' =
                  IF sc.validated THEN Min({cmd.limit, effective_limit(sc.cycles)})
                  ELSE random_cycles_limit
             /\ tasks' = IF Here.inputs /\ num_threads > 1 THEN num_threads ELSE 1
             /\ seed_it' = Begin(IF Here.inputs THEN seed_ranges
                                 ELSE <<[begin |-> 0, end |-> 1]>>)
             /\ worst' = no_score
    <3>1. random_cycles_limit' \in Nat
      <4>1. cmd.limit \in Nat /\ sc.cycles \in Nat /\ random_cycles_limit \in Nat
        BY <1>2, CommandTypes DEF IInv, Typed, ScoreType
      <4>2. effective_limit(sc.cycles) \in Nat
        BY <4>1, EffectiveLimitType DEF IInv
      <4>3. Min({cmd.limit, effective_limit(sc.cycles)}) \in Nat
        BY <4>1, <4>2, MinOfTwo
      <4>4. QED
        BY <2>1, <4>1, <4>3
    <3>2. seed_it' \in IteratorType
      <4>1. [begin |-> 0, end |-> 1] \in RangeType
        BY SeedAssumption DEF RangeType, Seed
      <4>2. <<[begin |-> 0, end |-> 1]>> \in Seq(RangeType)
            /\ <<[begin |-> 0, end |-> 1]>> # <<>>
        BY <4>1
      <4>3. seed_ranges \in Seq(RangeType) /\ seed_ranges # <<>>
        BY <2>1 DEF IInv, Typed
      <4>4. QED
        BY <2>1, <4>2, <4>3, BeginIsIterator
    <3>3. worst' \in ScoreType
      BY <2>1 DEF no_score, ScoreType
    <3>4. tasks' \in 1 .. Most /\ tasks' \in Nat
      <4>1. Most \in Nat \ {0}
        BY MostType DEF IInv
      <4>2. tasks' = Most \/ tasks' = 1
        BY <2>1 DEF Most
      <4>3. QED
        BY <4>1, <4>2
    <3>5. QED
      BY <2>1, <3>1, <3>2, <3>3, <3>4
  <2>2. CASE at' = "report" /\ UNCHANGED <<random_cycles_limit, tasks, seed_it, worst>>
    BY <2>2 DEF IInv, Typed
  <2>3. QED
    BY <2>1, <2>2 DEF Gate
<1>4. Typed'
  BY <1>1, <1>2, <1>3 DEF IInv, Typed, config, level, outcome, history, Running
<1>5. LateSoFar'
  <2>1. /\ late' = late /\ taken' = taken /\ taken = <<>> /\ Most' = Most
        /\ stop_requested' = stop_requested
        /\ late # 0 => stop_requested /\ late = 1
    BY <1>1 DEF IInv, LateSoFar, history, config, Most, num_threads
  <2>2. Most \in Nat
    BY MostType DEF IInv
  <2>3. CASE at' = "random"
    <3>1. late' = 0 /\ tasks' \in 1 .. Most
      BY <1>3, <2>1, <2>3
    <3>2. tasks' > 0 /\ 0 + tasks' <= Most
      BY <2>2, <3>1, UpToMost
    <3>3. late' = 0 /\ Most' = Most
      BY <2>1, <3>1
    <3>4. late' + tasks' <= Most'
      BY ONLY <3>2, <3>3, Zenon
    <3>5. QED
      BY <2>3, <3>2, <3>3, <3>4 DEF LateSoFar
  <2>4. CASE at' = "report"
    BY <1>1, <2>1, <2>4 DEF LateSoFar
  <2>5. QED
    BY <1>3, <2>3, <2>4
<1>6. Unfinished' /\ CodeSoFar' /\ LevelSoFar'
  BY <1>1, <1>3, Continues DEF Running
<1>7. QED
  BY <1>4, <1>5, <1>6 DEF IInv

LEMMA SeedTaken ==
  ASSUME IInv, NextSeed
  PROVE  taken' # <<>>
<1>1. taken \in Seq(Seed) /\ taken' = Append(taken, seed_it.cur) /\ seed_it.cur \in Seed
  BY DEF IInv, Typed, NextSeed, IteratorType
<1>2. Len(taken') = Len(taken) + 1 /\ Len(taken) \in Nat
  BY <1>1, AppendProperties, LenProperties
<1>3. Len(<<>>) = 0
  BY EmptySeq
<1>4. ASSUME taken' = <<>> PROVE FALSE
  <2>1. Len(taken) + 1 = 0
    BY <1>2, <1>3, <1>4
  <2>2. QED
    BY <1>2, <2>1
<1>5. QED
  BY <1>4

LEMMA NextSeedTypes ==
  ASSUME Typed, NextSeed
  PROVE  taken' \in Seq(Seed) /\ seed_it' \in IteratorType
<1>1. taken' \in Seq(Seed)
  BY AppendProperties DEF Typed, NextSeed, IteratorType
<1>2. seed_it' \in IteratorType
  BY AdvanceIsIterator DEF Typed, NextSeed
<1>3. QED
  BY <1>1, <1>2

(* A task that returns may have run a test after the signal.               *)
LEMMA ReturnKeeps ==
  ASSUME IInv, at = "random", Returns, UNCHANGED <<config, stop_requested>>,
         late' = late \/ (late' = late + 1 /\ stop_requested),
         late' # 0 => taken' # <<>>
  PROVE  LateSoFar' /\ tasks' \in Nat /\ at' \in {"random", "flags"}
<1>1. /\ late \in Nat /\ tasks \in Nat /\ tasks > 0 /\ late + tasks <= Most
      /\ late # 0 => stop_requested
      /\ Most \in Nat
  BY MostType DEF IInv, Typed, LateSoFar
<1>2. /\ tasks' = tasks - 1
      /\ at' = IF tasks = 1 THEN "flags" ELSE "random"
      /\ Most' = Most /\ stop_requested' = stop_requested
  BY DEF Returns, config, Most, num_threads
<1>3. /\ tasks' \in Nat /\ late' + tasks' <= Most /\ late' <= Most
      /\ at' = "random" => tasks' > 0
      /\ at' \in {"random", "flags"}
      /\ late' # 0 => stop_requested'
  BY <1>1, <1>2
<1>4. LateSoFar'
  BY <1>2, <1>3 DEF LateSoFar
<1>5. QED
  BY <1>3, <1>4

(* A step within a solution that runs no test.                             *)
LEMMA QuietKeeps == IInv /\ (SeedsOver \/ NoTest \/ Flags) => IInv'
<1>1. ASSUME IInv, SeedsOver PROVE IInv'
  <2>1. /\ at = "random" /\ Returns
        /\ UNCHANGED <<config, level, sc, worst, total_cycles, random_cycles_limit,
                       seed_it, stop_requested, outcome, history>>
    BY <1>1 DEF SeedsOver
  <2>2. LateSoFar' /\ tasks' \in Nat /\ at' \in {"random", "flags"}
    <3>1. late' = late /\ taken' = taken /\ (late # 0 => taken # <<>>)
      BY <1>1, <2>1 DEF IInv, LateSoFar, history
    <3>2. QED
      BY <1>1, <2>1, <3>1, ReturnKeeps
  <2>3. Typed'
    BY <1>1, <2>1, <2>2 DEF IInv, Typed, config, level, outcome, history, Running
  <2>4. Unfinished' /\ CodeSoFar' /\ LevelSoFar'
    BY <1>1, <2>1, <2>2, Continues DEF Running
  <2>5. QED
    BY <2>2, <2>3, <2>4 DEF IInv
<1>2. ASSUME IInv, NoTest PROVE IInv'
  <2>1. /\ at = "random" /\ NextSeed
        /\ UNCHANGED <<config, level, at, scores, stop_requested, outcome, tests, late>>
    BY <1>2 DEF NoTest, NextSeed
  <2>2. Typed'
    BY <1>2, <2>1, NextSeedTypes DEF IInv, Typed, config, level, scores, outcome
  <2>3. LateSoFar'
    <3>1. /\ taken' # <<>> /\ Most' = Most
          /\ UNCHANGED <<at, late, tasks, stop_requested>>
      BY <1>2, <2>1, SeedTaken DEF config, scores, Most, num_threads
    <3>2. tasks > 0 /\ late + tasks <= Most /\ late <= Most
          /\ (late # 0 => stop_requested)
      BY <1>2, <2>1, MostType DEF IInv, Typed, LateSoFar
    <3>3. QED
      BY <2>1, <3>1, <3>2 DEF LateSoFar
  <2>4. Unfinished' /\ CodeSoFar' /\ LevelSoFar'
    BY <1>2, <2>1, Continues DEF Running
  <2>5. QED
    BY <2>2, <2>3, <2>4 DEF IInv
<1>3. ASSUME IInv, Flags PROVE IInv'
  <2> DEFINE base == IF cmd.run_fixed
                     THEN [sc EXCEPT !.ran = worst.ran, !.valid = worst.valid]
                     ELSE worst
             c == worst.ran = 0 \/ worst.ran # worst.valid
             h == worst.valid <= (worst.ran * cmd.cheat_num) \div cmd.cheat_den
  <2>1. /\ at = "flags" /\ at' = "report"
        /\ UNCHANGED <<config, level, worst, total_cycles, random_cycles_limit, tasks,
                       seed_it, stop_requested, outcome, history>>
        /\ sc' = [base EXCEPT !.cheat = c, !.hardcoded = h]
    BY <1>3 DEF Flags
  <2>2. c \in BOOLEAN /\ h \in BOOLEAN
    OBVIOUS
  <2>3. base \in ScoreType
    BY <1>3 DEF IInv, Typed, ScoreType
  <2> HIDE DEF base, c, h
  <2>4. sc' \in ScoreType
    BY <2>1, <2>2, <2>3 DEF ScoreType
  <2>5. Typed'
    BY <1>3, <2>1, <2>4 DEF IInv, Typed, config, level, outcome, history, Running
  <2>6. LateSoFar'
    BY <1>3, <2>1 DEF IInv, LateSoFar, history, config, Most, num_threads
  <2>7. Unfinished' /\ CodeSoFar' /\ LevelSoFar'
    BY <1>3, <2>1, Continues DEF Running
  <2>8. QED
    BY <2>5, <2>6, <2>7 DEF IInv
<1>4. QED
  BY <1>1, <1>2, <1>3

LEMMA ThrowingKeeps == IInv /\ TestThrows => IInv'
<1> SUFFICES ASSUME IInv, TestThrows PROVE IInv'
  OBVIOUS
<1>1. /\ at \in {"fixed", "random"} /\ at \in Running
      /\ UNCHANGED <<config, level, scores, stop_requested, tests, late>>
  BY DEF TestThrows, NextSeed, Running
<1>2. /\ taken' \in Seq(Seed) /\ seed_it' \in IteratorType
      /\ at = "random" => taken' # <<>>
  BY NextSeedTypes, SeedTaken DEF IInv, Typed, TestThrows
<1>3. CASE Caught
  <2>1. /\ results' \in Seq(Results) /\ at' \in {"exit", "next"}
        /\ return_code' \in {SUCCESS, FAILURE, EXCEPTION}
        /\ Unfinished' /\ CodeSoFar' /\ LevelSoFar' /\ LateSoFar'
    BY <1>1, <1>2, <1>3, CatchKeeps
  <2>2. Typed'
    BY <1>1, <1>2, <2>1 DEF IInv, Typed, config, level, scores
  <2>3. QED
    BY <2>1, <2>2 DEF IInv
<1>4. CASE at = "random" /\ at' = "terminated" /\ UNCHANGED outcome
  <2>1. Unfinished' /\ CodeSoFar' /\ LevelSoFar'
    BY <1>1, <1>4, Continues
  <2>2. Typed'
    BY <1>1, <1>2, <1>4 DEF IInv, Typed, config, level, scores, outcome
  <2>3. LateSoFar'
    <3>1. Most' = Most /\ late' = late /\ stop_requested' = stop_requested
      BY <1>1 DEF config, Most, num_threads
    <3>2. late <= Most /\ (late # 0 => stop_requested)
      BY <1>4, MostType DEF IInv, Typed, LateSoFar
    <3>3. QED
      BY <1>2, <1>4, <3>1, <3>2 DEF LateSoFar
  <2>4. QED
    BY <2>1, <2>2, <2>3 DEF IInv
<1>5. QED
  BY <1>1, <1>3, <1>4 DEF TestThrows

LEMMA RandomKeeps == IInv /\ RandomTest => IInv'
<1> SUFFICES ASSUME IInv, RandomTest PROVE IInv'
  OBVIOUS
<1>1. /\ at = "random" /\ at \in Running /\ NextSeed /\ Late
      /\ UNCHANGED <<config, level, sc, random_cycles_limit, stop_requested, outcome>>
  BY DEF RandomTest, NextSeed, Running
<1>2. PICK s \in TestScore(random_cycles_limit) :
        IF stop_requested THEN Returns /\ UNCHANGED <<worst, total_cycles, tests>>
        ELSE Merge(s)
  BY DEF RandomTest
<1>3. Typed /\ taken' \in Seq(Seed) /\ seed_it' \in IteratorType
  BY <1>1, NextSeedTypes DEF IInv
<1>4. /\ taken' # <<>> /\ late \in Nat
      /\ late' = IF stop_requested THEN late + 1 ELSE late
  BY <1>1, SeedTaken DEF IInv, Typed, Late
<1>4a. LateSoFar' /\ tasks' \in Nat /\ at' \in {"flags", "random"}
  <2>1. CASE Returns
    BY <1>1, <1>4, <2>1, ReturnKeeps
  <2>2. CASE ~stop_requested /\ UNCHANGED <<at, tasks>>
    <3>1. late' = 0 /\ tasks > 0 /\ late + tasks <= Most /\ tasks \in Nat /\ late = 0
      BY <1>1, <1>4, <2>2 DEF IInv, Typed, LateSoFar
    <3>2. Most' = Most
      BY <1>1 DEF config, Most, num_threads
    <3>3. QED
      BY <1>1, <1>4, <2>2, <3>1, <3>2 DEF LateSoFar
  <2>3. QED
    BY <1>2, <2>1, <2>2 DEF Merge
<1>5. /\ worst' \in ScoreType /\ total_cycles' \in Nat /\ tests' \in Seq(TestType)
  <2>1. CASE stop_requested
    BY <1>2, <1>3, <2>1 DEF Typed
  <2>2. CASE ~stop_requested
    <3>1. /\ Ran(s)
          /\ worst' = [worst EXCEPT !.ran = @ + 1,
                                    !.valid = @ + (IF s.validated THEN 1 ELSE 0),
                                    !.validated = @ \/ s.validated,
                                    !.cycles = Slowest(worst, s)]
      BY <1>2, <2>2 DEF Merge
    <3>2. /\ worst \in ScoreType /\ random_cycles_limit \in Nat
      BY <1>3 DEF Typed
    <3>3. /\ tests' \in Seq(TestType) /\ total_cycles' \in Nat
          /\ Slowest(worst, s) \in Nat
      BY <1>3, <3>1, <3>2, TestAdds
    <3>4. /\ worst.ran + 1 \in Nat
          /\ worst.valid + (IF s.validated THEN 1 ELSE 0) \in Nat
          /\ (worst.validated \/ s.validated) \in BOOLEAN
      BY <3>2 DEF ScoreType
    <3>5. worst' \in ScoreType
      BY <3>1, <3>2, <3>3, <3>4 DEF ScoreType
    <3>6. QED
      BY <2>2, <3>1, <3>3, <3>5
  <2>3. QED
    BY <2>1, <2>2
<1>6. Typed'
  BY <1>1, <1>3, <1>4, <1>4a, <1>5 DEF Typed, config, level, outcome, Running
<1>7. Unfinished' /\ CodeSoFar' /\ LevelSoFar'
  BY <1>1, <1>4a, Continues DEF Running
<1>8. QED
  BY <1>4a, <1>6, <1>7 DEF IInv

-----------------------------------------------------------------------------
(* main again                                                              *)

LEMMA ReportKeeps == IInv /\ Report => IInv'
<1> SUFFICES ASSUME IInv, Report PROVE IInv'
  OBVIOUS
<1> DEFINE r == IF sc.validated THEN "valid" ELSE "invalid"
<1>1. /\ at = "report" /\ at \in Running /\ at \notin {"exit", "terminated"}
      /\ UNCHANGED <<config, scores, seed_it, stop_requested, history, deduced>>
      /\ target_level' = IF deduced THEN none ELSE target_level
      /\ return_code' = IF sc.validated THEN return_code
                        ELSE Max({return_code, FAILURE})
      /\ Done(r)
  BY DEF Report, Printed, Running
<1>2. r \in Results /\ r # "exception" /\ (r = "invalid" <=> ~sc.validated)
  BY DEF Results
<1> HIDE DEF r
<1>3. /\ results' \in Seq(Results) /\ at' \in {"exit", "next"}
      /\ return_code' \in {SUCCESS, FAILURE, EXCEPTION}
      /\ stop_requested => at' = "exit"
      /\ Unfinished' /\ CodeSoFar'
      /\ \A x : Contains(results', x) <=> Contains(results, x) \/ x = r
  BY <1>1, <1>2, Finishes
<1>4. Typed'
  BY <1>1, <1>3 DEF IInv, Typed, config, scores, history
<1>5. LevelSoFar'
  <2> SUFFICES ASSUME ~Contains(results, "exception")
               PROVE  target_level' = cmd.level
    BY <1>1, <1>3 DEF LevelSoFar, config, Running
  <2>1. target_level = Own /\ (deduced <=> cmd.level = none)
    BY <1>1 DEF IInv, LevelSoFar
  <2>2. QED
    BY <1>1, <2>1 DEF Own
<1>6. LateSoFar'
  <2>1. /\ late' = late /\ taken' = taken /\ Most' = Most
        /\ stop_requested' = stop_requested
    BY <1>1 DEF history, config, Most, num_threads
  <2>2. QED
    BY <1>1, <1>3, <2>1 DEF IInv, LateSoFar
<1>7. QED
  BY <1>3, <1>4, <1>5, <1>6 DEF IInv

LEMMA SignalKeeps == IInv /\ (Signal \/ UNCHANGED vars) => IInv'
<1> SUFFICES ASSUME IInv, Signal \/ UNCHANGED vars PROVE IInv'
  OBVIOUS
<1>1. /\ UNCHANGED <<config, level, at, scores, seed_it, outcome, history>>
      /\ stop_requested' \in {TRUE, stop_requested}
  BY DEF Signal, vars
<1>2. UNCHANGED <<cmd, seed_ranges, target_level, deduced, at, sc, worst,
                  total_cycles, random_cycles_limit, tasks, seed_it, results, return_code,
                  tests, taken, late>>
  BY <1>1 DEF config, level, scores, outcome, history
<1>3. Typed'
  BY <1>1, <1>2 DEF IInv, Typed
<1>4. Unfinished' /\ CodeSoFar' /\ LevelSoFar'
  BY <1>2 DEF IInv, Unfinished, CodeSoFar, LevelSoFar, Own, Solution, SetupFails
<1>5. LateSoFar'
  BY <1>1, <1>2 DEF IInv, LateSoFar, Most, num_threads
<1>6. QED
  BY <1>3, <1>4, <1>5 DEF IInv

LEMMA NextIInv == IInv /\ [Next]_vars => IInv'
BY DeducingKeeps, ReadingKeeps, ParsingKeeps, FixedKeeps, GateKeeps, QuietKeeps,
   ThrowingKeeps, RandomKeeps, ReportKeeps, SignalKeeps DEF Next, Main

LEMMA Always == Spec => []IInv
BY InitIInv, NextIInv, PTL DEF Spec

-----------------------------------------------------------------------------
LEMMA EntryOfSeq ==
  ASSUME NEW S, NEW s \in Seq(S), NEW k \in DOMAIN s
  PROVE  s[k] \in S
BY ElementOfSeq, LenProperties

(* Every member of the tis_sim has its type, for every command line the    *)
(* options accept: in particular a seed is always one of 32 bits.          *)
THEOREM TypesCorrect == Spec => []TypeOK
<1>1. IInv => TypeOK
  <2> SUFFICES ASSUME Typed PROVE TypeOK
    BY DEF IInv
  <2>1. \A k \in DOMAIN seed_ranges :
          {seed_ranges[k].begin, seed_ranges[k].end} \subseteq Seed
    <3> SUFFICES ASSUME NEW k \in DOMAIN seed_ranges
                 PROVE  {seed_ranges[k].begin, seed_ranges[k].end} \subseteq Seed
      OBVIOUS
    <3>1. seed_ranges[k] \in RangeType
      BY EntryOfSeq DEF Typed
    <3>2. QED
      BY <3>1 DEF RangeType
  <2>2. \A k \in DOMAIN tests : {tests[k].fixed, tests[k].validated} \subseteq BOOLEAN
    <3> SUFFICES ASSUME NEW k \in DOMAIN tests
                 PROVE  {tests[k].fixed, tests[k].validated} \subseteq BOOLEAN
      OBVIOUS
    <3>1. tests[k] \in TestType
      BY EntryOfSeq DEF Typed
    <3>2. QED
      BY <3>1 DEF TestType
  <2>3. /\ \A k \in DOMAIN taken : taken[k] \in Seed
        /\ \A k \in DOMAIN results : results[k] \in Results
    BY EntryOfSeq DEF Typed
  <2>4. /\ {sc.validated, sc.achievement, sc.cheat, sc.hardcoded} \subseteq BOOLEAN
        /\ {sc.cycles, sc.ran, sc.valid, worst.cycles, worst.ran, worst.valid}
             \subseteq Nat
    BY DEF Typed, ScoreType
  <2>5. QED
    BY <2>1, <2>2, <2>3, <2>4 DEF Typed, TypeOK, Running, IteratorType
<1>2. QED
  BY <1>1, Always, PTL

(* For any list of solutions, however each of them ends, the exit code is  *)
(* that of the worst (main's loop and its catch clause).                   *)
THEOREM ExitCodeAlwaysExact == Spec => []ExitCodeExact
<1>1. IInv => ExitCodeExact
  BY DEF IInv, CodeSoFar, CodeOf, ExitCodeExact
<1>2. QED
  BY <1>1, Always, PTL

(* For any list of solutions, each runs against the level given or its     *)
(* own, until one has ended in an exception (simulate_file, main).         *)
THEOREM OwnLevel == Spec => []OwnLevelUntilFailure
<1>1. IInv => OwnLevelUntilFailure
  BY DEF IInv, LevelSoFar, OwnLevelUntilFailure, AgainstOwn, Running
<1>2. QED
  BY <1>1, Always, PTL

(* Wherever the signal finds the program, and whatever there is left to    *)
(* run: of -j N threads each begins one more random test at most, and      *)
(* before the random tests one more test at most begins (the loops of      *)
(* simulate_code, run_seed_ranges and main).                               *)
THEOREM AlwaysStopsPromptly == Spec => []StopsPromptly
<1>1. IInv => StopsPromptly
  <2> SUFFICES ASSUME IInv PROVE StopsPromptly
    OBVIOUS
  <2>1. Most \in Nat \ {0}
    BY MostType DEF IInv
  <2>2. CASE late = 0
    BY <2>1, <2>2 DEF StopsPromptly, Most
  <2>3. CASE late # 0
    BY <2>1, <2>3 DEF IInv, LateSoFar, StopsPromptly, Most
  <2>4. QED
    BY <2>2, <2>3
<1>2. QED
  BY <1>1, Always, PTL
-----------------------------------------------------------------------------
(* Arithmetic                                                              *)

LEMMA MaxOf ==
  ASSUME NEW S \in SUBSET Int, NEW m \in S, \A x \in S : m >= x
  PROVE  Max(S) = m
<1>1. \A x \in S : (\A y \in S : x >= y) => x = m
  OBVIOUS
<1>2. QED
  BY <1>1 DEF Max

(* A factor is at most a quotient when the product is at most the dividend.*)
LEMMA BelowQuotient ==
  ASSUME NEW a \in Nat, NEW b \in Nat, NEW d \in Nat \ {0}
  PROVE  a <= b \div d <=> a * d <= b
<1> DEFINE q == b \div d
           r == b % d
<1>1. q \in Nat /\ r \in 0 .. d - 1 /\ b = d * q + r
  OBVIOUS
<1> HIDE DEF q, r
<1>2. ASSUME a <= q PROVE a * d <= b
  <2>1. PICK e \in Nat : q = a + e
    <3>1. q - a \in Nat /\ q = a + (q - a)
      BY <1>1, <1>2
    <3>2. QED
      BY <3>1
  <2>2. d * q = a * d + d * e /\ d * e \in Nat /\ a * d \in Nat
    BY <2>1
  <2>3. QED
    BY <1>1, <2>2
<1>3. ASSUME ~(a <= q) PROVE ~(a * d <= b)
  <2>1. PICK e \in Nat : a = q + 1 + e
    <3>1. a - q - 1 \in Nat /\ a = q + 1 + (a - q - 1)
      BY <1>1, <1>3
    <3>2. QED
      BY <3>1
  <2>2. a * d = d * q + d + d * e /\ d * e \in Nat /\ d * q \in Nat
    BY <1>1, <2>1
  <2>3. QED
    BY <1>1, <2>2
<1>4. QED
  BY <1>2, <1>3 DEF q

(* One carry or one borrow.                                                *)
LEMMA WrapSmall ==
  /\ \A v \in 0 .. seed_max : wrap(v) = v
  /\ \A v \in seed_max + 1 .. 2 * seed_max + 1 : wrap(v) = v - (seed_max + 1)
  /\ \A v \in -(seed_max + 1) .. -1 : wrap(v) = v + (seed_max + 1)
<1> DEFINE M == seed_max + 1
<1>1. M \in Nat \ {0}
  BY SeedAssumption
<1> HIDE DEF M
<1>2. ASSUME NEW v \in Int, NEW c \in {0, 1, -1}, v - c * M \in 0 .. M - 1
      PROVE  v % M = v - c * M
  <2> DEFINE q == v \div M
             r == v % M
  <2>1. q \in Int /\ r \in 0 .. M - 1 /\ v = M * q + r
    BY <1>1
  <2> HIDE DEF q, r
  <2>2. M * (q - c) = (v - c * M) - r /\ c \in Int /\ M \in Nat \ {0}
    BY <1>1, <2>1
  <2>3. CASE q - c >= 1
    <3>1. M * (q - c) >= M
      BY <2>1, <2>2, <2>3
    <3>2. QED
      BY <1>2, <2>1, <2>2, <3>1
  <2>4. CASE q - c <= -1
    <3>1. M * (q - c) <= -M
      BY <2>1, <2>2, <2>4
    <3>2. QED
      BY <1>2, <2>1, <2>2, <3>1
  <2>5. CASE q = c
    BY <1>2, <2>1, <2>2, <2>5 DEF q, r
  <2>6. QED
    BY <2>1, <2>2, <2>3, <2>4, <2>5
<1>3. seed_max \in Nat /\ M = seed_max + 1
  BY SeedAssumption DEF M
<1>4. ASSUME NEW v \in 0 .. seed_max PROVE v % M = v
  BY <1>2, <1>3
<1>5. ASSUME NEW v \in seed_max + 1 .. 2 * seed_max + 1 PROVE v % M = v - M
  BY <1>2, <1>3
<1>6. ASSUME NEW v \in -(seed_max + 1) .. -1 PROVE v % M = v + M
  BY <1>2, <1>3
<1>7. QED
  BY <1>4, <1>5, <1>6 DEF wrap, M

-----------------------------------------------------------------------------
(* The inductive invariant of the score                                    *)

(* simulate_code runs or prints its tests.                                 *)
Scoring == {"fixed", "gate", "random", "flags", "report"}

(* m is the most cycles a passing test of S had, or 0.                     *)
Greatest(m, S) ==
  /\ m = 0 \/ \E k \in Passing(S) : tests[k].cycles = m
  /\ \A k \in Passing(S) : tests[k].cycles <= m

(* While the fixed tests run, all of them have passed.                     *)
OnlyPassed ==
  at = "fixed" =>
    /\ cmd.run_fixed /\ sc.validated
    /\ Passing(FixedOnes) = FixedOnes
    /\ Len(tests) <= IF Here.inputs THEN 2 ELSE 0

(* Before the random tests the score has nothing of them.                  *)
NoneRandomYet ==
  at \in {"fixed", "gate"} =>
    /\ RandomOnes = {} /\ taken = <<>>
    /\ <<sc.ran, sc.valid>> = <<0, 0>> /\ ~sc.cheat /\ ~sc.hardcoded
    /\ random_cycles_limit = cmd.limit

TotalSoFar == at \in Scoring => total_cycles = CyclesOf(tests)

(* The cycles of the score are those of the fixed tests ...                *)
FixedCycles ==
  at \in Scoring =>
    IF cmd.run_fixed THEN at # "report" => Greatest(sc.cycles, FixedOnes)
    ELSE FixedOnes = {}

(* ... and so is the verdict, when they are over.                          *)
FixedVerdict ==
  at \in {"gate", "random", "flags"} =>
    IF cmd.run_fixed
    THEN /\ sc.validated <=> Passing(FixedOnes) = FixedOnes
         /\ Passing(FixedOnes) # {} \/ ~sc.validated
         /\ sc.validated /\ ~stop_requested =>
              Cardinality(FixedOnes) = IF Here.inputs THEN 3 ELSE 1
    ELSE ~sc.validated /\ sc.cycles = 0

(* worst describes the random tests so far, and their limit is kept.       *)
RandomScore ==
  at \in {"random", "flags"} =>
    /\ sc.achievement <=> sc.validated /\ has_achievement(Here, sc)
    /\ worst.ran = Cardinality(RandomOnes)
    /\ worst.valid = Cardinality(Passing(RandomOnes))
    /\ worst.validated <=> Passing(RandomOnes) # {}
    /\ Greatest(worst.cycles, RandomOnes)
    /\ ~worst.achievement
    /\ random_cycles_limit =
         IF sc.validated THEN Min({cmd.limit, effective_limit(sc.cycles)})
         ELSE cmd.limit
    /\ \A k \in RandomOnes : tests[k].cycles <= Max({1, random_cycles_limit})
    /\ taken # <<>> \/ (at = "random" /\ ~AtEnd(seed_it))

ScoreInv == OnlyPassed /\ NoneRandomYet /\ TotalSoFar /\ FixedCycles /\ FixedVerdict
            /\ RandomScore /\ ScoreOwn

-----------------------------------------------------------------------------
(* The tests of a solution                                                 *)

IsSum(sum, all) ==
  /\ sum[0] = 0
  /\ \A k \in 1 .. Len(all) : sum[k] = sum[k - 1] + all[k].cycles

LEMMA SumIsUnique ==
  ASSUME NEW all \in Seq(TestType), NEW f \in [0 .. Len(all) -> Nat], IsSum(f, all),
         NEW n \in Nat, n <= Len(all), NEW g, g[0] = 0,
         \A k \in 1 .. n : g[k] = g[k - 1] + all[k].cycles
  PROVE  g[n] = f[n]
<1> DEFINE T == {m \in Nat : m <= n => g[m] = f[m]}
<1>1. 0 \in T
  BY DEF IsSum
<1>2. ASSUME NEW m \in Nat, m \in T PROVE m + 1 \in T
  <2> SUFFICES ASSUME m + 1 <= n PROVE g[m + 1] = f[m + 1]
    OBVIOUS
  <2>1. Len(all) \in Nat /\ m + 1 \in 1 .. n /\ m + 1 \in 1 .. Len(all)
        /\ (m + 1) - 1 = m /\ m <= n
    BY LenProperties
  <2>2. QED
    BY <1>2, <2>1 DEF IsSum
<1> HIDE DEF T
<1>3. n \in T
  BY <1>1, <1>2, NatSetInduction
<1>4. QED
  BY <1>3 DEF T

LEMMA CyclesOfIsSum ==
  ASSUME NEW all \in Seq(TestType)
  PROVE  \E f \in [0 .. Len(all) -> Nat] : IsSum(f, all) /\ CyclesOf(all) = f[Len(all)]
<1> DEFINE N == Len(all)
           step == [ns \in (1 .. N) \X Nat |-> ns[2] + all[ns[1]].cycles]
<1>1. N \in Nat
  BY LenProperties
<1>2. \A k \in 1 .. N : all[k] \in TestType
  BY ElementOfSeq
<1>3. step \in [(1 .. N) \X Nat -> Nat]
  BY <1>2 DEF TestType
<1>4. \A k \in 1 .. N, s \in Nat : step[<<k, s>>] = s + all[k].cycles
  OBVIOUS
<1> HIDE DEF step
<1>5. PICK f \in [0 .. N -> Nat] : IsStart(f, N, 0, step)
  BY <1>1, <1>3, RecursionExists
<1>6. IsSum(f, all)
  <2>1. ASSUME NEW k \in 1 .. N PROVE f[k] = f[k - 1] + all[k].cycles
    <3>1. f[k - 1] \in Nat
      BY <1>1
    <3>2. QED
      BY <1>4, <1>5, <3>1 DEF IsStart
  <2>2. QED
    BY <1>5, <2>1 DEF IsStart, IsSum
<1> DEFINE body(g) == [k \in 0 .. N |-> IF k = 0 THEN 0 ELSE g[k - 1] + all[k].cycles]
           sum == CHOOSE g : g = body(g)
<1>7. f = body(f)
  <2>1. ASSUME NEW k \in 0 .. N
        PROVE  f[k] = IF k = 0 THEN 0 ELSE f[k - 1] + all[k].cycles
    BY <1>1, <1>6 DEF IsSum
  <2>2. QED
    BY <2>1
<1>8. sum = body(sum)
  BY <1>7
<1>9. CyclesOf(all) = sum[N]
  BY DEF CyclesOf
<1> HIDE DEF sum, body
<1>10. /\ sum[0] = 0
       /\ \A k \in 1 .. N : sum[k] = sum[k - 1] + all[k].cycles
  <2>1. \A k \in 0 .. N : sum[k] = IF k = 0 THEN 0 ELSE sum[k - 1] + all[k].cycles
    BY <1>8 DEF body
  <2>2. QED
    BY <1>1, <2>1
<1>11. sum[N] = f[N]
  <2>1. N <= N
    BY <1>1
  <2>2. QED
    BY <1>1, <1>6, <1>10, <2>1, SumIsUnique
<1>12. QED
  BY <1>6, <1>9, <1>11

LEMMA NoCycles == CyclesOf(<<>>) = 0
<1>1. <<>> \in Seq(TestType) /\ Len(<<>>) = 0
  BY EmptySeq
<1>2. QED
  BY <1>1, CyclesOfIsSum DEF IsSum

LEMMA MoreCycles ==
  ASSUME NEW all \in Seq(TestType), NEW t \in TestType
  PROVE  CyclesOf(Append(all, t)) = CyclesOf(all) + t.cycles
<1> DEFINE more == Append(all, t)
           N == Len(all)
<1>1. /\ more \in Seq(TestType) /\ Len(more) = N + 1 /\ N \in Nat
      /\ \A k \in 1 .. N : more[k] = all[k]
      /\ more[N + 1] = t
  BY AppendProperties, LenProperties
<1> HIDE DEF more
<1>2. PICK f \in [0 .. N -> Nat] : IsSum(f, all) /\ CyclesOf(all) = f[N]
  BY CyclesOfIsSum
<1>3. PICK g \in [0 .. N + 1 -> Nat] : IsSum(g, more) /\ CyclesOf(more) = g[N + 1]
  BY <1>1, CyclesOfIsSum
<1>4. g[N] = f[N]
  <2>1. g[0] = 0 /\ \A k \in 1 .. N : g[k] = g[k - 1] + all[k].cycles
    BY <1>1, <1>3 DEF IsSum
  <2>2. N <= N
    BY <1>1
  <2>3. QED
    BY <1>1, <1>2, <2>1, <2>2, SumIsUnique
<1>5. g[N + 1] = g[N] + t.cycles
  BY <1>1, <1>3 DEF IsSum
<1>6. QED
  BY <1>2, <1>3, <1>4, <1>5 DEF more

(* Another test joins the fixed ones or the random ones.                   *)
LEMMA TestJoins ==
  ASSUME tests \in Seq(TestType), NEW t \in TestType, tests' = Append(tests, t)
  PROVE  LET n == Len(tests) + 1 IN
         /\ n \in Nat /\ Len(tests') = n
         /\ n \notin FixedOnes /\ n \notin RandomOnes
         /\ t.fixed => /\ FixedOnes' = FixedOnes \cup {n} /\ RandomOnes' = RandomOnes
                       /\ Passing(FixedOnes)' = IF t.validated
                                                THEN Passing(FixedOnes) \cup {n}
                                                ELSE Passing(FixedOnes)
                       /\ Passing(RandomOnes)' = Passing(RandomOnes)
         /\ ~t.fixed => /\ RandomOnes' = RandomOnes \cup {n} /\ FixedOnes' = FixedOnes
                        /\ Passing(RandomOnes)' = IF t.validated
                                                  THEN Passing(RandomOnes) \cup {n}
                                                  ELSE Passing(RandomOnes)
                        /\ Passing(FixedOnes)' = Passing(FixedOnes)
         /\ \A k \in FixedOnes \cup RandomOnes : tests'[k] = tests[k] /\ tests[k].cycles \in Nat
         /\ tests'[n] = t
<1> DEFINE N == Len(tests)
<1>1. /\ N \in Nat /\ DOMAIN tests = 1 .. N /\ DOMAIN tests' = 1 .. N + 1
      /\ tests' \in Seq(TestType) /\ Len(tests') = N + 1
      /\ \A k \in 1 .. N : tests'[k] = tests[k]
      /\ tests'[N + 1] = t
  BY AppendProperties, LenProperties
<1>2. /\ 1 .. N + 1 = (1 .. N) \cup {N + 1} /\ N + 1 \notin 1 .. N
      /\ \A k \in 1 .. N : tests[k] \in TestType
  BY <1>1, ElementOfSeq
<1> HIDE DEF N
<1>3. FixedOnes \cup RandomOnes = 1 .. N /\ FixedOnes \cap RandomOnes = {}
  BY <1>1 DEF FixedOnes, RandomOnes
<1>4. ASSUME t.fixed
      PROVE  FixedOnes' = FixedOnes \cup {N + 1} /\ RandomOnes' = RandomOnes
  BY <1>1, <1>2, <1>4 DEF FixedOnes, RandomOnes
<1>5. ASSUME ~t.fixed
      PROVE  FixedOnes' = FixedOnes /\ RandomOnes' = RandomOnes \cup {N + 1}
  BY <1>1, <1>2, <1>5 DEF FixedOnes, RandomOnes
<1>6. /\ FixedOnes' = FixedOnes => Passing(FixedOnes)' = Passing(FixedOnes)
      /\ RandomOnes' = RandomOnes => Passing(RandomOnes)' = Passing(RandomOnes)
  BY <1>1, <1>3 DEF Passing
<1>7. FixedOnes' = FixedOnes \cup {N + 1} =>
        Passing(FixedOnes)' = IF t.validated THEN Passing(FixedOnes) \cup {N + 1}
                              ELSE Passing(FixedOnes)
  BY <1>1, <1>3 DEF Passing
<1>8. RandomOnes' = RandomOnes \cup {N + 1} =>
        Passing(RandomOnes)' = IF t.validated THEN Passing(RandomOnes) \cup {N + 1}
                               ELSE Passing(RandomOnes)
  BY <1>1, <1>3 DEF Passing
<1>9. \A k \in 1 .. N : tests[k].cycles \in Nat
  BY <1>2 DEF TestType
<1>10. QED
  BY <1>1, <1>2, <1>3, <1>4, <1>5, <1>6, <1>7, <1>8, <1>9 DEF N

LEMMA TestsFinite ==
  ASSUME tests \in Seq(TestType)
  PROVE  /\ IsFiniteSet(FixedOnes) /\ IsFiniteSet(RandomOnes)
         /\ IsFiniteSet(Passing(RandomOnes))
         /\ Cardinality(RandomOnes) \in Nat /\ Cardinality(Passing(RandomOnes)) \in Nat
         /\ Cardinality(Passing(RandomOnes)) <= Cardinality(RandomOnes)
         /\ Cardinality(Passing(RandomOnes)) = Cardinality(RandomOnes) =>
              Passing(RandomOnes) = RandomOnes
         /\ RandomOnes = {} => FixedOnes = 1 .. Len(tests)
                               /\ Cardinality(FixedOnes) = Len(tests)
<1>1. Len(tests) \in Nat /\ DOMAIN tests = 1 .. Len(tests)
  BY LenProperties
<1>2. IsFiniteSet(1 .. Len(tests)) /\ Cardinality(1 .. Len(tests)) = Len(tests)
  BY <1>1, FS_Interval
<1>3. FixedOnes \in SUBSET (1 .. Len(tests)) /\ RandomOnes \in SUBSET (1 .. Len(tests))
  BY <1>1 DEF FixedOnes, RandomOnes
<1>4. Passing(RandomOnes) \in SUBSET RandomOnes
  BY DEF Passing
<1>5. RandomOnes = {} => FixedOnes = 1 .. Len(tests)
  BY <1>1 DEF FixedOnes, RandomOnes
<1>6. IsFiniteSet(FixedOnes) /\ IsFiniteSet(RandomOnes)
  BY <1>2, <1>3, FS_Subset
<1>7. QED
  BY <1>2, <1>4, <1>5, <1>6, FS_Subset, FS_CardinalityType

(* The most cycles, when one more may have passed.                         *)
LEMMA GreatestGrows ==
  ASSUME NEW P, NEW ts, NEW us, NEW n, NEW m \in Nat, NEW c \in Nat, NEW g,
         g \in {m, c}, g >= m, g >= c,
         \A k \in P : us[k] = ts[k] /\ ts[k].cycles \in Nat,
         us[n].cycles = c,
         m = 0 \/ \E k \in P : ts[k].cycles = m,
         \A k \in P : ts[k].cycles <= m
  PROVE  /\ g = 0 \/ \E k \in P \cup {n} : us[k].cycles = g
         /\ \A k \in P \cup {n} : us[k].cycles <= g
<1>1. ASSUME NEW k \in P \cup {n} PROVE us[k].cycles <= g
  <2>1. CASE k = n
    BY <2>1
  <2>2. CASE k \in P
    <3>1. us[k].cycles = ts[k].cycles /\ ts[k].cycles \in Nat /\ ts[k].cycles <= m
      BY <2>2
    <3> HIDE <2>2
    <3>2. QED
      BY <3>1
  <2>3. QED
    BY <2>1, <2>2
<1>2. g = 0 \/ \E k \in P \cup {n} : us[k].cycles = g
  OBVIOUS
<1>3. QED
  BY <1>1, <1>2

(* It is what ScoreOwn calls the worst.                                    *)
LEMMA GreatestIsWorst ==
  ASSUME NEW S, NEW m \in Nat, Greatest(m, S),
         \A k \in S : tests[k].cycles \in Nat
  PROVE  Worst(S) = m
<1> DEFINE C == {0} \cup {tests[k].cycles : k \in Passing(S)}
<1>1. Passing(S) \subseteq S
  BY DEF Passing
<1>2. C \in SUBSET Int /\ m \in C
  BY <1>1 DEF Greatest
<1>3. \A x \in C : m >= x
  BY <1>1 DEF Greatest
<1>4. Worst(S) = Max(C)
  BY DEF Worst
<1> HIDE DEF C
<1>5. QED
  BY <1>2, <1>3, <1>4, MaxOf

-----------------------------------------------------------------------------
(* The steps, and the score                                                *)

LEMMA IdleScore == at' \notin Scoring => ScoreInv'
BY DEF Scoring, ScoreInv, OnlyPassed, NoneRandomYet, TotalSoFar, FixedCycles,
       FixedVerdict, RandomScore, ScoreOwn

LEMMA InitScore == Init => ScoreInv
BY DEF Init, Scoring, ScoreInv, OnlyPassed, NoneRandomYet, TotalSoFar,
       FixedCycles, FixedVerdict, RandomScore, ScoreOwn

LEMMA ParsingScore == IInv /\ ParseCode => ScoreInv'
<1> SUFFICES ASSUME IInv, ParseCode PROVE ScoreInv'
  OBVIOUS
<1>1. /\ tests' = <<>> /\ taken' = <<>> /\ cmd' = cmd /\ target_level' = target_level
      /\ total_cycles' = 0 /\ random_cycles_limit' = cmd.limit
      /\ sc' = [no_score EXCEPT !.validated = cmd.run_fixed /\ Solution.parses]
  BY DEF ParseCode, Begins, config, level
<1>2. CASE Caught
  <2>1. at' \notin Scoring
    BY <1>2 DEF Caught, Done, Scoring
  <2>2. QED
    BY <2>1, IdleScore
<1>3. CASE Solution.parses /\ at' = IF cmd.run_fixed THEN "fixed" ELSE "gate"
  <2>1. /\ sc'.validated = cmd.run_fixed /\ sc'.cycles = 0
        /\ <<sc'.ran, sc'.valid>> = <<0, 0>> /\ sc'.cheat = FALSE /\ sc'.hardcoded = FALSE
        /\ cmd.run_fixed \in BOOLEAN
    <3>1. cmd.run_fixed \in BOOLEAN
      BY CommandTypes DEF IInv, Typed
    <3>2. (cmd.run_fixed /\ Solution.parses) = cmd.run_fixed
      BY <1>3, <3>1
    <3>3. QED
      BY <1>1, <3>1, <3>2 DEF no_score
  <2>2. DOMAIN tests' = {} /\ Len(tests') = 0
    BY <1>1
  <2>3. FixedOnes' = {} /\ RandomOnes' = {}
    BY <2>2 DEF FixedOnes, RandomOnes
  <2>4. Passing(FixedOnes)' = {}
    BY <2>3 DEF Passing
  <2>5. OnlyPassed' /\ NoneRandomYet'
    BY <1>1, <1>3, <2>1, <2>2, <2>3, <2>4 DEF OnlyPassed, NoneRandomYet
  <2>6. Greatest(sc.cycles, FixedOnes)'
    BY <2>1, <2>4 DEF Greatest
  <2>7. total_cycles' = CyclesOf(tests')
    BY <1>1, NoCycles
  <2>8. TotalSoFar' /\ FixedCycles' /\ FixedVerdict'
    BY <1>1, <1>3, <2>1, <2>3, <2>4, <2>6, <2>7
    DEF TotalSoFar, FixedCycles, FixedVerdict
  <2>9. RandomScore' /\ ScoreOwn'
    BY <1>3 DEF RandomScore, ScoreOwn
  <2>10. QED
    BY <2>5, <2>8, <2>9 DEF ScoreInv
<1>4. QED
  BY <1>2, <1>3 DEF ParseCode, Begins

LEMMA FixedTestScore == IInv /\ ScoreInv /\ FixedTest => ScoreInv'
<1> SUFFICES ASSUME IInv, ScoreInv, FixedTest PROVE ScoreInv'
  OBVIOUS
<1>1. PICK s \in TestScore(cmd.limit) :
        /\ Ran(s)
        /\ sc' = [sc EXCEPT !.validated = s.validated, !.cycles = Slowest(sc, s)]
        /\ at' = IF LastFixed(s) THEN "gate" ELSE "fixed"
  BY DEF FixedTest
<1>2. /\ at = "fixed"
      /\ UNCHANGED <<cmd, target_level, random_cycles_limit, stop_requested, taken>>
  BY DEF FixedTest, config, level
<1>3. /\ sc \in ScoreType /\ tests \in Seq(TestType) /\ total_cycles \in Nat
      /\ cmd.limit \in Nat
  BY CommandTypes DEF IInv, Typed
<1>4. s.validated \in BOOLEAN /\ s.cycles \in Nat
  <2>1. Max({1, cmd.limit}) \in Nat
    BY <1>3, MaxOfTwo
  <2>2. QED
    BY <2>1 DEF TestScore
<1> DEFINE t == [fixed |-> TRUE, validated |-> s.validated, cycles |-> s.cycles]
<1>5. /\ t \in TestType /\ tests' = Append(tests, t) /\ total_cycles' = total_cycles + t.cycles
      /\ t.fixed = TRUE /\ t.validated = s.validated /\ t.cycles = s.cycles
  BY <1>1, <1>2, <1>4 DEF Ran, TestType
<1> HIDE DEF t
<1>9. Len(tests) \in Nat /\ Here' = Here
  BY <1>2, <1>3, LenProperties DEF Here
<1>5a. PICK n \in Nat : n = Len(tests) + 1
  BY <1>9
<1>6. /\ n \in Nat /\ Len(tests') = n /\ n \notin FixedOnes
      /\ FixedOnes' = FixedOnes \cup {n} /\ RandomOnes' = RandomOnes
      /\ Passing(FixedOnes)' = IF s.validated THEN Passing(FixedOnes) \cup {n}
                               ELSE Passing(FixedOnes)
      /\ \A k \in FixedOnes : tests'[k] = tests[k] /\ tests[k].cycles \in Nat
      /\ tests'[n] = t
  BY <1>3, <1>5, <1>5a, TestJoins
<1>7. /\ cmd.run_fixed /\ sc.validated
      /\ Passing(FixedOnes) = FixedOnes
      /\ Len(tests) <= IF Here.inputs THEN 2 ELSE 0
      /\ RandomOnes = {} /\ taken = <<>>
      /\ sc.ran = 0 /\ sc.valid = 0 /\ ~sc.cheat /\ ~sc.hardcoded
      /\ random_cycles_limit = cmd.limit
      /\ total_cycles = CyclesOf(tests)
      /\ Greatest(sc.cycles, FixedOnes)
  BY <1>2 DEF ScoreInv, OnlyPassed, NoneRandomYet, TotalSoFar, FixedCycles, Scoring
<1>8. /\ sc'.validated = s.validated /\ sc'.cycles = Slowest(sc, s)
      /\ sc'.ran = 0 /\ sc'.valid = 0 /\ ~sc'.cheat /\ ~sc'.hardcoded
  BY <1>1, <1>3, <1>7 DEF ScoreType
<1>10. total_cycles' = CyclesOf(tests')
  BY <1>3, <1>5, <1>7, MoreCycles
<1>11. Greatest(sc.cycles, FixedOnes)'
  <2>1. CASE s.validated
    <3>1. sc'.cycles = Max({sc.cycles, s.cycles}) /\ sc.cycles \in Nat
      BY <1>3, <1>8, <2>1 DEF Slowest, ScoreType
    <3>2. /\ \A k \in FixedOnes : tests'[k] = tests[k] /\ tests[k].cycles \in Nat
          /\ tests'[n].cycles = s.cycles
          /\ sc.cycles = 0 \/ \E k \in FixedOnes : tests[k].cycles = sc.cycles
          /\ \A k \in FixedOnes : tests[k].cycles <= sc.cycles
      BY <1>5, <1>6, <1>7 DEF Greatest
    <3>3. /\ \/ sc'.cycles = 0
             \/ \E k \in FixedOnes \cup {n} : tests'[k].cycles = sc'.cycles
          /\ \A k \in FixedOnes \cup {n} : tests'[k].cycles <= sc'.cycles
      <4> DEFINE P == FixedOnes
                 ts == tests
                 us == tests'
                 m == sc.cycles
                 c == s.cycles
                 g == sc'.cycles
      <4>1. /\ m \in Nat /\ c \in Nat
            /\ \A k \in P : us[k] = ts[k] /\ ts[k].cycles \in Nat
            /\ us[n].cycles = c
            /\ m = 0 \/ \E k \in P : ts[k].cycles = m
            /\ \A k \in P : ts[k].cycles <= m
        BY <1>4, <3>1, <3>2
      <4>2. g \in {m, c} /\ g >= m /\ g >= c
        BY <1>4, <3>1, MaxOfTwo
      <4> HIDE DEF P, ts, us, m, c, g
      <4>3. /\ g = 0 \/ \E k \in P \cup {n} : us[k].cycles = g
            /\ \A k \in P \cup {n} : us[k].cycles <= g
        BY ONLY <4>1, <4>2, GreatestGrows
      <4>4. QED
        BY <4>3 DEF P, us, g
    <3>4. Passing(FixedOnes)' = FixedOnes \cup {n}
      BY <1>6, <1>7, <2>1
    <3>5. QED
      BY <3>3, <3>4 DEF Greatest
  <2>2. CASE ~s.validated
    <3>1. sc'.cycles = sc.cycles /\ Passing(FixedOnes)' = FixedOnes
      BY <1>6, <1>7, <1>8, <2>2 DEF Slowest
    <3>2. QED
      BY <1>6, <1>7, <3>1 DEF Greatest
  <2>3. QED
    BY <2>1, <2>2
<1>12. OnlyPassed'
  <2> SUFFICES ASSUME at' = "fixed"
               PROVE  /\ cmd'.run_fixed /\ sc'.validated
                      /\ Passing(FixedOnes)' = FixedOnes'
                      /\ Len(tests') <= IF Here'.inputs THEN 2 ELSE 0
    BY DEF OnlyPassed
  <2>1. ~LastFixed(s)
    BY <1>1
  <2>2. s.validated /\ Len(tests) # 2 /\ Here.inputs
    BY <1>4, <2>1 DEF LastFixed
  <2>3. PICK len \in Nat : len = Len(tests)
    BY <1>9
  <2>4. n <= 2
    <3>1. len <= 2 /\ len # 2 /\ n = len + 1
      BY <1>5a, <1>7, <2>2, <2>3
    <3>2. QED
      BY <3>1
  <2>5. Len(tests') <= IF Here'.inputs THEN 2 ELSE 0
    BY <1>6, <1>9, <2>2, <2>4
  <2>6. QED
    BY <1>2, <1>6, <1>7, <1>8, <2>2, <2>5
<1>13. NoneRandomYet'
  BY <1>2, <1>6, <1>7, <1>8 DEF NoneRandomYet
<1>14. TotalSoFar' /\ FixedCycles' /\ FixedVerdict'
  <2>1. ASSUME at' = "gate"
        PROVE  /\ sc'.validated <=> Passing(FixedOnes)' = FixedOnes'
               /\ Passing(FixedOnes)' # {} \/ ~sc'.validated
               /\ sc'.validated /\ ~stop_requested' =>
                    Cardinality(FixedOnes') = IF Here'.inputs THEN 3 ELSE 1
    <3>1. LastFixed(s)
      BY <1>1, <2>1
    <3>2. ASSUME sc'.validated, ~stop_requested'
          PROVE  Cardinality(FixedOnes') = IF Here'.inputs THEN 3 ELSE 1
      <4>1. Len(tests) = 2 \/ ~Here.inputs
        BY <1>2, <1>8, <3>1, <3>2 DEF LastFixed
      <4>2. n = IF Here.inputs THEN 3 ELSE 1
        <5>1. PICK len \in Nat : len = Len(tests)
          BY <1>9
        <5>2. /\ len <= IF Here.inputs THEN 2 ELSE 0
              /\ len = 2 \/ ~Here.inputs
              /\ n = len + 1
          BY <1>5a, <1>7, <4>1, <5>1
        <5>3. QED
          BY <5>2
      <4>3. Cardinality(FixedOnes) = Len(tests) /\ IsFiniteSet(FixedOnes)
        BY <1>3, <1>7, TestsFinite
      <4>4. Cardinality(FixedOnes \cup {n}) = Len(tests) + 1
        BY <1>5a, <1>6, <4>3, FS_AddElement
      <4>5. QED
        BY <1>5a, <1>6, <1>9, <4>2, <4>4
    <3>3. QED
      BY <1>4, <1>6, <1>7, <1>8, <3>2
  <2>2. at' \in {"fixed", "gate"} /\ cmd'.run_fixed
    BY <1>1, <1>2, <1>7
  <2>3. QED
    BY <1>10, <1>11, <2>1, <2>2 DEF TotalSoFar, FixedCycles, FixedVerdict
<1>15. RandomScore' /\ ScoreOwn'
  BY <1>1 DEF RandomScore, ScoreOwn
<1>16. QED
  BY <1>12, <1>13, <1>14, <1>15 DEF ScoreInv

(* The sets of tests change only with the tests.                           *)
LEMMA SameTests ==
  ASSUME tests' = tests
  PROVE  /\ FixedOnes' = FixedOnes /\ RandomOnes' = RandomOnes
         /\ Passing(FixedOnes)' = Passing(FixedOnes)
         /\ Passing(RandomOnes)' = Passing(RandomOnes)
         /\ Worst(FixedOnes)' = Worst(FixedOnes) /\ Worst(RandomOnes)' = Worst(RandomOnes)
         /\ CyclesOf(tests)' = CyclesOf(tests)
<1>1. FixedOnes' = FixedOnes /\ RandomOnes' = RandomOnes
  BY DEF FixedOnes, RandomOnes
<1>2. /\ Passing(FixedOnes)' = Passing(FixedOnes)
      /\ Passing(RandomOnes)' = Passing(RandomOnes)
  BY <1>1 DEF Passing
<1>3. Worst(FixedOnes)' = Worst(FixedOnes) /\ Worst(RandomOnes)' = Worst(RandomOnes)
  BY <1>2 DEF Worst
<1>4. QED
  BY <1>1, <1>2, <1>3

LEMMA SignalScore == IInv /\ ScoreInv /\ (Signal \/ UNCHANGED vars) => ScoreInv'
<1> SUFFICES ASSUME IInv, ScoreInv, Signal \/ UNCHANGED vars PROVE ScoreInv'
  OBVIOUS
<1>1. /\ UNCHANGED <<cmd, target_level, at, sc, worst, total_cycles, random_cycles_limit,
                     seed_it, tests, taken>>
      /\ stop_requested' \in {TRUE, stop_requested}
  BY DEF Signal, vars, config, level, scores, history
<1>2. /\ FixedOnes' = FixedOnes /\ RandomOnes' = RandomOnes
      /\ Passing(FixedOnes)' = Passing(FixedOnes)
      /\ Passing(RandomOnes)' = Passing(RandomOnes)
      /\ Worst(FixedOnes)' = Worst(FixedOnes) /\ Worst(RandomOnes)' = Worst(RandomOnes)
  BY <1>1, SameTests
<1>3. Here' = Here
  BY <1>1 DEF Here
<1>4. OnlyPassed' /\ NoneRandomYet'
  BY <1>1, <1>2, <1>3 DEF ScoreInv, OnlyPassed, NoneRandomYet
<1>5. /\ Greatest(sc.cycles, FixedOnes)' <=> Greatest(sc.cycles, FixedOnes)
      /\ Greatest(worst.cycles, RandomOnes)' <=> Greatest(worst.cycles, RandomOnes)
  BY <1>1, <1>2 DEF Greatest
<1>6a. TotalSoFar'
  BY <1>1 DEF ScoreInv, TotalSoFar
<1>6b. FixedCycles'
  BY <1>1, <1>2, <1>5 DEF ScoreInv, FixedCycles
<1>6c. FixedVerdict'
  <2>1. ~stop_requested' => ~stop_requested
    BY <1>1
  <2>2. Cardinality(FixedOnes') = Cardinality(FixedOnes)
    BY <1>2
  <2>3. CASE cmd.run_fixed
    BY <1>1, <1>2, <1>3, <2>1, <2>2, <2>3 DEF ScoreInv, FixedVerdict
  <2>4. CASE ~cmd.run_fixed
    BY <1>1, <2>4 DEF ScoreInv, FixedVerdict
  <2>5. QED
    BY <2>3, <2>4
<1>7. RandomScore'
  BY <1>1, <1>2, <1>3, <1>5 DEF ScoreInv, RandomScore, has_achievement, effective_limit
<1>8. ScoreOwn'
  <2>1. CASE cmd.run_fixed
    BY <1>1, <1>2, <1>3, <2>1 DEF ScoreInv, ScoreOwn, Passing, Worst
  <2>2. CASE ~cmd.run_fixed
    BY <1>1, <1>2, <1>3, <2>2 DEF ScoreInv, ScoreOwn, Passing, Worst
  <2>3. QED
    BY <2>1, <2>2
<1>9. QED
  BY <1>4, <1>6a, <1>6b, <1>6c, <1>7, <1>8 DEF ScoreInv

LEMMA GateScore == IInv /\ ScoreInv /\ Gate => ScoreInv'
<1> SUFFICES ASSUME IInv, ScoreInv, Gate PROVE ScoreInv'
  OBVIOUS
<1> DEFINE ach == sc.validated /\ has_achievement(Here, sc)
<1>1. /\ at = "gate"
      /\ sc' = [sc EXCEPT !.achievement = ach]
      /\ UNCHANGED <<cmd, target_level, total_cycles, stop_requested, tests, taken>>
      /\ at' \in {"random", "report"}
  BY DEF Gate, config, level, history
<1>2. /\ sc \in ScoreType /\ tests \in Seq(TestType) /\ ach \in BOOLEAN
      /\ cmd.run_fixed \in BOOLEAN
  BY CommandTypes DEF IInv, Typed
<1>3. Here' = Here
  BY <1>1 DEF Here
<1> HIDE DEF ach
<1>4. /\ sc'.achievement = ach
      /\ sc'.validated = sc.validated /\ sc'.cycles = sc.cycles
      /\ sc'.ran = sc.ran /\ sc'.valid = sc.valid
      /\ sc'.cheat = sc.cheat /\ sc'.hardcoded = sc.hardcoded
      /\ sc.validated \in BOOLEAN /\ sc.cycles \in Nat
  BY <1>1, <1>2 DEF ScoreType
<1>5. /\ FixedOnes' = FixedOnes /\ RandomOnes' = RandomOnes
      /\ Passing(FixedOnes)' = Passing(FixedOnes)
      /\ Passing(RandomOnes)' = Passing(RandomOnes)
      /\ Worst(FixedOnes)' = Worst(FixedOnes) /\ Worst(RandomOnes)' = Worst(RandomOnes)
  BY <1>1, SameTests
<1>6. /\ RandomOnes = {} /\ taken = <<>>
      /\ sc.ran = 0 /\ sc.valid = 0 /\ ~sc.cheat /\ ~sc.hardcoded
      /\ random_cycles_limit = cmd.limit
      /\ total_cycles = CyclesOf(tests)
  BY <1>1 DEF ScoreInv, NoneRandomYet, TotalSoFar, Scoring
<1>7. /\ Passing(RandomOnes) = {} /\ Cardinality(RandomOnes) = 0
      /\ Cardinality(Passing(RandomOnes)) = 0
  <2>1. Passing(RandomOnes) = {}
    BY <1>6 DEF Passing
  <2>2. QED
    BY <1>6, <2>1, FS_EmptySet
<1>8. /\ cmd.run_fixed => /\ Greatest(sc.cycles, FixedOnes)
                          /\ sc.validated <=> Passing(FixedOnes) = FixedOnes
                          /\ Passing(FixedOnes) # {} \/ ~sc.validated
                          /\ sc.validated /\ ~stop_requested =>
                               Cardinality(FixedOnes) = IF Here.inputs THEN 3 ELSE 1
      /\ ~cmd.run_fixed => FixedOnes = {} /\ ~sc.validated /\ sc.cycles = 0
  BY <1>1 DEF ScoreInv, FixedCycles, FixedVerdict, Scoring
<1>9. OnlyPassed' /\ NoneRandomYet' /\ TotalSoFar'
  BY <1>1, <1>6 DEF OnlyPassed, NoneRandomYet, TotalSoFar
<1>10. Greatest(sc.cycles, FixedOnes)' <=> Greatest(sc.cycles, FixedOnes)
  BY <1>1, <1>4, <1>5 DEF Greatest
<1>11. FixedCycles'
  BY <1>1, <1>5, <1>8, <1>10 DEF FixedCycles
<1>12. FixedVerdict'
  <2>1. CASE cmd.run_fixed
    BY <1>1, <1>3, <1>4, <1>5, <1>8, <2>1 DEF FixedVerdict
  <2>2. CASE ~cmd.run_fixed
    BY <1>1, <1>4, <1>8, <2>2 DEF FixedVerdict
  <2>3. QED
    BY <2>1, <2>2
<1>13. CASE at' = "random"
  <2>1. /\ random_cycles_limit' =
             IF sc.validated THEN Min({cmd.limit, effective_limit(sc.cycles)})
             ELSE random_cycles_limit
        /\ seed_it' = Begin(IF Here.inputs THEN seed_ranges ELSE <<[begin |-> 0, end |-> 1]>>)
        /\ worst' = no_score /\ seed_ranges # <<>>
    BY <1>13 DEF Gate
  <2>2. /\ worst'.ran = 0 /\ worst'.valid = 0 /\ worst'.validated = FALSE
        /\ worst'.cycles = 0 /\ worst'.achievement = FALSE
    BY <2>1 DEF no_score
  <2>3. Greatest(worst.cycles, RandomOnes)'
    BY <1>5, <1>7, <2>2 DEF Greatest
  <2>4. ~AtEnd(seed_it)'
    BY <2>1, EmptySeq DEF AtEnd, Begin
  <2>5. sc'.achievement <=> sc'.validated /\ has_achievement(Here, sc)'
    BY <1>3, <1>4 DEF has_achievement, ach
  <2>6. random_cycles_limit' =
          IF sc'.validated THEN Min({cmd'.limit, effective_limit(sc.cycles)'})
          ELSE cmd'.limit
    BY <1>1, <1>4, <1>6, <2>1 DEF effective_limit
  <2>7. RandomScore'
    BY <1>5, <1>6, <1>7, <1>13, <2>2, <2>3, <2>4, <2>5, <2>6 DEF RandomScore
  <2>8. ScoreOwn'
    BY <1>13 DEF ScoreOwn
  <2>9. QED
    BY <1>9, <1>11, <1>12, <2>7, <2>8 DEF ScoreInv
<1>14. CASE at' = "report"
  <2>1. RandomScore'
    BY <1>14 DEF RandomScore
  <2>2. ~(taken' # <<>>) /\ ~sc'.cheat /\ ~sc'.hardcoded
        /\ <<sc'.ran, sc'.valid>> = <<0, 0>> /\ total_cycles' = CyclesOf(tests')
        /\ RandomOnes' = {}
        /\ Cardinality(RandomOnes)' = 0 /\ Cardinality(Passing(RandomOnes))' = 0
    BY <1>1, <1>4, <1>5, <1>6, <1>7
  <2>3. CASE cmd.run_fixed
    <3>1. sc'.cycles = Worst(FixedOnes)'
      <4>1. \A k \in FixedOnes : tests[k].cycles \in Nat
        <5>1. \A k \in DOMAIN tests : tests[k] \in TestType
          BY <1>2, EntryOfSeq
        <5>2. QED
          BY <5>1 DEF FixedOnes, TestType
      <4>2. Worst(FixedOnes) = sc.cycles
        BY <1>4, <1>8, <2>3, <4>1, GreatestIsWorst
      <4>3. QED
        BY <1>4, <1>5, <4>2
    <3>2. sc'.achievement <=> sc'.validated /\ Here'.busy /\ sc'.cycles > busy_cycles
      BY <1>3, <1>4 DEF has_achievement, ach
    <3>3. /\ sc'.validated <=> Passing(FixedOnes)' = FixedOnes' /\ Passing(FixedOnes)' # {}
          /\ sc'.validated /\ ~stop_requested' =>
               Cardinality(FixedOnes)' = IF Here'.inputs THEN 3 ELSE 1
      BY <1>1, <1>3, <1>4, <1>5, <1>8, <2>3
    <3>4. (IF cmd.run_fixed THEN FixedOnes ELSE RandomOnes)' = FixedOnes' /\ cmd'.run_fixed
      BY <1>1, <2>3
    <3>5. ScoreOwn'
      BY <2>2, <3>1, <3>2, <3>3, <3>4 DEF ScoreOwn, Passing, Worst
    <3>6. QED
      BY <1>9, <1>11, <1>12, <2>1, <3>5 DEF ScoreInv
  <2>4. CASE ~cmd.run_fixed
    <3>1. sc'.cycles = 0 /\ ~sc'.validated /\ ~cmd'.run_fixed
      BY <1>1, <1>4, <1>8, <2>4
    <3>2. Worst(RandomOnes)' = 0
      <4>1. Greatest(0, RandomOnes) /\ \A k \in RandomOnes : tests[k].cycles \in Nat
        BY <1>6, <1>7 DEF Greatest
      <4>2. Worst(RandomOnes) = 0
        BY <4>1, GreatestIsWorst
      <4>3. QED
        BY <1>5, <4>2
    <3>3. ~sc'.achievement
      BY <1>4, <1>8, <2>4 DEF ach
    <3>4. Passing(RandomOnes)' = {}
      BY <1>5, <1>7
    <3>5. ScoreOwn'
      BY <2>2, <3>1, <3>2, <3>3, <3>4 DEF ScoreOwn, Passing, Worst
    <3>6. QED
      BY <1>9, <1>11, <1>12, <2>1, <3>5 DEF ScoreInv
  <2>5. QED
    BY <2>3, <2>4
<1>15. QED
  BY <1>1, <1>13, <1>14

(* A step that runs no test to its end.                                    *)
LEMMA QuietScore ==
  ASSUME IInv, ScoreInv, at = "random", at' \in {"random", "flags"}, taken' # <<>>,
         UNCHANGED <<cmd, target_level, sc, worst, total_cycles, random_cycles_limit,
                     stop_requested, tests>>
  PROVE  ScoreInv'
<1>1. /\ FixedOnes' = FixedOnes /\ RandomOnes' = RandomOnes
      /\ Passing(FixedOnes)' = Passing(FixedOnes)
      /\ Passing(RandomOnes)' = Passing(RandomOnes)
  BY SameTests
<1>2. Here' = Here
  BY DEF Here
<1>3. OnlyPassed' /\ NoneRandomYet' /\ TotalSoFar' /\ ScoreOwn'
  BY DEF ScoreInv, OnlyPassed, NoneRandomYet, TotalSoFar, ScoreOwn, Scoring
<1>4. /\ Greatest(sc.cycles, FixedOnes)' <=> Greatest(sc.cycles, FixedOnes)
      /\ Greatest(worst.cycles, RandomOnes)' <=> Greatest(worst.cycles, RandomOnes)
  BY <1>1 DEF Greatest
<1>5. FixedCycles'
  BY <1>1, <1>4 DEF ScoreInv, FixedCycles, Scoring
<1>6. FixedVerdict'
  <2>1. CASE cmd.run_fixed
    BY <1>1, <1>2, <2>1 DEF ScoreInv, FixedVerdict
  <2>2. CASE ~cmd.run_fixed
    BY <2>2 DEF ScoreInv, FixedVerdict
  <2>3. QED
    BY <2>1, <2>2
<1>7. RandomScore'
  BY <1>1, <1>2, <1>4 DEF ScoreInv, RandomScore, has_achievement, effective_limit
<1>8. QED
  BY <1>3, <1>5, <1>6, <1>7 DEF ScoreInv

LEMMA SeedsOverScore == IInv /\ ScoreInv /\ SeedsOver => ScoreInv'
<1> SUFFICES ASSUME IInv, ScoreInv, SeedsOver PROVE ScoreInv'
  OBVIOUS
<1>1. /\ at = "random" /\ at' \in {"random", "flags"} /\ AtEnd(seed_it)
      /\ UNCHANGED <<cmd, target_level, sc, worst, total_cycles, random_cycles_limit,
                     stop_requested, tests, taken>>
  BY DEF SeedsOver, Returns, config, level, history
<1>2. taken' # <<>>
  BY <1>1 DEF ScoreInv, RandomScore
<1>3. QED
  BY <1>1, <1>2, QuietScore

LEMMA NoTestScore == IInv /\ ScoreInv /\ NoTest => ScoreInv'
<1> SUFFICES ASSUME IInv, ScoreInv, NoTest PROVE ScoreInv'
  OBVIOUS
<1>1. /\ at = "random" /\ at' = "random" /\ NextSeed
      /\ UNCHANGED <<cmd, target_level, sc, worst, total_cycles, random_cycles_limit,
                     stop_requested, tests>>
  BY DEF NoTest, NextSeed, config, level, scores
<1>2. QED
  BY <1>1, SeedTaken, QuietScore

LEMMA RandomTestScore == IInv /\ ScoreInv /\ RandomTest => ScoreInv'
<1> SUFFICES ASSUME IInv, ScoreInv, RandomTest PROVE ScoreInv'
  OBVIOUS
<1>1. /\ at = "random" /\ NextSeed
      /\ UNCHANGED <<cmd, target_level, sc, random_cycles_limit, stop_requested>>
  BY DEF RandomTest, NextSeed, config, level
<1>2. PICK s \in TestScore(random_cycles_limit) :
        IF stop_requested THEN Returns /\ UNCHANGED <<worst, total_cycles, tests>>
        ELSE Merge(s)
  BY DEF RandomTest
<1>3. taken' # <<>>
  BY <1>1, SeedTaken
<1>4. CASE stop_requested
  BY <1>1, <1>2, <1>3, <1>4, QuietScore DEF Returns
<1>5. CASE ~stop_requested
  <2>1. /\ Ran(s) /\ at' \in {"flags", "random"}
        /\ worst' = [worst EXCEPT !.ran = @ + 1,
                                  !.valid = @ + (IF s.validated THEN 1 ELSE 0),
                                  !.validated = @ \/ s.validated,
                                  !.cycles = Slowest(worst, s)]
    BY <1>1, <1>2, <1>5 DEF Merge, Returns
  <2>2. /\ worst \in ScoreType /\ tests \in Seq(TestType) /\ total_cycles \in Nat
        /\ random_cycles_limit \in Nat /\ sc \in ScoreType
    BY DEF IInv, Typed
  <2>3. /\ s.validated \in BOOLEAN /\ s.cycles \in Nat
        /\ Max({1, random_cycles_limit}) \in Nat
        /\ s.cycles <= Max({1, random_cycles_limit})
    <3>1. Max({1, random_cycles_limit}) \in Nat
      BY <2>2, MaxOfTwo
    <3>2. QED
      BY <3>1 DEF TestScore
  <2> DEFINE t == [fixed |-> FALSE, validated |-> s.validated, cycles |-> s.cycles]
  <2>4. /\ t \in TestType /\ tests' = Append(tests, t)
        /\ total_cycles' = total_cycles + t.cycles
        /\ t.fixed = FALSE /\ t.validated = s.validated /\ t.cycles = s.cycles
    BY <1>1, <2>1, <2>3 DEF Ran, TestType
  <2> HIDE DEF t
  <2>5. PICK n \in Nat : n = Len(tests) + 1
    BY <2>2, LenProperties
  <2>6. /\ n \notin RandomOnes
        /\ RandomOnes' = RandomOnes \cup {n} /\ FixedOnes' = FixedOnes
        /\ Passing(RandomOnes)' = IF s.validated THEN Passing(RandomOnes) \cup {n}
                                  ELSE Passing(RandomOnes)
        /\ Passing(FixedOnes)' = Passing(FixedOnes)
        /\ \A k \in FixedOnes \cup RandomOnes :
             tests'[k] = tests[k] /\ tests[k].cycles \in Nat
        /\ tests'[n] = t
    BY <2>2, <2>4, <2>5, TestJoins
  <2>7. /\ sc.achievement <=> sc.validated /\ has_achievement(Here, sc)
        /\ worst.ran = Cardinality(RandomOnes)
        /\ worst.valid = Cardinality(Passing(RandomOnes))
        /\ worst.validated <=> Passing(RandomOnes) # {}
        /\ Greatest(worst.cycles, RandomOnes)
        /\ ~worst.achievement
        /\ random_cycles_limit =
             IF sc.validated THEN Min({cmd.limit, effective_limit(sc.cycles)})
             ELSE cmd.limit
        /\ \A k \in RandomOnes : tests[k].cycles <= Max({1, random_cycles_limit})
        /\ total_cycles = CyclesOf(tests)
    BY <1>1 DEF ScoreInv, RandomScore, TotalSoFar, Scoring
  <2>8. Here' = Here
    BY <1>1 DEF Here
  <2>9. OnlyPassed' /\ NoneRandomYet' /\ ScoreOwn'
    BY <2>1 DEF OnlyPassed, NoneRandomYet, ScoreOwn
  <2>10. TotalSoFar'
    <3>1. CyclesOf(tests') = CyclesOf(tests) + t.cycles
      BY <2>2, <2>4, MoreCycles
    <3>2. QED
      BY <2>4, <2>7, <3>1 DEF TotalSoFar
  <2>11. Passing(FixedOnes) \subseteq FixedOnes /\ Passing(RandomOnes) \subseteq RandomOnes
    BY DEF Passing
  <2>12. Greatest(sc.cycles, FixedOnes)' <=> Greatest(sc.cycles, FixedOnes)
    <3>1. \A k \in Passing(FixedOnes) : tests'[k].cycles = tests[k].cycles
      BY <2>6, <2>11
    <3>2. QED
      BY <1>1, <2>6, <3>1 DEF Greatest
  <2>13. FixedCycles'
    BY <1>1, <2>1, <2>6, <2>12 DEF ScoreInv, FixedCycles, Scoring
  <2>14. FixedVerdict'
    <3>1. CASE cmd.run_fixed
      BY <1>1, <2>1, <2>6, <2>8, <3>1 DEF ScoreInv, FixedVerdict
    <3>2. CASE ~cmd.run_fixed
      BY <1>1, <3>2 DEF ScoreInv, FixedVerdict
    <3>3. QED
      BY <3>1, <3>2
  <2>15. /\ worst'.ran = worst.ran + 1
         /\ worst'.valid = worst.valid + (IF s.validated THEN 1 ELSE 0)
         /\ worst'.validated = (worst.validated \/ s.validated)
         /\ worst'.cycles = Slowest(worst, s)
         /\ worst'.achievement = worst.achievement
         /\ worst.cycles \in Nat
    BY <2>1, <2>2 DEF ScoreType
  <2>16. /\ worst'.ran = Cardinality(RandomOnes')
         /\ worst'.valid = Cardinality(Passing(RandomOnes)')
    <3>1. IsFiniteSet(RandomOnes) /\ IsFiniteSet(Passing(RandomOnes))
          /\ Cardinality(RandomOnes) \in Nat /\ Cardinality(Passing(RandomOnes)) \in Nat
      BY <2>2, TestsFinite
    <3>2. n \notin Passing(RandomOnes)
      BY <2>6, <2>11
    <3>3. /\ Cardinality(RandomOnes \cup {n}) = Cardinality(RandomOnes) + 1
          /\ Cardinality(Passing(RandomOnes) \cup {n}) = Cardinality(Passing(RandomOnes)) + 1
      BY <2>6, <3>1, <3>2, FS_AddElement
    <3>4. worst'.ran = Cardinality(RandomOnes')
      BY <2>6, <2>7, <2>15, <3>3
    <3>5. CASE s.validated
      BY <2>6, <2>7, <2>15, <3>3, <3>4, <3>5
    <3>6. CASE ~s.validated
      BY <2>6, <2>7, <2>15, <3>1, <3>4, <3>6
    <3>7. QED
      BY <3>5, <3>6
  <2>17. worst'.validated <=> Passing(RandomOnes)' # {}
    BY <2>3, <2>6, <2>7, <2>15
  <2>18. Greatest(worst.cycles, RandomOnes)'
    <3>1. CASE s.validated
      <4> DEFINE P == Passing(RandomOnes)
                 ts == tests
                 us == tests'
                 m == worst.cycles
                 c == s.cycles
                 g == worst'.cycles
      <4>1. /\ m \in Nat /\ c \in Nat
            /\ \A k \in P : us[k] = ts[k] /\ ts[k].cycles \in Nat
            /\ us[n].cycles = c
            /\ m = 0 \/ \E k \in P : ts[k].cycles = m
            /\ \A k \in P : ts[k].cycles <= m
        BY <2>3, <2>4, <2>6, <2>7, <2>11, <2>15 DEF Greatest
      <4>2. g \in {m, c} /\ g >= m /\ g >= c
        BY <2>3, <2>15, <3>1, MaxOfTwo DEF Slowest
      <4>3. Passing(RandomOnes)' = P \cup {n}
        BY <2>6, <3>1
      <4> HIDE DEF P, ts, us, m, c, g
      <4>4. /\ g = 0 \/ \E k \in P \cup {n} : us[k].cycles = g
            /\ \A k \in P \cup {n} : us[k].cycles <= g
        BY ONLY <4>1, <4>2, GreatestGrows
      <4>5. QED
        BY <4>3, <4>4 DEF us, g, Greatest
    <3>2. CASE ~s.validated
      <4>1. worst'.cycles = worst.cycles
        BY <2>15, <3>2 DEF Slowest
      <4>2. \A k \in Passing(RandomOnes) : tests'[k].cycles = tests[k].cycles
        BY <2>6, <2>11
      <4>3. QED
        BY <2>6, <2>7, <3>2, <4>1, <4>2 DEF Greatest
    <3>3. QED
      BY <3>1, <3>2
  <2>19. \A k \in RandomOnes' : tests'[k].cycles <= Max({1, random_cycles_limit'})
    <3> SUFFICES ASSUME NEW k \in RandomOnes \cup {n}
                 PROVE  tests'[k].cycles <= Max({1, random_cycles_limit})
      BY <1>1, <2>6
    <3>1. CASE k = n
      BY <2>3, <2>4, <2>6, <3>1
    <3>2. CASE k \in RandomOnes
      BY <2>6, <2>7, <3>2
    <3>3. QED
      BY <3>1, <3>2
  <2>20. sc'.achievement <=> sc'.validated /\ has_achievement(Here, sc)'
    BY <1>1, <2>7, <2>8 DEF has_achievement
  <2>21. random_cycles_limit' =
           IF sc'.validated THEN Min({cmd'.limit, effective_limit(sc.cycles)'})
           ELSE cmd'.limit
    BY <1>1, <2>7 DEF effective_limit
  <2>22. RandomScore'
    BY <1>3, <2>7, <2>15, <2>16, <2>17, <2>18, <2>19, <2>20, <2>21 DEF RandomScore
  <2>23. QED
    BY <2>9, <2>10, <2>13, <2>14, <2>22 DEF ScoreInv
<1>6. QED
  BY <1>4, <1>5

LEMMA FlagsScore == IInv /\ ScoreInv /\ Flags => ScoreInv'
<1> SUFFICES ASSUME IInv, ScoreInv, Flags PROVE ScoreInv'
  OBVIOUS
<1> DEFINE base == IF cmd.run_fixed
                   THEN [sc EXCEPT !.ran = worst.ran, !.valid = worst.valid]
                   ELSE worst
           c == worst.ran = 0 \/ worst.ran # worst.valid
           h == worst.valid <= (worst.ran * cmd.cheat_num) \div cmd.cheat_den
           ran == Cardinality(RandomOnes)
           passed == Cardinality(Passing(RandomOnes))
<1>1. /\ at = "flags" /\ at' = "report"
      /\ UNCHANGED <<cmd, target_level, total_cycles, stop_requested, tests, taken>>
      /\ sc' = [base EXCEPT !.cheat = c, !.hardcoded = h]
  BY DEF Flags, config, level, history
<1>2. /\ sc \in ScoreType /\ worst \in ScoreType /\ tests \in Seq(TestType)
      /\ cmd \in Commands /\ c \in BOOLEAN /\ h \in BOOLEAN
  BY DEF IInv, Typed
<1>3. Here' = Here
  BY <1>1 DEF Here
<1>4. /\ FixedOnes' = FixedOnes /\ RandomOnes' = RandomOnes
      /\ Passing(FixedOnes)' = Passing(FixedOnes)
      /\ Passing(RandomOnes)' = Passing(RandomOnes)
      /\ Worst(FixedOnes)' = Worst(FixedOnes) /\ Worst(RandomOnes)' = Worst(RandomOnes)
  BY <1>1, SameTests
<1>5. /\ sc.achievement <=> sc.validated /\ has_achievement(Here, sc)
      /\ worst.ran = ran /\ worst.valid = passed
      /\ worst.validated <=> Passing(RandomOnes) # {}
      /\ Greatest(worst.cycles, RandomOnes)
      /\ ~worst.achievement
      /\ random_cycles_limit =
           IF sc.validated THEN Min({cmd.limit, effective_limit(sc.cycles)})
           ELSE cmd.limit
      /\ \A k \in RandomOnes : tests[k].cycles <= Max({1, random_cycles_limit})
      /\ total_cycles = CyclesOf(tests) /\ taken # <<>>
  BY <1>1 DEF ScoreInv, RandomScore, TotalSoFar, Scoring
<1>6. /\ cmd.run_fixed => /\ Greatest(sc.cycles, FixedOnes)
                          /\ sc.validated <=> Passing(FixedOnes) = FixedOnes
                          /\ Passing(FixedOnes) # {} \/ ~sc.validated
                          /\ sc.validated /\ ~stop_requested =>
                               Cardinality(FixedOnes) = IF Here.inputs THEN 3 ELSE 1
      /\ ~cmd.run_fixed => FixedOnes = {} /\ ~sc.validated /\ sc.cycles = 0
  BY <1>1 DEF ScoreInv, FixedCycles, FixedVerdict, Scoring
<1>7. OnlyPassed' /\ NoneRandomYet' /\ TotalSoFar' /\ FixedVerdict' /\ RandomScore'
  BY <1>1, <1>5 DEF OnlyPassed, NoneRandomYet, TotalSoFar, FixedVerdict, RandomScore
<1>8. FixedCycles'
  BY <1>1, <1>4, <1>6 DEF FixedCycles
<1>9. /\ ran \in Nat /\ passed \in Nat /\ passed <= ran
  BY <1>2, TestsFinite
<1> HIDE DEF ran, passed, base, c, h
<1>10. /\ base \in ScoreType
       /\ cmd.run_fixed => /\ base.ran = worst.ran /\ base.valid = worst.valid
                           /\ base.validated = sc.validated /\ base.cycles = sc.cycles
                           /\ base.achievement = sc.achievement
       /\ ~cmd.run_fixed => base = worst
  BY <1>2 DEF base, ScoreType
<1>11. /\ sc'.cheat = c /\ sc'.hardcoded = h
       /\ sc'.ran = base.ran /\ sc'.valid = base.valid /\ sc'.validated = base.validated
       /\ sc'.cycles = base.cycles /\ sc'.achievement = base.achievement
  BY <1>1, <1>2, <1>10 DEF ScoreType
<1>12. <<sc'.ran, sc'.valid>> = <<ran, passed>>
  BY <1>5, <1>10, <1>11
<1>13. sc'.cheat <=> passed < ran \/ ran = 0
  <2>1. c <=> ran = 0 \/ ran # passed
    BY <1>5 DEF c
  <2>2. ran # passed <=> passed < ran
    BY <1>9
  <2>3. QED
    BY <1>11, <2>1, <2>2
<1>14. sc'.hardcoded <=> passed * cmd.cheat_den <= ran * cmd.cheat_num
  <2>1. cmd.cheat_num \in Nat /\ cmd.cheat_den \in Nat \ {0}
    BY <1>2, SimulatorAssumption DEF IsCommand
  <2>2. h <=> passed <= (ran * cmd.cheat_num) \div cmd.cheat_den
    BY <1>5 DEF h
  <2> DEFINE b == ran * cmd.cheat_num
             d == cmd.cheat_den
  <2>3. b \in Nat /\ d \in Nat \ {0}
    BY <1>9, <2>1
  <2> HIDE DEF b, d
  <2>4. passed <= b \div d <=> passed * d <= b
    BY <1>9, <2>3, BelowQuotient
  <2>5. QED
    BY <1>11, <2>2, <2>4 DEF b, d
<1>15. \A k \in FixedOnes \cup RandomOnes : tests[k].cycles \in Nat
  <2>1. \A k \in DOMAIN tests : tests[k] \in TestType
    BY <1>2, EntryOfSeq
  <2>2. QED
    BY <2>1 DEF FixedOnes, RandomOnes, TestType
<1>16. ran = Cardinality(RandomOnes)' /\ passed = Cardinality(Passing(RandomOnes))'
       /\ total_cycles' = CyclesOf(tests') /\ taken' # <<>>
  BY <1>1, <1>4, <1>5 DEF ran, passed
<1>17. \A k \in RandomOnes' : tests'[k].cycles > 1 =>
          /\ tests'[k].cycles <= cmd'.limit
          /\ cmd'.run_fixed /\ sc'.validated =>
               tests'[k].cycles * cmd'.multiplier_den <= sc'.cycles * cmd'.multiplier_num
  <2> SUFFICES ASSUME NEW k \in RandomOnes, tests[k].cycles > 1
               PROVE  /\ tests[k].cycles <= cmd.limit
                      /\ cmd.run_fixed /\ sc.validated =>
                           tests[k].cycles * cmd.multiplier_den
                             <= sc.cycles * cmd.multiplier_num
    BY <1>1, <1>4, <1>10, <1>11
  <2> DEFINE a == tests[k].cycles
             l == random_cycles_limit
             q == effective_limit(sc.cycles)
             p == sc.cycles * cmd.multiplier_num
             d == cmd.multiplier_den
  <2>1. /\ a \in Nat /\ a > 1 /\ l \in Nat /\ cmd.limit \in Nat
        /\ sc.cycles \in Nat /\ cmd.multiplier_num \in Nat /\ d \in Nat \ {0}
    BY <1>2, <1>15, CommandTypes DEF IInv, Typed, ScoreType
  <2>2. p \in Nat /\ q = p \div d
    BY <2>1 DEF effective_limit
  <2>3. q \in Nat
    BY <2>1, EffectiveLimitType DEF IInv
  <2>4. a <= Max({1, l})
    BY <1>5
  <2>5. l = IF sc.validated THEN Min({cmd.limit, q}) ELSE cmd.limit
    BY <1>5
  <2> HIDE DEF a, l, q, p, d
  <2>6. a <= l
    BY <2>1, <2>4, MaxOfTwo
  <2>7. a <= cmd.limit /\ (sc.validated => a <= q)
    BY <2>1, <2>3, <2>5, <2>6, MinOfTwo
  <2>8. sc.validated => a * d <= p
    BY <2>1, <2>2, <2>7, BelowQuotient
  <2>9. QED
    BY <2>7, <2>8 DEF a, d, p
<1>18. CASE cmd.run_fixed
  <2>1. sc'.cycles = Worst(FixedOnes)'
    <3>1. sc.cycles \in Nat
      BY <1>2 DEF ScoreType
    <3>2. Worst(FixedOnes) = sc.cycles
      BY <1>6, <1>15, <1>18, <3>1, GreatestIsWorst
    <3>3. QED
      BY <1>4, <1>10, <1>11, <1>18, <3>2
  <2>2. sc'.achievement <=> sc'.validated /\ Here'.busy /\ sc'.cycles > busy_cycles
    BY <1>3, <1>5, <1>10, <1>11, <1>18 DEF has_achievement
  <2>3. /\ sc'.validated <=> Passing(FixedOnes)' = FixedOnes' /\ Passing(FixedOnes)' # {}
        /\ sc'.validated /\ ~stop_requested' =>
             Cardinality(FixedOnes)' = IF Here'.inputs THEN 3 ELSE 1
    BY <1>1, <1>3, <1>4, <1>6, <1>10, <1>11, <1>18
  <2>4. (IF cmd.run_fixed THEN FixedOnes ELSE RandomOnes)' = FixedOnes' /\ cmd'.run_fixed
    BY <1>1, <1>18
  <2>5. ScoreOwn'
    BY <1>12, <1>13, <1>14, <1>16, <1>1, <1>17, <2>1, <2>2, <2>3, <2>4
       DEF ScoreOwn, Passing, Worst
  <2>6. QED
    BY <1>7, <1>8, <2>5 DEF ScoreInv
<1>19. CASE ~cmd.run_fixed
  <2>1. sc'.cycles = Worst(RandomOnes)'
    <3>1. worst.cycles \in Nat
      BY <1>2 DEF ScoreType
    <3>2. Worst(RandomOnes) = worst.cycles
      BY <1>5, <1>15, <3>1, GreatestIsWorst
    <3>3. QED
      BY <1>4, <1>10, <1>11, <1>19, <3>2
  <2>2. ~sc'.achievement /\ ~cmd'.run_fixed
    BY <1>1, <1>5, <1>10, <1>11, <1>19
  <2>3. sc'.validated <=> Passing(RandomOnes)' # {}
    BY <1>4, <1>5, <1>10, <1>11, <1>19
  <2>4. ScoreOwn'
    BY <1>12, <1>13, <1>14, <1>16, <1>1, <1>17, <1>19, <2>1, <2>2, <2>3
       DEF ScoreOwn, Passing, Worst
  <2>5. QED
    BY <1>7, <1>8, <2>4 DEF ScoreInv
<1>20. QED
  BY <1>18, <1>19

LEMMA NextScore == IInv /\ ScoreInv /\ [Next]_vars => ScoreInv'
<1>1. ASSUME DeduceLevel \/ ReadFile \/ TestThrows \/ Report PROVE ScoreInv'
  <2>1. at' \notin Scoring
    BY <1>1 DEF DeduceLevel, ReadFile, TestThrows, Report, Caught, Done, Scoring
  <2>2. QED
    BY <2>1, IdleScore
<1>2. QED
  BY <1>1, ParsingScore, FixedTestScore, GateScore, SeedsOverScore, NoTestScore,
     RandomTestScore, FlagsScore, SignalScore DEF Next, Main

(* Whatever solutions ran before, wherever the tests were broken off and   *)
(* for every limit and multiplier, the score printed is that of this       *)
(* solution's own tests (simulate_code, run_seed_ranges).                  *)
THEOREM ScoreAlwaysOwn == Spec => []ScoreOwn
<1>1. IInv /\ ScoreInv /\ [Next]_vars => ScoreInv'
  BY NextScore
<1>2. ScoreInv => ScoreOwn
  BY DEF ScoreInv
<1>3. QED
  BY <1>1, <1>2, InitScore, Always, PTL DEF Spec

-----------------------------------------------------------------------------
(* The inductive invariant of the seeds                                    *)

(* The seeds of g are those of the range r, in order.                      *)
Meets(r, g) ==
  /\ g \in Seq(Seed) /\ Len(g) \in 1 .. seed_max + 1 /\ r.begin \in Seed
  /\ r.end = wrap(r.begin + Len(g))
  /\ \A m \in 1 .. Len(g) : g[m] = wrap(r.begin + m - 1)

(* Laid end to end, the groups g make up the sequence all; group k begins  *)
(* after the first offset[k - 1] of it.                                    *)
LaysOut(offset, g, all) ==
  /\ offset[0] = 0 /\ Len(all) = offset[Len(g)]
  /\ \A k \in 1 .. Len(g) :
       /\ offset[k] = offset[k - 1] + Len(g[k]) /\ offset[k] <= Len(all)
       /\ \A m \in 1 .. Len(g[k]) : all[offset[k - 1] + m] = g[k][m]

(* The ranges walked, and the seeds asked for by each of them.             *)
Walked == IF Here.inputs THEN seed_ranges ELSE <<[begin |-> 0, end |-> 1]>>

Asking ==
  IF ~Here.inputs THEN <<<<0>>>>
  ELSE IF cmd.seeds = "ranges" THEN [k \in DOMAIN cmd.exprs |-> AskedBy(cmd.exprs[k])]
  ELSE <<AskedCounted(cmd.seed, cmd.count)>>

(* The ranges R ask for the seeds g[1], g[2], ..., together all.           *)
Plan(R, g, all) ==
  /\ R \in Seq(RangeType) /\ Len(R) \in Nat \ {0}
  /\ Len(g) = Len(R)
  /\ \A k \in 1 .. Len(R) : Meets(R[k], g[k])
  /\ all \in Seq(Seed)

(* The iterator i stands at seed m + 1 of range j + 1, or at the end, and  *)
(* the seeds t are those before.                                           *)
Stands(i, t, R, g, all, offset, j, m) ==
  /\ Len(i.it) = Len(R) - j
  /\ \A k \in 1 .. Len(R) - j : i.it[k] = R[j + k]
  /\ j < Len(R) => m < Len(g[j + 1]) /\ i.cur = wrap(R[j + 1].begin + m)
  /\ j = Len(R) => m = 0
  /\ Len(t) = offset[j] + m
  /\ \A k \in 1 .. Len(t) : t[k] = all[k]

Walks(i, t, R, g, all) ==
  \E offset \in [0 .. Len(g) -> Nat], j \in 0 .. Len(R), m \in Nat :
    LaysOut(offset, g, all) /\ Stands(i, t, R, g, all, offset, j, m)

SeedsInv ==
  /\ seed_ranges = SeedRangesOf(cmd)
  /\ SetupFails(cmd) => at = "exit"
  /\ at \in {"random", "flags"} =>
       /\ seed_ranges # <<>>
       /\ AskedSeeds # <<>> => Walks(seed_it, taken, Walked, Asking, AskedSeeds)

-----------------------------------------------------------------------------
(* The command line and the seeds it asks for                              *)

LEMMA FitsExact ==
  ASSUME NEW x \in Numeral, Fits(x)
  PROVE  Amount(x) \in Seed /\ parse_int(x) = Amount(x)
<1> DEFINE a == x.base
           d == x.multiplier
<1>1. a \in Nat /\ d \in Nat \ {0} /\ seed_max \in Nat
  BY SeedAssumption DEF Numeral
<1>2. a <= seed_max \div d
  BY DEF Fits
<1> HIDE DEF a, d
<1>3. a * d <= seed_max /\ a * d \in Nat /\ d * a = a * d
  BY <1>1, <1>2, BelowQuotient
<1> DEFINE p == a * d
<1> HIDE DEF p
<1>4. p \in 0 .. seed_max
  BY <1>1, <1>3 DEF p
<1>5. wrap(p) = p
  BY <1>4, WrapSmall
<1>6. x.multiplier * x.base = p /\ x.base * x.multiplier = p
  BY <1>3 DEF a, d, p
<1>7. QED
  BY <1>4, <1>5, <1>6 DEF parse_int, Seed, Amount

(* Half-open ranges whose ends wrap.                                       *)
LEMMA IntervalMeets ==
  ASSUME NEW l \in Seed, NEW h \in Seed, l <= h,
         NEW r, r.begin = l, r.end = wrap(h + 1)
  PROVE  Meets(r, Interval(l, h))
<1>1. l \in Nat /\ h \in Nat /\ h <= seed_max /\ seed_max \in Nat /\ h - l + 1 \in Nat
  BY SeedAssumption DEF Seed
<1>2. \A k \in 1 .. h - l + 1 : l + k - 1 \in Seed
  BY <1>1 DEF Seed
<1>3. Interval(l, h) \in [1 .. h - l + 1 -> Seed]
  BY <1>2 DEF Interval
<1>4. Interval(l, h) \in Seq(Seed) /\ Len(Interval(l, h)) = h - l + 1
  BY <1>1, <1>3, FunctionIsSeq
<1>5. \A k \in 1 .. h - l + 1 : wrap(l + k - 1) = l + k - 1
  BY <1>2, WrapSmall DEF Seed
<1>6. \A k \in 1 .. h - l + 1 : Interval(l, h)[k] = wrap(l + k - 1)
  BY <1>5 DEF Interval
<1>7. l + (h - l + 1) = h + 1 /\ h - l + 1 \in 1 .. seed_max + 1
  BY <1>1
<1>8. QED
  BY <1>4, <1>6, <1>7 DEF Meets

LEMMA ElementMeets ==
  ASSUME NEW x \in Element, ~Refused(x)
  PROVE  Meets(range_t(x), AskedBy(x))
<1> DEFINE l == Amount(x.from)
<1>1. /\ x.form \in {"single", "closed", "open"}
      /\ Fits(x.from)
      /\ x.form = "closed" => Fits(x.to)
      /\ x.form # "single" => ~(Upper(x) < parse_int(x.from))
      /\ x.from \in Numeral /\ x.to \in Numeral
  BY DEF Refused, Element
<1>2. l \in Seed /\ parse_int(x.from) = l
  BY <1>1, FitsExact
<1>3. seed_max \in Seed /\ seed_max \in Nat
  BY SeedAssumption DEF Seed
<1> HIDE DEF l
<1>4. CASE x.form = "single"
  <2> DEFINE g == <<l>>
  <2>1. g \in Seq(Seed) /\ Len(g) = 1 /\ g[1] = l
    BY <1>2
  <2> HIDE DEF g
  <2>2. range_t(x).begin = l /\ range_t(x).end = wrap(l + 1)
    BY <1>2, <1>4 DEF range_t
  <2>3. AskedBy(x) = g
    BY <1>4 DEF AskedBy, l, g
  <2>4. wrap(l) = l /\ 1 \in 1 .. seed_max + 1
    BY <1>2, <1>3, WrapSmall DEF Seed
  <2>5. \A m \in 1 .. Len(g) : g[m] = wrap(l + m - 1)
    <3> SUFFICES ASSUME NEW m \in 1 .. 1 PROVE g[m] = wrap(l + m - 1)
      BY <2>1
    <3>1. m = 1 /\ l + m - 1 = l
      BY <1>2 DEF Seed
    <3>2. QED
      BY <2>1, <2>4, <3>1
  <2>6. range_t(x).end = wrap(l + Len(g)) /\ Len(g) \in 1 .. seed_max + 1
    BY <2>1, <2>2, <2>4
  <2>7. QED
    BY <1>2, <2>1, <2>2, <2>3, <2>5, <2>6 DEF Meets
<1>5. CASE x.form \in {"closed", "open"}
  <2> DEFINE h == Upper(x)
  <2>1. h \in Seed
    BY <1>1, <1>3, <1>5, FitsExact DEF Upper
  <2>2. l <= h
    BY <1>1, <1>2, <1>5, <2>1 DEF Seed
  <2>3. range_t(x).begin = l /\ range_t(x).end = wrap(h + 1)
    BY <1>2, <1>5 DEF range_t
  <2>4. AskedBy(x) = Interval(l, h)
    <3>1. x.form = "closed" => h = Amount(x.to)
      BY <1>1, FitsExact DEF Upper
    <3>2. x.form = "open" => h = seed_max
      BY DEF Upper
    <3> HIDE DEF h
    <3>3. QED
      BY <1>5, <3>1, <3>2 DEF AskedBy, l
  <2> HIDE DEF h
  <2>5. QED
    BY <1>2, <2>1, <2>2, <2>3, <2>4, IntervalMeets
<1>6. QED
  BY <1>1, <1>4, <1>5

LEMMA CountMeets ==
  ASSUME NEW seed \in Seed, NEW count \in Numeral, Fits(count),
         AskedCounted(seed, count) # <<>>
  PROVE  Meets([begin |-> seed, end |-> wrap(seed + parse_int(count))],
               AskedCounted(seed, count))
<1> DEFINE N == Amount(count)
           g == [k \in 1 .. N |-> wrap(seed + k - 1)]
           r == [begin |-> seed, end |-> wrap(seed + N)]
<1>1. N \in Seed /\ parse_int(count) = N
  BY FitsExact
<1>2. AskedCounted(seed, count) = g
  BY DEF AskedCounted
<1>3. r.begin = seed /\ r.end = wrap(seed + N)
  OBVIOUS
<1> HIDE DEF N
<1>4. N \in Nat /\ N <= seed_max /\ seed \in Int /\ seed_max \in Nat
  BY <1>1, SeedAssumption DEF Seed
<1>5. \A k \in 1 .. N : wrap(seed + k - 1) \in Seed
  BY <1>4, WrapIsSeed
<1>6. g \in [1 .. N -> Seed] /\ \A k \in 1 .. N : g[k] = wrap(seed + k - 1)
  BY <1>5
<1> HIDE DEF g, r
<1>7. g \in Seq(Seed) /\ Len(g) = N
  BY <1>4, <1>6, FunctionIsSeq
<1>8. N # 0
  BY <1>2, <1>7, EmptySeq
<1>9. N \in 1 .. seed_max + 1
  BY <1>4, <1>8
<1>10. Meets(r, g)
  BY <1>3, <1>6, <1>7, <1>9 DEF Meets
<1>11. QED
  BY <1>1, <1>2, <1>10 DEF r

-----------------------------------------------------------------------------
(* The seeds asked for, range by range                                     *)

LEMMA PointwiseSame ==
  ASSUME NEW S, NEW s \in Seq(S), NEW t \in Seq(S), Len(s) = Len(t),
         \A i \in 1 .. Len(s) : s[i] = t[i]
  PROVE  s = t
<1>1. s \in [1 .. Len(s) -> S] /\ t \in [1 .. Len(t) -> S]
  BY LenProperties
<1>2. QED
  BY <1>1

LEMMA ConcatSplits ==
  ASSUME NEW S, NEW s \in Seq(S), NEW t \in Seq(S)
  PROVE  /\ s \o t \in Seq(S) /\ Len(s \o t) = Len(s) + Len(t)
         /\ \A i \in 1 .. Len(s) : (s \o t)[i] = s[i]
         /\ \A i \in 1 .. Len(t) : (s \o t)[Len(s) + i] = t[i]
<1>1. Len(s) \in Nat /\ Len(t) \in Nat
  BY LenProperties
<1>2. /\ s \o t \in Seq(S) /\ Len(s \o t) = Len(s) + Len(t)
      /\ \A i \in 1 .. Len(s) + Len(t) :
           (s \o t)[i] = IF i <= Len(s) THEN s[i] ELSE t[i - Len(s)]
  BY ConcatProperties
<1> DEFINE a == Len(s)
           b == Len(t)
           st == s \o t
<1> HIDE DEF a, b, st
<1>3. ASSUME NEW i \in 1 .. b PROVE st[a + i] = t[i]
  <2>1. a + i \in 1 .. a + b /\ ~(a + i <= a) /\ (a + i) - a = i
    BY <1>1 DEF a, b
  <2>2. st[a + i] = t[(a + i) - a]
    BY <1>2, <2>1 DEF a, b, st
  <2>3. QED
    BY <2>1, <2>2
<1>4. ASSUME NEW i \in 1 .. a PROVE st[i] = s[i]
  <2>1. i \in 1 .. a + b /\ i <= a
    BY <1>1 DEF a, b
  <2>2. QED
    BY <1>2, <2>1 DEF a, b, st
<1>5. QED
  BY <1>2, <1>3, <1>4 DEF a, b, st

(* The first k groups of g, laid end to end, are joined[k].                *)
IsJoin(joined, g, n) ==
  /\ joined[1] = g[1]
  /\ \A k \in 2 .. n : joined[k] = joined[k - 1] \o g[k]

LEMMA FlattenJoins ==
  ASSUME NEW S, NEW n \in Nat \ {0}, NEW g \in [1 .. n -> Seq(S)]
  PROVE  \E joined \in [1 .. n -> Seq(S)] :
           IsJoin(joined, g, n) /\ FlattenSeq(g) = joined[n]
<1> DEFINE step == [ks \in (1 .. n) \X Seq(S) |->
                      IF ks[1] = 1 THEN g[1] ELSE ks[2] \o g[ks[1]]]
<1>1. step \in [(1 .. n) \X Seq(S) -> Seq(S)]
  <2>1. ASSUME NEW ks \in (1 .. n) \X Seq(S)
        PROVE  (IF ks[1] = 1 THEN g[1] ELSE ks[2] \o g[ks[1]]) \in Seq(S)
    <3>1. ks[1] \in 1 .. n /\ ks[2] \in Seq(S) /\ g[ks[1]] \in Seq(S)
      OBVIOUS
    <3>2. ks[2] \o g[ks[1]] \in Seq(S)
      BY <3>1, ConcatProperties
    <3>3. QED
      BY <3>1, <3>2
  <2>2. QED
    BY <2>1
<1>2. \A k \in 1 .. n, s \in Seq(S) :
        step[<<k, s>>] = IF k = 1 THEN g[1] ELSE s \o g[k]
  OBVIOUS
<1> HIDE DEF step
<1>3. <<>> \in Seq(S)
  OBVIOUS
<1>4. PICK f \in [0 .. n -> Seq(S)] : IsStart(f, n, <<>>, step)
  BY <1>1, <1>3, RecursionExists
<1> DEFINE joined == [k \in 1 .. n |-> f[k]]
           body(h) == [i \in 1 .. n |-> IF i = 1 THEN g[i] ELSE h[i - 1] \o g[i]]
           flatten == CHOOSE h : h = body(h)
<1>5. joined = body(joined)
  <2>1. ASSUME NEW k \in 1 .. n
        PROVE  joined[k] = IF k = 1 THEN g[k] ELSE joined[k - 1] \o g[k]
    <3>1. f[k] = step[<<k, f[k - 1]>>] /\ f[k - 1] \in Seq(S)
      BY <1>4 DEF IsStart
    <3>2. f[k] = IF k = 1 THEN g[1] ELSE f[k - 1] \o g[k]
      BY <1>2, <3>1
    <3>3. k # 1 => k - 1 \in 1 .. n
      OBVIOUS
    <3>4. QED
      BY <3>2, <3>3
  <2>2. QED
    BY <2>1
<1>6. flatten = body(flatten)
  BY <1>5
<1>7. FlattenSeq(g) = flatten[n]
  <2>1. Len(g) = n
    BY FunctionIsSeq
  <2>2. QED
    BY <2>1 DEF FlattenSeq
<1> HIDE DEF flatten, joined
<1>8. \A k \in 1 .. n : flatten[k] = IF k = 1 THEN g[k] ELSE flatten[k - 1] \o g[k]
  BY <1>6
<1> DEFINE T == {k \in Nat : k + 1 \in 1 .. n => flatten[k + 1] \in Seq(S)}
<1>9. 0 \in T
  <2>1. 1 \in 1 .. n /\ g[1] \in Seq(S)
    OBVIOUS
  <2>2. QED
    BY <1>8, <2>1
<1>10. ASSUME NEW k \in Nat, k \in T PROVE k + 1 \in T
  <2> SUFFICES ASSUME k + 1 + 1 \in 1 .. n PROVE flatten[k + 1 + 1] \in Seq(S)
    OBVIOUS
  <2>1. k + 1 \in 1 .. n /\ k + 1 + 1 # 1 /\ (k + 1 + 1) - 1 = k + 1
    OBVIOUS
  <2>2. flatten[k + 1] \in Seq(S) /\ g[k + 1 + 1] \in Seq(S)
    BY <1>10, <2>1
  <2>3. flatten[k + 1 + 1] = flatten[k + 1] \o g[k + 1 + 1]
    BY <1>8, <2>1
  <2>4. QED
    BY <2>2, <2>3, ConcatProperties
<1> HIDE DEF T
<1>11. \A k \in Nat : k \in T
  BY <1>9, <1>10, NatSetInduction
<1>12. \A k \in 1 .. n : flatten[k] \in Seq(S)
  <2> SUFFICES ASSUME NEW k \in 1 .. n PROVE flatten[k] \in Seq(S)
    OBVIOUS
  <2>1. k - 1 \in Nat /\ (k - 1) + 1 = k
    OBVIOUS
  <2>2. k - 1 \in T
    BY <1>11, <2>1
  <2>3. QED
    BY <2>1, <2>2 DEF T
<1>13. flatten \in [1 .. n -> Seq(S)]
  BY <1>6, <1>12
<1>14. IsJoin(flatten, g, n)
  <2>1. 1 \in 1 .. n /\ \A k \in 2 .. n : k \in 1 .. n /\ k # 1
    OBVIOUS
  <2>2. flatten[1] = g[1]
    BY <1>8, <2>1
  <2>3. \A k \in 2 .. n : flatten[k] = flatten[k - 1] \o g[k]
    BY <1>8, <2>1
  <2>4. QED
    BY <2>2, <2>3 DEF IsJoin
<1>15. QED
  BY <1>7, <1>13, <1>14

(* A join lays its groups out.                                             *)
LEMMA JoinLaysOut ==
  ASSUME NEW S, NEW n \in Nat \ {0}, NEW g \in [1 .. n -> Seq(S)],
         NEW joined \in [1 .. n -> Seq(S)], IsJoin(joined, g, n)
  PROVE  \E offset \in [0 .. n -> Nat] : LaysOut(offset, g, joined[n])
<1> DEFINE offset == [k \in 0 .. n |-> IF k = 0 THEN 0 ELSE Len(joined[k])]
           Out(k) == \A i \in 1 .. k :
                       /\ offset[i] = offset[i - 1] + Len(g[i])
                       /\ offset[i] <= Len(joined[k])
                       /\ \A m \in 1 .. Len(g[i]) : joined[k][offset[i - 1] + m] = g[i][m]
           T == {k \in Nat : k + 1 <= n => Out(k + 1)}
<1>1. offset \in [0 .. n -> Nat]
  BY LenProperties
<1>2. offset[0] = 0 /\ \A k \in 1 .. n : offset[k] = Len(joined[k])
  OBVIOUS
<1> HIDE DEF offset
<1>3. 0 \in T
  <2>1. Out(1)
    <3> SUFFICES ASSUME NEW i \in 1 .. 1
                 PROVE  /\ offset[i] = offset[i - 1] + Len(g[i])
                        /\ offset[i] <= Len(joined[1])
                        /\ \A m \in 1 .. Len(g[i]) : joined[1][offset[i - 1] + m] = g[i][m]
      OBVIOUS
    <3>1. i = 1 /\ i - 1 = 0 /\ 1 \in 1 .. n /\ joined[1] = g[1] /\ Len(g[1]) \in Nat
      BY LenProperties DEF IsJoin
    <3>2. offset[i - 1] = 0 /\ offset[i] = Len(g[1])
      BY <1>2, <3>1
    <3>3. \A m \in 1 .. Len(g[i]) : offset[i - 1] + m = m
      BY <3>2
    <3>4. QED
      BY <3>1, <3>2, <3>3
  <2>2. QED
    BY <2>1
<1>4. ASSUME NEW k \in Nat, k \in T PROVE k + 1 \in T
  <2> DEFINE q == k + 1
  <2> SUFFICES ASSUME q + 1 <= n PROVE Out(q + 1)
    OBVIOUS
  <2>1. q \in 1 .. n /\ q + 1 \in 1 .. n /\ q + 1 \in 2 .. n /\ (q + 1) - 1 = q /\ Out(q)
    BY <1>4
  <2> HIDE DEF q
  <2> DEFINE a == joined[q]
             b == g[q + 1]
             c == joined[q + 1]
  <2>2. a \in Seq(S) /\ b \in Seq(S) /\ c = a \o b
    BY <2>1 DEF IsJoin
  <2>3. offset[q] = Len(a) /\ offset[q + 1] = Len(c)
    BY <1>2, <2>1
  <2>3a. Out(q) <=> \A i \in 1 .. q :
                       /\ offset[i] = offset[i - 1] + Len(g[i])
                       /\ offset[i] <= Len(a)
                       /\ \A m \in 1 .. Len(g[i]) : a[offset[i - 1] + m] = g[i][m]
    OBVIOUS
  <2>3b. Out(q + 1) <=> \A i \in 1 .. q + 1 :
                       /\ offset[i] = offset[i - 1] + Len(g[i])
                       /\ offset[i] <= Len(c)
                       /\ \A m \in 1 .. Len(g[i]) : c[offset[i - 1] + m] = g[i][m]
    OBVIOUS
  <2>3c. g[q + 1] = b
    OBVIOUS
  <2> HIDE DEF a, b, c, Out
  <2>4. /\ c \in Seq(S) /\ Len(c) = Len(a) + Len(b)
        /\ Len(a) \in Nat /\ Len(b) \in Nat /\ Len(c) \in Nat
        /\ \A i \in 1 .. Len(a) : c[i] = a[i]
        /\ \A i \in 1 .. Len(b) : c[Len(a) + i] = b[i]
    BY <2>2, ConcatSplits, LenProperties
  <2>5. ASSUME NEW i \in 1 .. q + 1
        PROVE  /\ offset[i] = offset[i - 1] + Len(g[i])
               /\ offset[i] <= Len(c)
               /\ \A m \in 1 .. Len(g[i]) : c[offset[i - 1] + m] = g[i][m]
    <3>1. CASE i = q + 1
      <4>1. i - 1 = q /\ g[i] = b /\ offset[i - 1] = Len(a) /\ offset[i] = Len(c)
        BY <2>1, <2>3, <2>3c, <3>1
      <4>2. Len(c) <= Len(c) /\ offset[i] = offset[i - 1] + Len(b)
        BY <2>4, <4>1
      <4>3. \A m \in 1 .. Len(b) : c[offset[i - 1] + m] = b[m]
        BY <2>4, <4>1
      <4>4. QED
        BY <4>1, <4>2, <4>3
    <3>2. CASE i \in 1 .. q
      <4>1. /\ offset[i] = offset[i - 1] + Len(g[i])
            /\ offset[i] <= Len(a)
            /\ \A m \in 1 .. Len(g[i]) : a[offset[i - 1] + m] = g[i][m]
        BY <2>1, <2>3a, <3>2
      <4>2. offset[i] \in Nat /\ offset[i - 1] \in Nat /\ Len(g[i]) \in Nat
        <5>1. i \in 0 .. n /\ i - 1 \in 0 .. n /\ i \in 1 .. n
          BY <2>1, <3>2
        <5>2. QED
          BY <1>1, <5>1, LenProperties
      <4> DEFINE o == offset[i - 1]
                 l == Len(g[i])
                 e == Len(a)
      <4>3. o \in Nat /\ l \in Nat /\ e \in Nat /\ o + l <= e
        BY <2>4, <4>1, <4>2
      <4> HIDE DEF o, l, e
      <4>4. \A m \in 1 .. l : o + m \in 1 .. e
        BY <4>3
      <4>5. \A m \in 1 .. l : c[o + m] = a[o + m]
        BY <2>4, <4>4 DEF e
      <4>6. offset[i] <= Len(c)
        BY <2>4, <4>1, <4>2
      <4>7. QED
        BY <4>1, <4>5, <4>6 DEF o, l
    <3>3. QED
      BY <2>1, <3>1, <3>2
  <2>6. QED
    BY <2>3b, <2>5
<1> HIDE DEF T
<1>5. n - 1 \in T
  <2>1. \A k \in Nat : k \in T
    BY <1>3, <1>4, NatSetInduction
  <2>2. n - 1 \in Nat
    OBVIOUS
  <2>3. QED
    BY <2>1, <2>2
<1>6. Out(n)
  <2>1. n - 1 \in Nat /\ (n - 1) + 1 = n /\ n <= n
    OBVIOUS
  <2>2. QED
    BY <1>5, <2>1 DEF T
<1>7. n \in 1 .. n /\ Len(g) = n
  BY FunctionIsSeq
<1>8. LaysOut(offset, g, joined[n])
  BY <1>2, <1>6, <1>7 DEF LaysOut
<1>9. QED
  BY <1>1, <1>8

LEMMA OneGroup ==
  ASSUME NEW g \in Seq(Seed), NEW groups, groups = <<g>>
  PROVE  \E offset \in [0 .. Len(groups) -> Nat] : LaysOut(offset, groups, g)
<1> DEFINE offset == [k \in 0 .. 1 |-> IF k = 0 THEN 0 ELSE Len(g)]
<1>1. Len(groups) = 1 /\ groups[1] = g /\ Len(g) \in Nat
  BY LenProperties
<1>2. offset \in [0 .. 1 -> Nat] /\ offset[0] = 0 /\ offset[1] = Len(g)
  BY <1>1
<1> HIDE DEF offset
<1>3. ASSUME NEW k \in 1 .. 1
      PROVE  /\ offset[k] = offset[k - 1] + Len(groups[k]) /\ offset[k] <= Len(g)
             /\ \A m \in 1 .. Len(groups[k]) : g[offset[k - 1] + m] = groups[k][m]
  <2>1. k = 1 /\ k - 1 = 0
    OBVIOUS
  <2>2. \A m \in 1 .. Len(g) : offset[k - 1] + m = m
    BY <1>2, <2>1
  <2>3. QED
    BY <1>1, <1>2, <2>1, <2>2
<1>4. LaysOut(offset, groups, g)
  BY <1>1, <1>2, <1>3 DEF LaysOut
<1>5. QED
  BY <1>1, <1>2, <1>4

LEMMA SeedsLaidOut ==
  ASSUME cmd \in Commands, ~SetupFails(cmd), seed_ranges = SeedRangesOf(cmd),
         seed_ranges # <<>>, AskedSeeds # <<>>
  PROVE  /\ Walked \in Seq(RangeType) /\ Len(Walked) \in Nat \ {0}
         /\ Len(Asking) = Len(Walked)
         /\ \A k \in 1 .. Len(Walked) : Meets(Walked[k], Asking[k])
         /\ AskedSeeds \in Seq(Seed)
         /\ \E offset \in [0 .. Len(Asking) -> Nat] : LaysOut(offset, Asking, AskedSeeds)
<1>1. /\ cmd.exprs \in Seq(Element) /\ cmd.seed \in Seed /\ cmd.count \in Numeral
      /\ cmd.seeds \in {"unset", "ranges", "counted", "both"}
  BY SimulatorAssumption DEF IsCommand
<1>2. seed_max \in Nat /\ 0 \in Seed
  BY SeedAssumption DEF Seed
<1>3. ASSUME NEW r \in RangeType, NEW g, Meets(r, g), Walked = <<r>>, Asking = <<g>>,
             AskedSeeds = g
      PROVE  /\ Walked \in Seq(RangeType) /\ Len(Walked) \in Nat \ {0}
             /\ Len(Asking) = Len(Walked)
             /\ \A k \in 1 .. Len(Walked) : Meets(Walked[k], Asking[k])
             /\ AskedSeeds \in Seq(Seed)
             /\ \E offset \in [0 .. Len(Asking) -> Nat] : LaysOut(offset, Asking, AskedSeeds)
  <2>1. g \in Seq(Seed)
    BY <1>3 DEF Meets
  <2>2. \E offset \in [0 .. Len(Asking) -> Nat] : LaysOut(offset, Asking, g)
    BY <1>3, <2>1, OneGroup
  <2> DEFINE W == Walked
             A == Asking
             B == AskedSeeds
  <2>3. W \in Seq(RangeType) /\ Len(W) = 1 /\ W[1] = r
    BY <1>3
  <2>4. Len(A) = 1 /\ A[1] = g
    BY <1>3
  <2>5. B = g /\ Meets(r, g)
    BY <1>3
  <2>6. \E offset \in [0 .. Len(A) -> Nat] : LaysOut(offset, A, B)
    BY <2>2, <2>5
  <2> HIDE DEF W, A, B
  <2>7. \A k \in 1 .. Len(W) : Meets(W[k], A[k])
    <3>1. \A k \in 1 .. Len(W) : k = 1
      BY <2>3
    <3>2. QED
      BY <2>3, <2>4, <2>5, <3>1
  <2>8. Len(W) \in Nat \ {0} /\ Len(A) = Len(W)
    BY <2>3, <2>4
  <2>9. QED
    BY <2>1, <2>3, <2>5, <2>6, <2>7, <2>8 DEF W, A, B
<1>4. CASE ~Here.inputs
  <2> DEFINE r == [begin |-> 0, end |-> 1]
             g == <<0>>
  <2>1. r \in RangeType
    BY SeedAssumption DEF RangeType, Seed
  <2>2. r.begin = 0 /\ r.end = 1
    OBVIOUS
  <2>3. g \in Seq(Seed) /\ Len(g) = 1 /\ g[1] = 0
    BY <1>2
  <2>4. Walked = <<r>> /\ Asking = <<g>> /\ AskedSeeds = g
    BY <1>4 DEF Walked, Asking, AskedSeeds
  <2> HIDE DEF r, g
  <2>5. wrap(0) = 0 /\ wrap(1) = 1
    BY SeedAssumption, WrapSmall
  <2>6. \A m \in 1 .. Len(g) : g[m] = wrap(r.begin + m - 1)
    <3> SUFFICES ASSUME NEW m \in 1 .. 1 PROVE g[m] = wrap(r.begin + m - 1)
      BY <2>3
    <3>1. m = 1 /\ r.begin + m - 1 = 0
      BY <2>2
    <3>2. QED
      BY <2>3, <2>5, <3>1
  <2>7. r.begin + Len(g) = 1 /\ Len(g) \in 1 .. seed_max + 1
    BY <1>2, <2>2, <2>3
  <2>8. Meets(r, g)
    BY <1>2, <2>2, <2>3, <2>5, <2>6, <2>7 DEF Meets
  <2>9. QED
    BY <1>3, <2>1, <2>4, <2>8
<1>5. CASE Here.inputs /\ cmd.seeds = "ranges"
  <2> DEFINE n == Len(cmd.exprs)
             g == [k \in 1 .. n |-> AskedBy(cmd.exprs[k])]
             r == [k \in 1 .. n |-> range_t(cmd.exprs[k])]
  <2>1. /\ n \in Nat /\ DOMAIN cmd.exprs = 1 .. n
        /\ \A k \in 1 .. n : cmd.exprs[k] \in Element
    BY <1>1, LenProperties, ElementOfSeq
  <2>2. \A k \in 1 .. n : ~Refused(cmd.exprs[k])
    BY <1>5, <2>1 DEF SetupFails
  <2>3. seed_ranges = r
    BY <1>5, <2>1 DEF SeedRangesOf, parse_ranges
  <2>4. Walked = r /\ Asking = g /\ AskedSeeds = FlattenSeq(g)
    BY <1>5, <2>1, <2>3 DEF Walked, Asking, AskedSeeds, Asked
  <2>5. \A k \in 1 .. n : /\ g[k] = AskedBy(cmd.exprs[k])
                          /\ r[k] = range_t(cmd.exprs[k])
    OBVIOUS
  <2>6. \A k \in 1 .. n : Meets(r[k], g[k]) /\ r[k] \in RangeType /\ g[k] \in Seq(Seed)
    BY <2>1, <2>2, <2>5, ElementMeets, ElementIsRange DEF Meets
  <2>7. r \in [1 .. n -> RangeType] /\ g \in [1 .. n -> Seq(Seed)]
    BY <2>6
  <2> HIDE DEF r, g, n
  <2>8. /\ r \in Seq(RangeType) /\ Len(r) = n
        /\ Len(g) = n
    BY <2>1, <2>7, FunctionIsSeq
  <2>9. n # 0
    BY <2>3, <2>8, EmptySeq
  <2>10. n \in Nat \ {0}
    BY <2>1, <2>9
  <2>11. PICK joined \in [1 .. n -> Seq(Seed)] :
           IsJoin(joined, g, n) /\ FlattenSeq(g) = joined[n]
    BY <2>7, <2>10, FlattenJoins
  <2>12. \E offset \in [0 .. n -> Nat] : LaysOut(offset, g, joined[n])
    BY <2>7, <2>10, <2>11, JoinLaysOut
  <2>13. joined[n] \in Seq(Seed)
    BY <2>10
  <2>14. QED
    BY <2>4, <2>6, <2>8, <2>10, <2>11, <2>12, <2>13
<1>6. CASE Here.inputs /\ cmd.seeds # "ranges"
  <2> DEFINE g == AskedCounted(cmd.seed, cmd.count)
             r == [begin |-> cmd.seed, end |-> wrap(cmd.seed + parse_int(cmd.count))]
  <2>1. cmd.seeds = "counted"
    BY <1>1, <1>6 DEF SeedRangesOf
  <2>2. Fits(cmd.count)
    BY <2>1 DEF SetupFails
  <2>3. seed_ranges = <<r>>
    BY <2>1 DEF SeedRangesOf, CountedRange
  <2>4. Walked = <<r>> /\ Asking = <<g>> /\ AskedSeeds = g
    BY <1>6, <2>3 DEF Walked, Asking, AskedSeeds
  <2>5. Meets(r, g)
    BY <1>1, <2>2, <2>4, CountMeets
  <2>6. r \in RangeType
    <3>1. seed_ranges \in Seq(RangeType)
      BY RangesOfCommand
    <3> HIDE DEF r
    <3>2. Len(<<r>>) = 1 /\ <<r>>[1] = r
      OBVIOUS
    <3>3. QED
      BY <2>3, <3>1, <3>2, ElementOfSeq
  <2> HIDE DEF g, r
  <2>7. QED
    BY <1>3, <2>4, <2>5, <2>6
<1>7. QED
  BY <1>4, <1>5, <1>6

(* The running total is the number of seeds, if that is below 2^32.        *)
LEMMA TotalIsLength ==
  ASSUME NEW R \in Seq(RangeType), NEW g, NEW all, Len(all) \in Nat, Len(all) <= seed_max,
         Len(g) = Len(R), \A k \in 1 .. Len(R) : Meets(R[k], g[k]),
         NEW offset \in [0 .. Len(R) -> Nat], LaysOut(offset, g, all)
  PROVE  total_random_tests(R) = Len(all)
<1> DEFINE N == Len(R)
           diff(k) == R[k].end - R[k].begin
           step == [ks \in (1 .. N) \X Seed |-> wrap(ks[2] + diff(ks[1]))]
<1>0. seed_max \in Nat /\ N \in Nat
  BY SeedAssumption, LenProperties
<1>1. \A k \in 1 .. N : diff(k) \in Int
  <2> SUFFICES ASSUME NEW k \in 1 .. N PROVE diff(k) \in Int
    OBVIOUS
  <2>1. R[k] \in RangeType
    BY ElementOfSeq
  <2>2. QED
    BY <2>1, <1>0 DEF RangeType, Seed
<1>2. step \in [(1 .. N) \X Seed -> Seed]
  <2>1. ASSUME NEW ks \in (1 .. N) \X Seed PROVE wrap(ks[2] + diff(ks[1])) \in Seed
    <3>1. ks[2] \in Int /\ diff(ks[1]) \in Int
      BY <1>0, <1>1 DEF Seed
    <3> HIDE DEF diff
    <3>2. ks[2] + diff(ks[1]) \in Int
      BY <3>1
    <3>3. QED
      BY <3>2, WrapIsSeed
  <2>2. QED
    BY <2>1
<1>3. \A k \in 1 .. N, s \in Seed : step[<<k, s>>] = wrap(s + diff(k))
  OBVIOUS
<1> HIDE DEF step
<1>4. 0 \in Seed
  BY <1>0 DEF Seed
<1>5. PICK f \in [0 .. N -> Seed] : IsStart(f, N, 0, step)
  BY <1>0, <1>2, <1>4, RecursionExists
<1> DEFINE body(h) == [k \in 0 .. N |-> IF k = 0 THEN 0 ELSE wrap(h[k - 1] + (R[k].end - R[k].begin))]
           total == CHOOSE h : h = body(h)
<1>6. f = body(f)
  <2>1. ASSUME NEW k \in 0 .. N
        PROVE  f[k] = IF k = 0 THEN 0 ELSE wrap(f[k - 1] + (R[k].end - R[k].begin))
    <3>1. CASE k = 0
      BY <1>5, <3>1 DEF IsStart
    <3>2. CASE k # 0
      <4>1. k \in 1 .. N /\ k - 1 \in 0 .. N
        BY <1>0, <3>2
      <4>2. f[k] = step[<<k, f[k - 1]>>] /\ f[k - 1] \in Seed
        BY <1>5, <4>1 DEF IsStart
      <4>3. QED
        BY <1>3, <3>2, <4>1, <4>2
    <3>3. QED
      BY <3>1, <3>2
  <2>2. QED
    BY <2>1
<1>7. total = body(total)
  BY <1>6
<1>8. total_random_tests(R) = total[N]
  BY DEF total_random_tests
<1> HIDE DEF total
<1>9. total[0] = 0 /\ \A k \in 1 .. N : total[k] = wrap(total[k - 1] + diff(k))
  <2>1. \A k \in 0 .. N :
          total[k] = IF k = 0 THEN 0 ELSE wrap(total[k - 1] + (R[k].end - R[k].begin))
    BY <1>7
  <2>2. QED
    BY <1>0, <2>1
<1> HIDE DEF body
<1> DEFINE T == {k \in Nat : k <= N => total[k] = offset[k]}
<1>10. 0 \in T
  BY <1>9 DEF LaysOut
<1>11. ASSUME NEW j \in Nat, j \in T PROVE j + 1 \in T
  <2> SUFFICES ASSUME j + 1 <= N PROVE total[j + 1] = offset[j + 1]
    OBVIOUS
  <2> DEFINE k == j + 1
  <2>1. k \in 1 .. N /\ k - 1 = j /\ j \in 0 .. N /\ k \in 0 .. N
    BY <1>0
  <2>2. total[j] = offset[j]
    BY <1>0, <1>11
  <2> HIDE DEF k
  <2>3. /\ offset[k] = offset[j] + Len(g[k]) /\ offset[k] <= Len(all)
        /\ offset[k] \in Nat /\ offset[j] \in Nat
    BY <2>1 DEF LaysOut
  <2>4. /\ Len(g[k]) \in 1 .. seed_max + 1 /\ R[k].begin \in Seed
        /\ R[k].end = wrap(R[k].begin + Len(g[k]))
    BY <2>1 DEF Meets
  <2> DEFINE o == offset[k]
             p == offset[j]
             l == Len(g[k])
             b == R[k].begin
             e == R[k].end
  <2>5. /\ o = p + l /\ o \in Nat /\ p \in Nat /\ l \in Nat /\ b \in Nat
        /\ o <= seed_max /\ b <= seed_max /\ l <= seed_max + 1
        /\ e = wrap(b + l)
    BY <1>0, <2>3, <2>4 DEF Seed
  <2>6. total[k] = wrap(p + (e - b))
    BY <1>9, <2>1, <2>2
  <2> HIDE DEF o, p, l, b, e
  <2>7. CASE b + l <= seed_max
    <3>1. e = b + l
      BY <1>0, <2>5, <2>7, WrapSmall
    <3>2. p + (e - b) = o
      BY <2>5, <3>1
    <3>3. wrap(o) = o
      BY <1>0, <2>5, WrapSmall
    <3>4. QED
      BY <2>6, <3>2, <3>3 DEF k, o
  <2>8. CASE b + l > seed_max
    <3>1. PICK v : v = b + l
      OBVIOUS
    <3>1a. v \in seed_max + 1 .. 2 * seed_max + 1 /\ e = wrap(v)
      BY <1>0, <2>5, <2>8, <3>1
    <3>1b. wrap(v) = v - (seed_max + 1)
      BY ONLY <3>1a, WrapSmall
    <3>2. e = v - (seed_max + 1) /\ v \in Int /\ v - b = l
      BY <1>0, <2>5, <3>1, <3>1a, <3>1b
    <3>3. p + (e - b) = o - (seed_max + 1) /\ o - (seed_max + 1) \in -(seed_max + 1) .. -1
      BY <1>0, <2>5, <3>2
    <3>4. wrap(o - (seed_max + 1)) = o - (seed_max + 1) + (seed_max + 1)
      BY <3>3, WrapSmall
    <3>5. o - (seed_max + 1) + (seed_max + 1) = o
      BY <1>0, <2>5
    <3>6. QED
      BY <2>6, <3>3, <3>4, <3>5 DEF k, o
  <2>9. QED
    BY <1>0, <2>5, <2>7, <2>8
<1> HIDE DEF T
<1>12. N \in T
  BY <1>0, <1>10, <1>11, NatSetInduction
<1>13. total[N] = offset[N]
  <2>1. N <= N
    BY <1>0
  <2>2. QED
    BY <1>12, <2>1 DEF T
<1>14. offset[N] = Len(all)
  BY DEF LaysOut
<1>15. QED
  BY <1>8, <1>13, <1>14


-----------------------------------------------------------------------------
(* Walking the ranges                                                      *)

LEMMA WrapNext ==
  ASSUME NEW b \in Seed, NEW m \in 0 .. seed_max
  PROVE  wrap(wrap(b + m) + 1) = wrap(b + (m + 1))
<1>0. seed_max \in Nat /\ b \in 0 .. seed_max
  BY SeedAssumption DEF Seed
<1>1. PICK v \in Int : v = b + m
  BY <1>0
<1>2. PICK u \in Int : u = b + (m + 1)
  BY <1>0
<1>3. u = v + 1 /\ v \in 0 .. 2 * seed_max
  BY <1>0, <1>1, <1>2
<1>4. CASE v < seed_max
  <2>1. v \in 0 .. seed_max /\ u \in 0 .. seed_max
    BY <1>0, <1>3, <1>4
  <2>2. wrap(v) = v
    BY <2>1, WrapSmall
  <2>3. QED
    BY <1>1, <1>2, <1>3, <2>2
<1>5. CASE v = seed_max
  <2>1. v \in 0 .. seed_max
    BY <1>0, <1>5
  <2>2. wrap(v) = v
    BY <2>1, WrapSmall
  <2>3. QED
    BY <1>1, <1>2, <1>3, <2>2
<1>6. CASE v > seed_max
  <2>1. v \in seed_max + 1 .. 2 * seed_max + 1 /\ u \in seed_max + 1 .. 2 * seed_max + 1
    BY <1>0, <1>3, <1>6
  <2>2. wrap(v) = v - (seed_max + 1) /\ wrap(u) = u - (seed_max + 1)
    BY <2>1, WrapSmall
  <2>3. PICK w \in Int : w = v - (seed_max + 1) + 1
    BY <1>0
  <2>4. w \in 0 .. seed_max /\ w = u - (seed_max + 1)
    BY <1>0, <1>3, <1>6, <2>3
  <2>5. wrap(w) = w
    BY <2>4, WrapSmall
  <2>6. QED
    BY <1>1, <1>2, <2>2, <2>3, <2>4, <2>5
<1>7. QED
  BY <1>0, <1>3, <1>4, <1>5, <1>6

(* Within one turn of the 32-bit circle no number comes twice.             *)
LEMMA WrapDiffers ==
  ASSUME NEW b \in Seed, NEW m \in 1 .. seed_max + 1, NEW l \in 1 .. seed_max + 1,
         m < l
  PROVE  wrap(b + m) # wrap(b + l)
<1>0. seed_max \in Nat /\ b \in 0 .. seed_max
  BY SeedAssumption DEF Seed
<1>1. PICK v \in Int : v = b + m
  BY <1>0
<1>2. PICK u \in Int : u = b + l
  BY <1>0
<1>3. v < u /\ u - v < seed_max + 1 /\ v \in 1 .. 2 * seed_max + 1
      /\ u \in 1 .. 2 * seed_max + 1
  BY <1>0, <1>1, <1>2
<1>4. wrap(v) = IF v <= seed_max THEN v ELSE v - (seed_max + 1)
  <2>1. CASE v <= seed_max
    <3>1. v \in 0 .. seed_max
      BY <1>0, <1>3, <2>1
    <3>2. QED
      BY <2>1, <3>1, WrapSmall
  <2>2. CASE ~(v <= seed_max)
    <3>1. v \in seed_max + 1 .. 2 * seed_max + 1
      BY <1>0, <1>3, <2>2
    <3>2. QED
      BY <2>2, <3>1, WrapSmall
  <2>3. QED
    BY <2>1, <2>2
<1>5. wrap(u) = IF u <= seed_max THEN u ELSE u - (seed_max + 1)
  <2>1. CASE u <= seed_max
    <3>1. u \in 0 .. seed_max
      BY <1>0, <1>3, <2>1
    <3>2. QED
      BY <2>1, <3>1, WrapSmall
  <2>2. CASE ~(u <= seed_max)
    <3>1. u \in seed_max + 1 .. 2 * seed_max + 1
      BY <1>0, <1>3, <2>2
    <3>2. QED
      BY <2>2, <3>1, WrapSmall
  <2>3. QED
    BY <2>1, <2>2
<1>6. wrap(v) # wrap(u)
  BY <1>0, <1>3, <1>4, <1>5
<1>7. QED
  BY <1>1, <1>2, <1>6

LEMMA WalkBegins ==
  ASSUME NEW R, NEW g, NEW all, Plan(R, g, all),
         NEW offset \in [0 .. Len(g) -> Nat], LaysOut(offset, g, all)
  PROVE  Walks(Begin(R), <<>>, R, g, all)
<1>1. /\ R \in Seq(RangeType) /\ Len(R) \in Nat \ {0} /\ Meets(R[1], g[1])
  BY DEF Plan
<1>2. R[1].begin \in Seed /\ Len(g[1]) > 0
  BY <1>1, SeedAssumption DEF Meets
<1>3. wrap(R[1].begin) = R[1].begin /\ R[1].begin + 0 = R[1].begin
  BY <1>2, WrapSmall, SeedAssumption DEF Seed
<1>4. Begin(R).it = R /\ Begin(R).cur = R[1].begin
  BY DEF Begin
<1> DEFINE i == Begin(R)
           n == Len(R)
<1> HIDE DEF i, n
<1>5. i.it = R /\ i.cur = R[1].begin /\ n \in Nat \ {0} /\ n = Len(R)
  BY <1>1, <1>4 DEF i, n
<1>6. n - 0 = n /\ 0 < n /\ 0 # n /\ 0 + 1 = 1 /\ \A k \in 1 .. n : 0 + k = k
  BY <1>5
<1>7. Len(<<>>) = 0 /\ \A k \in 1 .. Len(<<>>) : FALSE
  OBVIOUS
<1>8. offset[0] = 0 /\ 0 = offset[0] + 0
  BY DEF LaysOut
<1>9. Stands(i, <<>>, R, g, all, offset, 0, 0)
  BY <1>2, <1>3, <1>5, <1>6, <1>7, <1>8 DEF Stands
<1>10. 0 \in 0 .. Len(R) /\ 0 \in Nat
  BY <1>1
<1>11. QED
  BY <1>9, <1>10 DEF Walks, i

LEMMA WalkAdvances ==
  ASSUME NEW R, NEW g, NEW all, Plan(R, g, all),
         NEW i \in IteratorType, NEW t \in Seq(Seed), Walks(i, t, R, g, all), ~AtEnd(i)
  PROVE  Walks(Advance(i), Append(t, i.cur), R, g, all)
<1>1. PICK offset \in [0 .. Len(g) -> Nat], j \in 0 .. Len(R), m \in Nat :
        LaysOut(offset, g, all) /\ Stands(i, t, R, g, all, offset, j, m)
  BY DEF Walks
<1> DEFINE n == Len(R)
           q == j + 1
           b == R[q].begin
           l == Len(g[q])
           it == i.it
           s == Append(t, i.cur)
           T == Len(t)
           o == offset[j]
<1>2. /\ n \in Nat \ {0} /\ Len(g) = n /\ j \in 0 .. n /\ seed_max \in Nat
      /\ \A k \in 1 .. n : Meets(R[k], g[k])
  BY SeedAssumption DEF Plan
<1>3. it \in Seq(RangeType) /\ it # <<>> /\ i.cur \in Seed /\ Len(it) \in Nat
  BY LenProperties DEF AtEnd, IteratorType
<1>4. /\ Len(it) = n - j /\ \A k \in 1 .. n - j : it[k] = R[j + k]
      /\ T = o + m /\ \A k \in 1 .. T : t[k] = all[k]
  BY <1>1 DEF Stands
<1>5. Len(it) # 0
  BY <1>3, EmptySeq
<1> HIDE DEF n, q, it, T, o
<1>6. j < n /\ q \in 1 .. n /\ j \in 0 .. n /\ q \in 0 .. n /\ q = j + 1 /\ q - 1 = j
  BY <1>2, <1>3, <1>4, <1>5 DEF q
<1>7. /\ g[q] \in Seq(Seed) /\ l \in 1 .. seed_max + 1 /\ b \in Seed
      /\ R[q].end = wrap(b + l) /\ \A k \in 1 .. l : g[q][k] = wrap(b + k - 1)
  BY <1>2, <1>6 DEF Meets
<1>8. m < l /\ i.cur = wrap(b + m)
  BY <1>1, <1>6 DEF Stands, n, q
<1>9. /\ offset[q] = o + l /\ \A k \in 1 .. l : all[o + k] = g[q][k]
      /\ o \in Nat /\ offset[q] \in Nat
  BY <1>1, <1>2, <1>6 DEF LaysOut, o
<1>10. it[1] = R[q]
  <2>1. 1 \in 1 .. n - j
    BY <1>2, <1>6
  <2>2. QED
    BY <1>4, <2>1, <1>6
<1> HIDE DEF b, l
<1>11. /\ m + 1 \in 1 .. l /\ m + 1 \in 1 .. seed_max + 1 /\ m \in 0 .. seed_max
       /\ b + (m + 1) - 1 = b + m
  BY <1>2, <1>7, <1>8 DEF Seed
<1>12. all[o + (m + 1)] = i.cur
  BY <1>7, <1>8, <1>9, <1>11
<1>13. s \in Seq(Seed) /\ Len(s) = T + 1 /\ s[T + 1] = i.cur
       /\ \A k \in 1 .. T : s[k] = t[k]
  BY <1>3, AppendProperties DEF T
<1>14. T \in Nat /\ T + 1 = o + (m + 1)
  BY <1>4, <1>9
<1> HIDE DEF s
<1>15. \A k \in 1 .. Len(s) : s[k] = all[k]
  <2> SUFFICES ASSUME NEW k \in 1 .. T + 1 PROVE s[k] = all[k]
    BY <1>13
  <2>1. CASE k = T + 1
    BY <1>12, <1>13, <1>14, <2>1
  <2>2. CASE k # T + 1
    <3>1. k \in 1 .. T
      BY <1>14, <2>2
    <3>2. QED
      BY <1>4, <1>13, <3>1
  <2>3. QED
    BY <2>1, <2>2
<1>16. wrap(i.cur + 1) = wrap(b + (m + 1))
  BY <1>7, <1>8, <1>11, WrapNext
<1>17. CASE m + 1 < l
  <2>1. wrap(b + (m + 1)) # wrap(b + l)
    BY <1>7, <1>11, <1>17, WrapDiffers
  <2>2. Advance(i) = [i EXCEPT !.cur = wrap(i.cur + 1)]
    BY <1>7, <1>10, <1>16, <2>1 DEF Advance, it
  <2>3. Advance(i).it = it /\ Advance(i).cur = wrap(b + (m + 1))
    BY <1>16, <2>2 DEF IteratorType, it
  <2> DEFINE a == Advance(i)
  <2> HIDE DEF a
  <2>4. a.it = it /\ a.cur = wrap(R[j + 1].begin + (m + 1)) /\ m + 1 < Len(g[j + 1])
    BY <1>6, <1>17, <2>3 DEF a, b, l
  <2>5. Len(s) = offset[j] + (m + 1)
    BY <1>13, <1>14 DEF o
  <2>6. j # Len(R)
    BY <1>2, <1>6 DEF n
  <2>7. Len(a.it) = Len(R) - j /\ \A k \in 1 .. Len(R) - j : a.it[k] = R[j + k]
    BY <1>4, <2>4 DEF n
  <2>8. Stands(a, s, R, g, all, offset, j, m + 1)
    BY <1>15, <2>4, <2>5, <2>6, <2>7 DEF Stands
  <2>9. m + 1 \in Nat
    OBVIOUS
  <2>10. QED
    BY <1>1, <2>8, <2>9 DEF Walks, a, s
<1>18. CASE ~(m + 1 < l)
  <2>1. m + 1 = l
    BY <1>2, <1>7, <1>11, <1>18
  <2>2. Advance(i) = [it |-> Tail(it), cur |-> IF Len(it) > 1 THEN it[2].begin
                                               ELSE wrap(i.cur + 1)]
    BY <1>7, <1>10, <1>16, <2>1 DEF Advance, it
  <2> DEFINE a == Advance(i)
             tl == Tail(it)
  <2>3. a.it = tl /\ (Len(it) > 1 => a.cur = it[2].begin)
    BY <2>2
  <2>4. Len(tl) = Len(it) - 1 /\ \A k \in 1 .. Len(it) - 1 : tl[k] = it[k + 1]
    BY <1>3, HeadTailProperties
  <2> HIDE DEF a, tl
  <2>5. Len(tl) = n - q
    BY <1>2, <1>4, <1>6, <2>4
  <2>6. \A k \in 1 .. n - q : tl[k] = R[q + k]
    <3> SUFFICES ASSUME NEW k \in 1 .. n - q PROVE tl[k] = R[q + k]
      OBVIOUS
    <3>1. k \in 1 .. Len(it) - 1 /\ k + 1 \in 1 .. n - j /\ j + (k + 1) = q + k
      BY <1>2, <1>4, <1>6
    <3>2. QED
      BY <1>4, <2>4, <3>1
  <2>7. ASSUME q < n PROVE 0 < Len(g[q + 1]) /\ a.cur = wrap(R[q + 1].begin + 0)
    <3>1. /\ q + 1 \in 1 .. n /\ 2 \in 1 .. n - j /\ j + 2 = q + 1 /\ Len(it) > 1
      BY <1>2, <1>4, <1>6, <2>7
    <3>2. a.cur = R[q + 1].begin
      BY <1>4, <2>3, <3>1
    <3>3. Len(g[q + 1]) \in 1 .. seed_max + 1 /\ R[q + 1].begin \in Seed
      BY <1>2, <3>1 DEF Meets
    <3>4. PICK v \in Seed : v = R[q + 1].begin
      BY <3>3
    <3>5. v + 0 = v /\ wrap(v) = v
      BY <1>2, WrapSmall DEF Seed
    <3>6. 0 < Len(g[q + 1])
      BY <1>2, <3>3
    <3>7. QED
      BY <3>2, <3>4, <3>5, <3>6
  <2>8. Len(s) = offset[q] + 0
    BY <1>9, <1>13, <1>14, <2>1
  <2>9. Stands(a, s, R, g, all, offset, q, 0)
    BY <1>15, <2>3, <2>5, <2>6, <2>7, <2>8 DEF Stands, n
  <2>10. q \in 0 .. Len(R) /\ 0 \in Nat
    BY <1>6 DEF n
  <2>11. QED
    BY <1>1, <2>9, <2>10 DEF Walks, a, s
<1>19. QED
  BY <1>17, <1>18

LEMMA WalkIsPrefix ==
  ASSUME NEW R, NEW g, NEW all, Plan(R, g, all),
         NEW i \in IteratorType, NEW t \in Seq(Seed), Walks(i, t, R, g, all)
  PROVE  IsPrefix(t, all) /\ (AtEnd(i) => t = all)
<1>1. PICK offset \in [0 .. Len(g) -> Nat], j \in 0 .. Len(R), m \in Nat :
        LaysOut(offset, g, all) /\ Stands(i, t, R, g, all, offset, j, m)
  BY DEF Walks
<1> DEFINE n == Len(R)
           A == Len(all)
           T == Len(t)
<1>2. /\ n \in Nat \ {0} /\ Len(g) = n /\ seed_max \in Nat /\ all \in Seq(Seed)
      /\ A \in Nat /\ T \in Nat /\ A = offset[n] /\ j \in 0 .. n
      /\ \A k \in 1 .. n : Meets(R[k], g[k])
  BY <1>1, SeedAssumption, LenProperties DEF Plan, LaysOut
<1>3. T = offset[j] + m /\ \A k \in 1 .. T : t[k] = all[k]
  BY <1>1 DEF Stands
<1>4. j < n => T <= A
  <2> SUFFICES ASSUME j < n PROVE T <= A
    OBVIOUS
  <2>1. j + 1 \in 1 .. n /\ (j + 1) - 1 = j /\ j + 1 \in 0 .. n
    BY <1>2
  <2>2. /\ offset[j + 1] = offset[j] + Len(g[j + 1]) /\ offset[j + 1] <= A
        /\ offset[j] \in Nat /\ offset[j + 1] \in Nat
    BY <1>1, <1>2, <2>1 DEF LaysOut
  <2>3. m < Len(g[j + 1]) /\ Len(g[j + 1]) \in 1 .. seed_max + 1
    BY <1>1, <1>2, <2>1 DEF Stands, Meets
  <2> DEFINE x == offset[j]
             y == Len(g[j + 1])
             z == offset[j + 1]
  <2>4. z = x + y /\ z <= A /\ x \in Nat /\ y \in Nat /\ z \in Nat /\ m < y /\ T = x + m
    BY <1>2, <1>3, <2>2, <2>3
  <2> HIDE DEF x, y, z, A, T
  <2>5. QED
    BY <1>2, <2>4
<1>5. j = n => T = A
  BY <1>1, <1>2, <1>3 DEF Stands
<1>6. T <= A
  BY <1>2, <1>4, <1>5
<1>7. IsPrefix(t, all)
  <2> DEFINE p == SubSeq(all, 1, T)
  <2>1. p \in Seq(Seed) /\ Len(p) = T /\ \A k \in 1 .. T : p[k] = all[k]
    <3> HIDE DEF T, A
    <3>1. T \in 1 - 1 .. Len(all) /\ 1 \in 1 .. T + 1
      BY <1>2, <1>6 DEF A
    <3>2. p = [k \in 1 .. T |-> all[k]]
      BY <1>2, <1>6 DEF A
    <3>3. \A k \in 1 .. T : all[k] \in Seed
      BY <1>2, <1>6, ElementOfSeq DEF A
    <3>4. p \in [1 .. T -> Seed] /\ \A k \in 1 .. T : p[k] = all[k]
      BY <3>2, <3>3
    <3> HIDE DEF p
    <3>5. QED
      BY <1>2, <3>4, FunctionIsSeq
  <2> HIDE DEF p
  <2>2. \A k \in 1 .. Len(t) : t[k] = p[k]
    BY <1>3, <2>1
  <2>3. t = p
    BY <2>1, <2>2, PointwiseSame
  <2>4. QED
    BY <1>2, <1>6, <2>3 DEF IsPrefix, p
<1>8. AtEnd(i) => t = all
  <2> SUFFICES ASSUME AtEnd(i) PROVE t = all
    OBVIOUS
  <2>1. Len(i.it) = 0
    BY DEF AtEnd
  <2>2. Len(i.it) = n - j
    BY <1>1 DEF Stands
  <2>3. j = n
    BY <1>2, <2>1, <2>2
  <2>4. T = A /\ \A k \in 1 .. Len(t) : t[k] = all[k]
    BY <1>3, <1>5, <2>3
  <2>5. QED
    BY <1>2, <2>4, PointwiseSame
<1>9. QED
  BY <1>7, <1>8

-----------------------------------------------------------------------------
(* The steps of the program                                                *)

LEMMA PlanOfCommand ==
  ASSUME cmd \in Commands, ~SetupFails(cmd), seed_ranges = SeedRangesOf(cmd),
         seed_ranges # <<>>, AskedSeeds # <<>>
  PROVE  Plan(Walked, Asking, AskedSeeds)
BY SeedsLaidOut DEF Plan

LEMMA InitSeeds == Init => SeedsInv
BY DEF Init, SeedsInv

(* A step that takes no seed and leaves the ranges alone.                  *)
LEMMA IdleSeeds ==
  ASSUME SeedsInv, UNCHANGED config, at # "exit" \/ at' = "exit",
         at' \in {"random", "flags"} =>
           at \in {"random", "flags"} /\ UNCHANGED <<target_level, seed_it, taken>>
  PROVE  SeedsInv'
<1>1. UNCHANGED <<cmd, seed_ranges>>
  BY DEF config
<1>2. (SetupFails(cmd) => at = "exit")'
  BY <1>1 DEF SeedsInv
<1>3. ASSUME at' \in {"random", "flags"}
      PROVE  /\ seed_ranges' # <<>>
             /\ AskedSeeds' # <<>> =>
                  Walks(seed_it, taken, Walked, Asking, AskedSeeds)'
  <2>1. UNCHANGED <<Walked, Asking, AskedSeeds, seed_it, taken>>
    BY <1>1, <1>3 DEF Walked, Asking, AskedSeeds, Here
  <2>2. QED
    BY <1>1, <1>3, <2>1 DEF SeedsInv
<1>4. QED
  BY <1>1, <1>2, <1>3 DEF SeedsInv

LEMMA GateSeeds == IInv /\ ScoreInv /\ SeedsInv /\ Gate => SeedsInv'
<1> SUFFICES ASSUME IInv, ScoreInv, SeedsInv, Gate PROVE SeedsInv'
  OBVIOUS
<1>1. at = "gate" /\ UNCHANGED <<cmd, seed_ranges, target_level, taken>>
  BY DEF Gate, config, level, history
<1>2. CASE at' = "report"
  BY <1>1, <1>2, IdleSeeds DEF config
<1>3. CASE /\ seed_ranges # <<>> /\ at' = "random"
           /\ seed_it' = Begin(IF Here.inputs THEN seed_ranges
                               ELSE <<[begin |-> 0, end |-> 1]>>)
  <2>1. /\ cmd \in Commands /\ ~SetupFails(cmd) /\ seed_ranges = SeedRangesOf(cmd)
        /\ taken = <<>>
    BY <1>1 DEF IInv, Typed, SeedsInv, ScoreInv, NoneRandomYet
  <2>2. UNCHANGED <<Walked, Asking, AskedSeeds>>
    BY <1>1 DEF Walked, Asking, AskedSeeds, Here
  <2>3. seed_it' = Begin(Walked) /\ taken' = <<>>
    BY <1>1, <1>3, <2>1 DEF Walked
  <2>4. ASSUME AskedSeeds # <<>>
        PROVE  Walks(Begin(Walked), <<>>, Walked, Asking, AskedSeeds)
    <3>1. Plan(Walked, Asking, AskedSeeds)
      BY <1>3, <2>1, <2>4, PlanOfCommand
    <3>2. \E offset \in [0 .. Len(Asking) -> Nat] : LaysOut(offset, Asking, AskedSeeds)
      BY <1>3, <2>1, <2>4, SeedsLaidOut
    <3>3. QED
      BY <3>1, <3>2, WalkBegins
  <2>5. SeedsInv'
    BY <1>1, <1>3, <2>1, <2>2, <2>3, <2>4 DEF SeedsInv
  <2>6. QED
    BY <2>5
<1>4. QED
  BY <1>2, <1>3 DEF Gate

LEMMA NextSeedSeeds ==
  ASSUME IInv, SeedsInv, NextSeed, at' # "exit", UNCHANGED <<config, target_level>>
  PROVE  SeedsInv'
<1>1. UNCHANGED <<cmd, seed_ranges>> /\ at = "random" /\ ~AtEnd(seed_it)
      /\ taken' = Append(taken, seed_it.cur) /\ seed_it' = Advance(seed_it)
  BY DEF NextSeed, config
<1>2. /\ cmd \in Commands /\ seed_it \in IteratorType /\ taken \in Seq(Seed)
      /\ ~SetupFails(cmd) /\ seed_ranges = SeedRangesOf(cmd) /\ seed_ranges # <<>>
  BY <1>1 DEF IInv, Typed, SeedsInv
<1>3. UNCHANGED <<Walked, Asking, AskedSeeds>>
  BY <1>1 DEF Walked, Asking, AskedSeeds, Here
<1>4. ASSUME AskedSeeds # <<>>
      PROVE  Walks(Advance(seed_it), Append(taken, seed_it.cur), Walked, Asking, AskedSeeds)
  <2>1. Plan(Walked, Asking, AskedSeeds)
    BY <1>2, <1>4, PlanOfCommand
  <2>2. Walks(seed_it, taken, Walked, Asking, AskedSeeds)
    BY <1>1, <1>4 DEF SeedsInv
  <2>3. QED
    BY <1>1, <1>2, <2>1, <2>2, WalkAdvances
<1>5. QED
  BY <1>1, <1>2, <1>3, <1>4 DEF SeedsInv

LEMMA NextSeeds == IInv /\ ScoreInv /\ SeedsInv /\ [Next]_vars => SeedsInv'
<1> SUFFICES ASSUME IInv, ScoreInv, SeedsInv, [Next]_vars PROVE SeedsInv'
  OBVIOUS
<1>1. CASE DeduceLevel \/ ReadFile \/ ParseCode \/ FixedTest \/ Report
  <2>1. UNCHANGED config /\ at # "exit" /\ at' \notin {"random", "flags"}
    BY <1>1 DEF DeduceLevel, ReadFile, ParseCode, Begins, FixedTest, Report, Printed,
                Caught, Done
  <2>2. QED
    BY <2>1, IdleSeeds
<1>2. CASE Gate
  BY <1>2, GateSeeds
<1>3. CASE SeedsOver \/ Flags
  <2>1. UNCHANGED config /\ at # "exit" /\ at \in {"random", "flags"}
        /\ UNCHANGED <<target_level, seed_it, taken>>
    BY <1>3 DEF SeedsOver, Flags, level, history
  <2>2. QED
    BY <2>1, IdleSeeds
<1>4. CASE NoTest
  <2>1. NextSeed /\ at' # "exit" /\ UNCHANGED <<config, target_level>>
    BY <1>4 DEF NoTest, NextSeed, level
  <2>2. QED
    BY <2>1, NextSeedSeeds
<1>5. CASE RandomTest
  <2>1. NextSeed /\ at' # "exit" /\ UNCHANGED <<config, target_level>>
    BY <1>5 DEF RandomTest, NextSeed, Merge, Returns, level
  <2>2. QED
    BY <2>1, NextSeedSeeds
<1>6. CASE TestThrows
  <2>1. UNCHANGED config /\ at # "exit" /\ at' \notin {"random", "flags"}
    BY <1>6 DEF TestThrows, NextSeed, Caught, Done
  <2>2. QED
    BY <2>1, IdleSeeds
<1>7. CASE Signal \/ UNCHANGED vars
  <2>1. UNCHANGED config /\ UNCHANGED <<at, target_level, seed_it, taken>>
    BY <1>7 DEF Signal, vars, level, history
  <2>2. QED
    BY <2>1, IdleSeeds
<1>8. QED
  BY <1>1, <1>2, <1>3, <1>4, <1>5, <1>6, <1>7 DEF Next, Main

LEMMA SeedsFollow == IInv /\ SeedsInv => SeedsExact
<1> SUFFICES ASSUME IInv, SeedsInv, at \in {"random", "flags"}, AskedSeeds # <<>>
             PROVE  /\ IsPrefix(taken, AskedSeeds)
                    /\ AtEnd(seed_it) => taken = AskedSeeds
                    /\ Here.inputs /\ Len(AskedSeeds) <= seed_max =>
                         total_random_tests(seed_ranges) = Len(AskedSeeds)
  BY DEF SeedsExact
<1>1. /\ cmd \in Commands /\ seed_it \in IteratorType /\ taken \in Seq(Seed)
      /\ ~SetupFails(cmd) /\ seed_ranges = SeedRangesOf(cmd) /\ seed_ranges # <<>>
      /\ Walks(seed_it, taken, Walked, Asking, AskedSeeds)
  BY DEF IInv, Typed, SeedsInv
<1>2. Plan(Walked, Asking, AskedSeeds)
  BY <1>1, PlanOfCommand
<1>3. IsPrefix(taken, AskedSeeds) /\ (AtEnd(seed_it) => taken = AskedSeeds)
  BY <1>1, <1>2, WalkIsPrefix
<1>4. ASSUME Here.inputs, Len(AskedSeeds) <= seed_max
      PROVE  total_random_tests(seed_ranges) = Len(AskedSeeds)
  <2>1. PICK offset \in [0 .. Len(Asking) -> Nat] : LaysOut(offset, Asking, AskedSeeds)
    BY <1>1 DEF Walks
  <2>2. Walked = seed_ranges
    BY <1>4 DEF Walked
  <2>3. /\ Walked \in Seq(RangeType) /\ Len(Asking) = Len(Walked)
        /\ \A k \in 1 .. Len(Walked) : Meets(Walked[k], Asking[k])
        /\ AskedSeeds \in Seq(Seed)
    BY <1>2 DEF Plan
  <2>4. Len(AskedSeeds) \in Nat /\ offset \in [0 .. Len(Walked) -> Nat]
    BY <2>1, <2>3, LenProperties
  <2>5. total_random_tests(Walked) = Len(AskedSeeds)
    BY <1>4, <2>1, <2>3, <2>4, TotalIsLength
  <2>6. QED
    BY <2>2, <2>5
<1>5. QED
  BY <1>3, <1>4

(* Whatever ranges or count the command line gives, the random tests take  *)
(* exactly the seeds asked for, in that order, also across the wrap of a   *)
(* range's end to 0, and their number is known in advance below 2^32       *)
(* (parse_int, parse_ranges, add_seed_range, seed_range_iterator).         *)
THEOREM SeedsAlwaysExact == Spec => []SeedsExact
<1>1. IInv /\ ScoreInv /\ [Next]_vars => ScoreInv'
  BY NextScore
<1>2. IInv /\ ScoreInv /\ SeedsInv /\ [Next]_vars => SeedsInv'
  BY NextSeeds
<1>3. IInv /\ SeedsInv => SeedsExact
  BY SeedsFollow
<1>4. QED
  BY <1>1, <1>2, <1>3, InitScore, InitSeeds, Always, PTL DEF Spec
=============================================================================
