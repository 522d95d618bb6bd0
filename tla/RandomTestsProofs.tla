-------------------------- MODULE RandomTestsProofs -------------------------
(***************************************************************************)
(* Proofs about RandomTests for every number of threads and seeds, every   *)
(* outcome, limit and rate.                                                *)
(***************************************************************************)
EXTENDS RandomTests, TLAPS, FiniteSetTheorems

-----------------------------------------------------------------------------
(* Maxima of sets of integers                                              *)

LEMMA MaxOf ==
  ASSUME NEW S \in SUBSET Int, NEW m \in S, \A x \in S : m >= x
  PROVE  Max(S) = m
<1>1. \A x \in S : (\A y \in S : x >= y) => x = m
  OBVIOUS
<1>2. QED
  BY <1>1 DEF Max

(* A finite set has a maximum: among its subsets that had none, one would  *)
(* be smallest, and one element less would leave one that has.             *)
LEMMA FiniteMax ==
  ASSUME NEW S \in SUBSET Int, IsFiniteSet(S), S # {}
  PROVE  \E m \in S : \A x \in S : m >= x
<1> DEFINE HasMax(X) == \E m \in X : \A x \in X : m >= x
           T == {X \in SUBSET S : X # {} /\ ~HasMax(X)}
<1>1. SUFFICES ASSUME T # {} PROVE FALSE
  OBVIOUS
<1>2. T \subseteq FiniteSubsetsOf(S)
  BY FS_FiniteSubsetsOfFinite
<1>3. PICK X \in T : \A Y \in T : <<Y, X>> \notin StrictSubsetOrdering(S)
  BY <1>1, <1>2, FS_StrictSubsetOrderingWellFounded, WFMin
<1>4. PICK x \in X : TRUE
  OBVIOUS
<1> DEFINE Y == X \ {x}
<1>5. Y \notin T
  BY <1>3, <1>4 DEF StrictSubsetOrdering
<1>6. CASE Y = {}
  <2>1. X = {x} /\ x \in Int
    BY <1>4, <1>6
  <2>2. HasMax(X)
    BY <2>1
  <2>3. QED
    BY <2>2
<1>7. CASE Y # {}
  <2>1. PICK m \in Y : \A y \in Y : m >= y
    BY <1>5, <1>7
  <2>2. m \in Int /\ x \in Int /\ X = Y \cup {x}
    BY <1>4
  <2>3. CASE m >= x
    <3>1. m \in X /\ \A y \in X : m >= y
      BY <2>1, <2>2, <2>3
    <3>2. QED
      BY <3>1
  <2>4. CASE x > m
    <3>1. \A y \in X : x >= y
      <4> TAKE y \in X
      <4>1. y \in Int /\ (y = x \/ m >= y)
        BY <2>1, <2>2
      <4>2. QED
        BY <2>2, <2>4, <4>1
    <3>2. QED
      BY <3>1
  <2>5. QED
    BY <2>2, <2>3, <2>4
<1>8. QED
  BY <1>6, <1>7

LEMMA LongestType == longest_test \in Nat \ {0}
<1> DEFINE n == random_cycles_limit
<1>1. n \in Nat /\ {1, n} \in SUBSET Int
  BY RandomTestsAssumption
<1>2. CASE n = 0
  <2>1. Max({1, n}) = 1
    BY <1>1, <1>2, MaxOf
  <2>2. QED
    BY <2>1 DEF longest_test
<1>3. CASE n >= 1
  <2>1. Max({1, n}) = n
    BY <1>1, <1>3, MaxOf
  <2>2. QED
    BY <1>1, <1>3, <2>1 DEF longest_test
<1>4. QED
  BY <1>1, <1>2, <1>3

LEMMA TimesMonotone ==
  ASSUME NEW a \in Nat, NEW b \in Nat, NEW c \in Nat, a <= b
  PROVE  a * c <= b * c
OBVIOUS

LEMMA TimesSuccessor ==
  ASSUME NEW n \in Nat, NEW c \in Nat
  PROVE  n * c \in Nat /\ (n + 1) * c = n * c + c
OBVIOUS

LEMMA DivisionFloors ==
  ASSUME NEW n \in Nat, NEW d \in Nat \ {0}
  PROVE  n \div d \in Nat /\ (n \div d) * d <= n
OBVIOUS

LEMMA LessTimes ==
  ASSUME NEW a \in Nat, NEW b \in Nat, NEW c \in Nat \ {0}, a < b
  PROVE  a * c < c * b
OBVIOUS

-----------------------------------------------------------------------------
(* The inductive invariant                                                 *)

(* What is worked on or merged has been taken from the iterator.           *)
SeedsTaken ==
  /\ merged \subseteq {k \in Tested : k < seed_it}
  /\ \A t \in Busy : seed[t] \in Seeds /\ seed[t] < seed_it

(* A task that got past the generator has a test; past the check of        *)
(* stop_requested, its score is the test's own.                            *)
Genuine ==
  \A t \in Threads :
    /\ pc[t] \in {"run", "check", "merge"} => outcome[seed[t]] # no_test
    /\ pc[t] = "check" => last[t] = outcome[seed[t]] \/ stop_requested
    /\ pc[t] = "merge" => last[t] = outcome[seed[t]]

(* No seed that was taken gets lost, but for a signal.                     *)
AccountedFor ==
  \A k \in Seeds : k < seed_it =>
    \/ k \in merged \/ outcome[k] = no_test \/ stop_requested
    \/ \E t \in Busy : seed[t] = k

(* Why a task returns; a reason once given remains one.                    *)
HadReason ==
  \A t \in Threads : pc[t] = "returned" =>
    \/ seed_it \notin Seeds \/ stop_requested
    \/ SurelyCheat(worst) \/ Exhausted(total_cycles)

(* The numbers of worst, and its cycles as the longest of the passes.      *)
Counted ==
  /\ worst.ran = Cardinality(merged)
  /\ worst.valid = Cardinality(Passed(merged))
  /\ worst.validated <=> Passed(merged) # {}
  /\ worst.cycles = 0 \/ \E k \in Passed(merged) : worst.cycles = outcome[k].cycles
  /\ \A k \in Passed(merged) : worst.cycles >= outcome[k].cycles

(* What is reported is what the threads left when they were joined.        *)
ReportTrue ==
  Reported =>
    /\ \A t \in Threads : pc[t] = "returned"
    /\ sc = [ran |-> worst.ran, valid |-> worst.valid, cycles |-> worst.cycles,
             cheat |-> Cheat(worst.ran, worst.valid),
             hardcoded |-> Hardcoded(worst.ran, worst.valid)]

(* Past the limit, every test that is added sends a task home.             *)
Home == {t \in Threads : pc[t] = "returned"}

Bound == Max({total_cycles_limit} \cup {c + 1 : c \in fixed_cycles})

OvershootPaid ==
  total_cycles < Bound + Cardinality(Home) * longest_test

(* A task that began a test after the signal does not merge it, nor come   *)
(* back for another.                                                       *)
LateOnce ==
  \A t \in Threads : late[t] # 0 =>
    stop_requested /\ late[t] = 1 /\ pc[t] \in {"run", "check", "returned"}

IInv ==
  /\ Types /\ SeedsTaken /\ Genuine /\ EachSeedOnce /\ Counted
  /\ AccountedFor /\ HadReason /\ ReportTrue /\ OvershootPaid /\ LateOnce

-----------------------------------------------------------------------------
(* What the steps need to know of the constants and of sets of seeds       *)

LEMMA FiniteSeeds ==
  ASSUME NEW S \in SUBSET Seeds
  PROVE  IsFiniteSet(S) /\ Cardinality(S) \in Nat
<1>1. IsFiniteSet(Seeds)
  BY FS_Interval, RandomTestsAssumption DEF Seeds
<1>2. QED
  BY <1>1, FS_Subset, FS_CardinalityType

LEMMA FinitePassed ==
  ASSUME NEW S \in SUBSET Seeds
  PROVE  /\ Passed(S) \in SUBSET Seeds /\ IsFiniteSet(Passed(S))
         /\ Cardinality(Passed(S)) \in Nat
         /\ Cardinality(Passed(S)) <= Cardinality(S)
BY FiniteSeeds, FS_Subset DEF Passed

LEMMA FiniteHome ==
  /\ IsFiniteSet(Home) /\ Cardinality(Home) \in Nat
  /\ Cardinality(Home) <= Cardinality(Threads)
<1>1. Home \in SUBSET Threads /\ IsFiniteSet(Threads)
  BY RandomTestsAssumption DEF Home
<1>2. QED
  BY <1>1, FS_Subset, FS_CardinalityType

(* Bound exceeds what the fixed tests may have left, and is no less than   *)
(* the limit.                                                              *)
LEMMA BoundFacts ==
  /\ Bound \in Nat /\ Bound >= total_cycles_limit
  /\ \A c \in fixed_cycles : c < Bound
<1> DEFINE S == {total_cycles_limit} \cup {c + 1 : c \in fixed_cycles}
<1>1. S \in SUBSET Int /\ S \subseteq Nat /\ total_cycles_limit \in S
  BY RandomTestsAssumption
<1>2. \E m \in S : \A x \in S : m >= x
  <2>1. CASE fixed_cycles = {}
    BY <1>1, <2>1
  <2>2. CASE fixed_cycles # {}
    <3>1. fixed_cycles \in SUBSET Int /\ IsFiniteSet(fixed_cycles)
      BY RandomTestsAssumption
    <3>2. PICK d \in fixed_cycles : \A c \in fixed_cycles : d >= c
      BY <2>2, <3>1, FiniteMax
    <3>3. d \in Nat /\ d + 1 \in S
      BY RandomTestsAssumption
    <3>4. \A c \in fixed_cycles : d + 1 >= c + 1
      BY <3>2, RandomTestsAssumption
    <3>5. CASE d + 1 >= total_cycles_limit
      <4>1. \A x \in S : d + 1 >= x
        BY <3>4, <3>5
      <4>2. QED
        BY <3>3, <4>1
    <3>6. CASE total_cycles_limit > d + 1
      <4>1. \A c \in fixed_cycles : total_cycles_limit >= c + 1
        BY <3>2, <3>3, <3>6, RandomTestsAssumption
      <4>2. \A x \in S : total_cycles_limit >= x
        BY <4>1, RandomTestsAssumption
      <4>3. QED
        BY <1>1, <4>2
    <3>7. QED
      BY <3>3, <3>5, <3>6, RandomTestsAssumption
  <2>3. QED
    BY <2>1, <2>2
<1>3. PICK m \in S : \A x \in S : m >= x
  BY <1>2
<1>4. Bound = m
  BY <1>1, <1>3, MaxOf DEF Bound
<1>5. \A c \in fixed_cycles : m >= c + 1
  BY <1>3
<1>6. QED
  BY <1>1, <1>3, <1>4, <1>5, RandomTestsAssumption

-----------------------------------------------------------------------------
(* What a task's step leaves true whatever else it does                    *)

LEMMA NothingMerged ==
  ASSUME Counted, UNCHANGED <<outcome, worst, merged>>
  PROVE  Counted'
BY DEF Counted, Passed

(* Nothing has been reported while a task has not returned.                *)
LEMMA NotYetReported ==
  ASSUME ReportTrue, NEW t \in Threads, pc[t] # "returned", sc' = sc
  PROVE  ReportTrue'
BY DEF ReportTrue, Reported

LEMMA OneGoesHome ==
  ASSUME Types, NEW t \in Threads, pc[t] # "returned", NEW l,
         pc' = [pc EXCEPT ![t] = l]
  PROVE  /\ l = "returned" => Cardinality(Home') = Cardinality(Home) + 1
         /\ l # "returned" => Cardinality(Home') = Cardinality(Home)
<1>1. DOMAIN pc = Threads
  BY DEF Types
<1>2. ASSUME l = "returned" PROVE Cardinality(Home') = Cardinality(Home) + 1
  <2>1. Home' = Home \cup {t} /\ t \notin Home
    BY <1>1, <1>2 DEF Home
  <2>2. QED
    BY <2>1, FiniteHome, FS_AddElement
<1>3. ASSUME l # "returned" PROVE Home' = Home
  BY <1>1, <1>3 DEF Home
<1>4. QED
  BY <1>2, <1>3

LEMMA NothingSpent ==
  ASSUME Types, OvershootPaid, NEW t \in Threads, pc[t] # "returned", NEW l,
         pc' = [pc EXCEPT ![t] = l], total_cycles' = total_cycles
  PROVE  OvershootPaid'
<1> DEFINE n == Cardinality(Home)
           R == longest_test
<1>1. n \in Nat /\ R \in Nat /\ Bound \in Nat /\ total_cycles \in Nat
  BY FiniteHome, BoundFacts, LongestType DEF Types
<1>2. n * R \in Nat /\ (n + 1) * R = n * R + R
  BY <1>1, TimesSuccessor
<1>3. Cardinality(Home') = n \/ Cardinality(Home') = n + 1
  BY <1>1, OneGoesHome
<1>4. total_cycles < Bound + n * R
  BY DEF OvershootPaid
<1>5. Cardinality(Home') * R = n * R \/ Cardinality(Home') * R = n * R + R
  BY <1>2, <1>3
<1> HIDE DEF n, R
<1>6. total_cycles < Bound + Cardinality(Home') * R
  BY <1>1, <1>2, <1>4, <1>5
<1>7. QED
  BY <1>6 DEF OvershootPaid, R

-----------------------------------------------------------------------------
(* The initial states                                                      *)

LEMMA Initially ==
  ASSUME Init
  PROVE  IInv
<1>1. Types
  <2>1. seed_it \in 1 .. total_random_tests + 1 /\ total_cycles \in Nat
    BY RandomTestsAssumption DEF Init
  <2>2. worst \in [ran : Nat, valid : Nat, validated : BOOLEAN, cycles : Nat]
    BY DEF Init
  <2>3. sc \in [ran : Nat \cup {-1}, valid : Nat, cycles : Nat,
               cheat : BOOLEAN, hardcoded : BOOLEAN]
    BY DEF Init, unreported
  <2>4. /\ pc \in [Threads -> {"take", "generate", "run", "check", "merge",
                               "returned"}]
        /\ seed \in [Threads -> Seeds \cup {0}]
        /\ last \in [Threads -> Score \cup {no_test}]
        /\ late \in [Threads -> Nat]
    BY DEF Init
  <2>5. QED
    BY <2>1, <2>2, <2>3, <2>4 DEF Init, Types
<1>2. Busy = {} /\ Home = {} /\ ~Reported
  BY DEF Init, Busy, Home, Reported
<1>3. SeedsTaken /\ EachSeedOnce /\ Genuine
  BY <1>2 DEF Init, SeedsTaken, EachSeedOnce, Genuine, Busy
<1>4. Counted
  BY FS_EmptySet DEF Init, Counted, Passed
<1>5. AccountedFor /\ HadReason /\ ReportTrue
  BY <1>2, RandomTestsAssumption
     DEF Init, AccountedFor, HadReason, ReportTrue, Seeds
<1>6. OvershootPaid
  <2>1. total_cycles \in fixed_cycles /\ total_cycles \in Nat
    BY RandomTestsAssumption DEF Init
  <2>2. Cardinality(Home) * longest_test = 0
    BY <1>2, FS_EmptySet, LongestType
  <2>3. QED
    BY <2>1, <2>2, BoundFacts DEF OvershootPaid
<1>7. LateOnce
  BY DEF Init, LateOnce
<1>8. QED
  BY <1>1, <1>3, <1>4, <1>5, <1>6, <1>7 DEF IInv

-----------------------------------------------------------------------------
(* One lemma for each action                                               *)

(* The steps of a task that leave worst and what was reported alone.       *)
LEMMA Quiet ==
  ASSUME IInv, NEW t \in Threads, pc[t] # "returned", NEW l,
         pc' = [pc EXCEPT ![t] = l],
         UNCHANGED <<outcome, worst, total_cycles, merged, sc>>
  PROVE  Counted' /\ ReportTrue' /\ OvershootPaid'
BY NothingMerged, NotYetReported, NothingSpent DEF IInv

(* The steps that count no test, of a task that owes the signal none or    *)
(* goes on to where it may.                                                *)
LEMMA NotLate ==
  ASSUME IInv, NEW t \in Threads, NEW l, pc' = [pc EXCEPT ![t] = l],
         late' = late, stop_requested' = stop_requested,
         late[t] = 0 \/ l \in {"run", "check", "returned"}
  PROVE  LateOnce'
BY DEF IInv, Types, LateOnce

LEMMA TakeStep ==
  ASSUME IInv, NEW t \in Threads, Take(t)
  PROVE  IInv'
<1> USE DEF IInv
<1>1. /\ pc[t] = "take" /\ t \notin Busy
      /\ DOMAIN pc = Threads /\ DOMAIN seed = Threads
      /\ late[t] = 0
      /\ UNCHANGED <<outcome, worst, total_cycles, merged, last, late,
                     stop_requested, sc>>
  BY DEF Take, GoTo, Busy, Types, LateOnce
<1>2. CASE /\ seed_it \notin Seeds /\ pc' = [pc EXCEPT ![t] = "returned"]
           /\ UNCHANGED <<seed_it, seed>>
  <2>1. Types'
    BY <1>1, <1>2 DEF Types
  <2>2. Busy' = Busy
    BY <1>1, <1>2 DEF Busy
  <2>3. SeedsTaken' /\ EachSeedOnce' /\ AccountedFor'
    BY <1>1, <1>2, <2>2 DEF SeedsTaken, EachSeedOnce, AccountedFor, Tested
  <2>4. Genuine'
    BY <1>1, <1>2 DEF Genuine
  <2>5. HadReason'
    BY <1>1, <1>2 DEF HadReason
  <2>6. QED
    BY <1>1, <1>2, <2>1, <2>3, <2>4, <2>5, Quiet, NotLate
<1>3. CASE /\ seed_it \in Seeds /\ pc' = [pc EXCEPT ![t] = "generate"]
           /\ seed' = [seed EXCEPT ![t] = seed_it]
           /\ seed_it' = seed_it + 1
  <2>1. Types'
    BY <1>1, <1>3, RandomTestsAssumption DEF Types, Seeds
  <2>2. /\ Busy' = Busy \cup {t} /\ seed'[t] = seed_it
        /\ \A u \in Busy : seed'[u] = seed[u]
    BY <1>1, <1>3 DEF Busy
  <2>3. SeedsTaken'
    BY <1>1, <1>3, <2>2 DEF SeedsTaken, Tested, Types, Seeds
  <2>4. EachSeedOnce'
    BY <1>1, <1>3, <2>2 DEF EachSeedOnce, SeedsTaken, Types
  <2>5. AccountedFor'
    BY <1>1, <1>3, <2>2 DEF AccountedFor, Types, Seeds
  <2>6. Genuine'
    BY <1>1, <1>3 DEF Genuine
  <2>7. HadReason'
    <3>1. \A u \in Threads : pc'[u] = "returned" => pc[u] = "returned"
      BY <1>1, <1>3
    <3>2. SurelyCheat(worst)' = SurelyCheat(worst)
          /\ Exhausted(total_cycles)' = Exhausted(total_cycles)
      BY <1>1 DEF SurelyCheat, Exhausted
    <3>3. QED
      BY <1>1, <1>3, <3>1, <3>2 DEF HadReason
  <2>8. QED
    BY <1>1, <1>3, <2>1, <2>3, <2>4, <2>5, <2>6, <2>7, Quiet, NotLate
<1>4. QED
  BY <1>2, <1>3 DEF Take, GoTo, Successor

LEMMA RandomTestStep ==
  ASSUME IInv, NEW t \in Threads, RandomTest(t)
  PROVE  IInv'
<1> USE DEF IInv
<1> DEFINE l == IF outcome[seed[t]] = no_test THEN "take" ELSE "run"
<1>1. /\ pc[t] = "generate" /\ pc' = [pc EXCEPT ![t] = l] /\ t \in Busy
      /\ DOMAIN pc = Threads /\ DOMAIN late = Threads
      /\ late' \in {late, [late EXCEPT ![t] = @ + 1]}
      /\ UNCHANGED <<outcome, seed_it, worst, total_cycles, merged, seed, last,
                     stop_requested, sc>>
  BY DEF RandomTest, Late, GoTo, shared, Busy, Types
<1>1a. late[t] = 0
  BY <1>1 DEF LateOnce
<1>1b. LateOnce'
  <2>1. CASE late' = late
    BY <1>1, <1>1a, <2>1, NotLate
  <2>2. CASE late' # late
    <3>1. /\ stop_requested /\ l = "run" /\ late'[t] = 1
          /\ \A u \in Threads \ {t} : late'[u] = late[u] /\ pc'[u] = pc[u]
      BY <1>1, <1>1a, <2>2 DEF RandomTest, Late
    <3>2. QED
      BY <1>1, <3>1 DEF LateOnce
  <2>3. QED
    BY <2>1, <2>2
<1>2. Types'
  <2>1. late' \in [Threads -> Nat]
    BY <1>1 DEF Types
  <2>2. QED
    BY <1>1, <2>1 DEF Types
<1>3. Busy' = IF outcome[seed[t]] = no_test THEN Busy \ {t} ELSE Busy
  BY <1>1 DEF Busy
<1>4. SeedsTaken' /\ EachSeedOnce'
  BY <1>1, <1>3 DEF SeedsTaken, EachSeedOnce, Tested
<1>5. AccountedFor'
  BY <1>1, <1>3 DEF AccountedFor
<1>6. Genuine'
  BY <1>1 DEF Genuine
<1>7. HadReason'
  BY <1>1 DEF HadReason, SurelyCheat, Exhausted
<1>8. QED
  BY <1>1, <1>1b, <1>2, <1>4, <1>5, <1>6, <1>7, Quiet

LEMMA RunStep ==
  ASSUME IInv, NEW t \in Threads, Run(t)
  PROVE  IInv'
<1> USE DEF IInv
<1>1. PICK s \in Returns(seed[t]) : last' = [last EXCEPT ![t] = s]
  BY DEF Run
<1>2. /\ pc[t] = "run" /\ pc' = [pc EXCEPT ![t] = "check"] /\ t \in Busy
      /\ DOMAIN pc = Threads /\ DOMAIN last = Threads
      /\ UNCHANGED <<outcome, seed_it, worst, total_cycles, merged, seed, late,
                     stop_requested, sc>>
  BY DEF Run, GoTo, shared, Busy, Types
<1>3. /\ s \in Score \cup {no_test}
      /\ s = outcome[seed[t]] \/ stop_requested
  <2>1. seed[t] \in Seeds /\ outcome[seed[t]] \in Score
    BY <1>2 DEF Types, SeedsTaken, Genuine
  <2>2. outcome[seed[t]].cycles \in 1 .. longest_test
    BY <2>1 DEF Score
  <2>3. CASE s = outcome[seed[t]]
    BY <2>1, <2>3
  <2>4. CASE s # outcome[seed[t]]
    <3>1. PICK c \in 1 .. outcome[seed[t]].cycles :
            stop_requested /\ s = [validated |-> FALSE, cycles |-> c]
      BY <2>4 DEF Returns
    <3>2. c \in 1 .. longest_test
      BY <2>2, <3>1, LongestType
    <3>3. QED
      BY <3>1, <3>2 DEF Score
  <2>5. QED
    BY <2>3, <2>4
<1>4. Types'
  BY <1>1, <1>2, <1>3 DEF Types
<1>5. Busy' = Busy
  BY <1>2 DEF Busy
<1>6. SeedsTaken' /\ EachSeedOnce' /\ AccountedFor'
  BY <1>2, <1>5 DEF SeedsTaken, EachSeedOnce, AccountedFor, Tested
<1>7. Genuine'
  BY <1>1, <1>2, <1>3 DEF Genuine
<1>8. HadReason'
  BY <1>2 DEF HadReason, SurelyCheat, Exhausted
<1>9. QED
  BY <1>2, <1>4, <1>6, <1>7, <1>8, Quiet, NotLate

LEMMA CheckStopStep ==
  ASSUME IInv, NEW t \in Threads, CheckStop(t)
  PROVE  IInv'
<1> USE DEF IInv
<1> DEFINE l == IF stop_requested THEN "returned" ELSE "merge"
<1>1. /\ pc[t] = "check" /\ pc' = [pc EXCEPT ![t] = l] /\ t \in Busy
      /\ DOMAIN pc = Threads
      /\ late[t] = 0 \/ l = "returned"
      /\ UNCHANGED <<outcome, seed_it, worst, total_cycles, merged, seed, last,
                     late, stop_requested, sc>>
  BY DEF CheckStop, GoTo, shared, Busy, Types, LateOnce
<1>2. Types'
  BY <1>1 DEF Types
<1>3. Busy' = IF stop_requested THEN Busy \ {t} ELSE Busy
  BY <1>1 DEF Busy
<1>4. SeedsTaken' /\ EachSeedOnce'
  BY <1>1, <1>3 DEF SeedsTaken, EachSeedOnce, Tested
<1>5. AccountedFor'
  BY <1>1, <1>3 DEF AccountedFor
<1>6. Genuine'
  BY <1>1 DEF Genuine
<1>7. HadReason'
  BY <1>1 DEF HadReason, SurelyCheat, Exhausted
<1>8. QED
  BY <1>1, <1>2, <1>4, <1>5, <1>6, <1>7, Quiet, NotLate

(* Another fail, or another pass, takes away no reason to give up.         *)
LEMMA StaysACheat ==
  ASSUME NEW v \in Nat, NEW r \in Nat, NEW w, NEW x,
         w.valid = v, w.ran = r, x.ran = r + 1,
         x.valid = v \/ x.valid = v + 1,
         SurelyCheat(w)
  PROVE  SurelyCheat(x)
<1>1. v * cheat_den <= (v + 1) * cheat_den
  BY TimesMonotone, RandomTestsAssumption
<1> DEFINE a == v * cheat_den
           b == (v + 1) * cheat_den
           k == cheat_num * total_random_tests
<1>2. a \in Nat /\ b \in Nat /\ k \in Nat
  BY RandomTestsAssumption
<1>3. ~compute_stats /\ a >= k /\ v < r
  BY DEF SurelyCheat
<1> HIDE DEF a, b, k
<1>4. b >= k /\ v + 1 < r + 1 /\ v < r + 1
  BY <1>1, <1>2, <1>3 DEF a, b
<1>5. x.valid * cheat_den >= k /\ x.valid < x.ran
  BY <1>3, <1>4 DEF a, b
<1>6. QED
  BY <1>3, <1>5 DEF SurelyCheat, k

LEMMA MergeCounts ==
  ASSUME IInv, NEW t \in Threads, Merge(t)
  PROVE  Counted'
<1> DEFINE k == seed[t]
           s == outcome[k]
<1>1. /\ last[t] = s /\ s \in Score /\ k \in Seeds /\ k \notin merged
      /\ merged' = merged \cup {k} /\ outcome' = outcome
      /\ worst' = Merged(s)
  BY DEF IInv, Merge, GoTo, Genuine, Types, SeedsTaken, EachSeedOnce, Busy
<1>2. /\ s.validated \in BOOLEAN /\ s.cycles \in Nat
      /\ worst.cycles \in Nat
      /\ \A j \in Passed(merged) : outcome[j].cycles \in Nat
  <2>1. \A j \in Seeds : outcome[j].cycles \in Nat
    <3>1. \A j \in Seeds : outcome[j] \in Score \cup {no_test}
      BY DEF IInv, Types
    <3>2. QED
      BY <3>1, RandomTestsAssumption DEF Score, no_test
  <2>2. Passed(merged) \subseteq Seeds
    BY DEF IInv, Types, Passed
  <2>3. QED
    BY <1>1, <2>1, <2>2 DEF IInv, Types, Score
<1>3. Passed(merged)' = Passed(merged) \cup (IF s.validated THEN {k} ELSE {})
  BY <1>1 DEF Passed
<1>4. /\ merged \in SUBSET Seeds
      /\ IsFiniteSet(merged) /\ IsFiniteSet(Passed(merged))
      /\ k \notin Passed(merged)
  BY <1>1, FiniteSeeds, FinitePassed DEF IInv, Types, Passed
<1>5. Cardinality(merged') = Cardinality(merged) + 1
  BY <1>1, <1>4, FS_AddElement
<1>6. Cardinality(Passed(merged)') =
        Cardinality(Passed(merged)) + (IF s.validated THEN 1 ELSE 0)
  <2>1. CASE s.validated
    <3>1. Passed(merged)' = Passed(merged) \cup {k}
      BY <1>3, <2>1
    <3>2. QED
      BY <1>4, <2>1, <3>1, FS_AddElement
  <2>2. CASE ~s.validated
    <3>1. Passed(merged)' = Passed(merged) /\ Cardinality(Passed(merged)) \in Nat
      BY <1>3, <1>4, <2>2, FS_CardinalityType
    <3>2. QED
      BY <2>2, <3>1
  <2>3. QED
    BY <2>1, <2>2
<1>7. /\ worst'.ran = Cardinality(merged')
      /\ worst'.valid = Cardinality(Passed(merged)')
  BY <1>1, <1>5, <1>6 DEF IInv, Counted, Merged
<1>8. worst'.validated <=> Passed(merged)' # {}
  BY <1>1, <1>3 DEF IInv, Counted, Merged
<1>9. /\ worst'.cycles = 0 \/ \E j \in Passed(merged)' : worst'.cycles = outcome[j].cycles
      /\ \A j \in Passed(merged)' : worst'.cycles >= outcome[j].cycles
  <2>1. /\ worst.cycles = 0 \/ \E j \in Passed(merged) : worst.cycles = outcome[j].cycles
        /\ \A j \in Passed(merged) : worst.cycles >= outcome[j].cycles
    BY DEF IInv, Counted
  <2>2. CASE s.validated /\ s.cycles > worst.cycles
    <3>1. worst'.cycles = s.cycles /\ k \in Passed(merged)'
      BY <1>1, <1>3, <2>2 DEF Merged
    <3>2. \A j \in Passed(merged) : s.cycles >= outcome[j].cycles
      BY <1>2, <2>1, <2>2
    <3>3. QED
      BY <1>2, <1>3, <2>2, <3>1, <3>2
  <2>3. CASE ~(s.validated /\ s.cycles > worst.cycles)
    <3>1. worst'.cycles = worst.cycles
      BY <1>1, <2>3 DEF Merged
    <3>2. \A j \in Passed(merged)' : worst.cycles >= outcome[j].cycles
      BY <1>2, <1>3, <2>1, <2>3
    <3>3. QED
      BY <1>3, <2>1, <3>1, <3>2
  <2>4. QED
    BY <2>2, <2>3
<1>10. QED
  BY <1>1, <1>7, <1>8, <1>9 DEF Counted

(* Past the limit the merging task goes home, and its place there pays for *)
(* its own next test.                                                      *)
LEMMA MergePays ==
  ASSUME IInv, NEW t \in Threads, Merge(t)
  PROVE  OvershootPaid' /\ total_cycles' \in Nat /\ total_cycles' >= total_cycles
<1> DEFINE c == last[t].cycles
           R == longest_test
           n == Cardinality(Home)
           m == Cardinality(Home')
<1>1. /\ pc[t] = "merge" /\ total_cycles' = total_cycles + c
      /\ pc' = [pc EXCEPT ![t] =
                  IF SurelyCheat(worst') \/ Exhausted(total_cycles')
                  THEN "returned" ELSE "take"]
  BY DEF Merge, GoTo
<1>2. c \in Nat /\ c <= R
  <2>1. last[t] \in Score \cup {no_test}
    BY DEF IInv, Types
  <2>2. QED
    BY <2>1, LongestType DEF Score, no_test
<1>3. /\ n \in Nat /\ R \in Nat /\ Bound \in Nat /\ total_cycles \in Nat
      /\ total_cycles < Bound + n * R
  BY FiniteHome, BoundFacts, LongestType
     DEF IInv, Types, OvershootPaid
<1>4. n * R \in Nat /\ (n + 1) * R = n * R + R
  BY <1>3, TimesSuccessor
<1>5. CASE Exhausted(total_cycles')
  <2>1. m = n + 1
    BY <1>1, <1>5, OneGoesHome DEF IInv
  <2>2. m * R = n * R + R
    BY <1>4, <2>1
  <2> HIDE DEF c, R, n, m
  <2>3. total_cycles + c < Bound + m * R
    BY <1>2, <1>3, <1>4, <2>2
  <2>4. QED
    BY <1>1, <1>2, <1>3, <2>3 DEF OvershootPaid, R, m
<1>6. CASE ~Exhausted(total_cycles')
  <2>1. m = n \/ m = n + 1
    BY <1>1, OneGoesHome DEF IInv
  <2>2. m * R \in Nat
    BY <1>3, <1>4, <2>1
  <2>3. total_cycles + c < Bound
    BY <1>1, <1>2, <1>3, <1>6, BoundFacts, RandomTestsAssumption DEF Exhausted
  <2> HIDE DEF c, R, n, m
  <2>4. total_cycles + c < Bound + m * R
    BY <1>2, <1>3, <2>2, <2>3
  <2>5. QED
    BY <1>1, <1>2, <1>3, <2>4 DEF OvershootPaid, R, m
<1>7. QED
  BY <1>5, <1>6

LEMMA MergeStep ==
  ASSUME IInv, NEW t \in Threads, Merge(t)
  PROVE  IInv'
<1> USE DEF IInv
<1> DEFINE l == IF SurelyCheat(worst') \/ Exhausted(total_cycles')
                THEN "returned" ELSE "take"
<1>1. /\ pc[t] = "merge" /\ pc' = [pc EXCEPT ![t] = l] /\ t \in Busy
      /\ worst' = Merged(last[t]) /\ merged' = merged \cup {seed[t]}
      /\ DOMAIN pc = Threads
      /\ seed[t] \in Seeds
      /\ last[t] \in Score \cup {no_test}
      /\ late[t] = 0
      /\ UNCHANGED <<outcome, seed_it, seed, last, late, stop_requested, sc>>
  BY DEF Merge, GoTo, Busy, Types, SeedsTaken, LateOnce
<1>2. Counted' /\ OvershootPaid' /\ ReportTrue'
  BY <1>1, MergeCounts, MergePays, NotYetReported
<1>3. Types'
  <2>1. last[t].validated \in BOOLEAN /\ last[t].cycles \in Nat
    <3>1. CASE last[t] \in Score
      BY <3>1, RandomTestsAssumption DEF Score
    <3>2. CASE last[t] = no_test
      BY <3>2 DEF no_test
    <3>3. QED
      BY <1>1, <3>1, <3>2
  <2>2. worst' \in [ran : Nat, valid : Nat, validated : BOOLEAN, cycles : Nat]
    BY <1>1, <2>1 DEF Types, Merged
  <2>3. pc' \in [Threads -> {"take", "generate", "run", "check", "merge",
                             "returned"}]
    BY <1>1 DEF Types
  <2>4. QED
    BY <1>1, <2>2, <2>3, MergePays DEF Types
<1>4. Busy' = Busy \ {t}
  BY <1>1 DEF Busy
<1>5. SeedsTaken'
  <2>1. outcome[seed[t]] # no_test /\ seed[t] < seed_it
    BY <1>1 DEF Genuine, SeedsTaken
  <2>2. QED
    BY <1>1, <1>4, <2>1 DEF SeedsTaken, Tested
<1>6. EachSeedOnce'
  BY <1>1, <1>4 DEF EachSeedOnce
<1>7. AccountedFor'
  BY <1>1, <1>4 DEF AccountedFor
<1>8. Genuine'
  BY <1>1 DEF Genuine
<1>9. HadReason'
  <2>1. SurelyCheat(worst) => SurelyCheat(worst')
    <3>1. /\ worst.valid \in Nat /\ worst.ran \in Nat
          /\ worst'.ran = worst.ran + 1
          /\ worst'.valid = worst.valid \/ worst'.valid = worst.valid + 1
      BY <1>1 DEF Types, Merged
    <3>2. QED
      BY <3>1, StaysACheat
  <2>2. Exhausted(total_cycles) => Exhausted(total_cycles')
    BY MergePays, RandomTestsAssumption DEF Exhausted, Types
  <2>3. HadReason' <=> \A u \in Threads : pc'[u] = "returned" =>
          \/ seed_it \notin Seeds \/ stop_requested
          \/ SurelyCheat(worst') \/ Exhausted(total_cycles')
    BY <1>1 DEF HadReason, SurelyCheat, Exhausted
  <2>4. QED
    BY <1>1, <2>1, <2>2, <2>3 DEF HadReason
<1>10. QED
  BY <1>1, <1>2, <1>3, <1>5, <1>6, <1>7, <1>8, <1>9, NotLate

LEMMA ReportStep ==
  ASSUME IInv, Report
  PROVE  IInv'
<1> USE DEF IInv
<1>1. /\ \A t \in Threads : pc[t] = "returned"
      /\ sc' = [ran |-> worst.ran, valid |-> worst.valid, cycles |-> worst.cycles,
                cheat |-> Cheat(worst.ran, worst.valid),
                hardcoded |-> Hardcoded(worst.ran, worst.valid)]
      /\ UNCHANGED <<outcome, seed_it, worst, total_cycles, merged, pc, seed,
                     last, late, stop_requested>>
  BY DEF Report, shared, local
<1>2. Types'
  <2>1. Cheat(worst.ran, worst.valid) \in BOOLEAN
        /\ Hardcoded(worst.ran, worst.valid) \in BOOLEAN
    BY DEF Cheat, Hardcoded
  <2>2. sc' \in [ran : Nat \cup {-1}, valid : Nat, cycles : Nat,
                cheat : BOOLEAN, hardcoded : BOOLEAN]
    BY <1>1, <2>1 DEF Types
  <2>3. QED
    BY <1>1, <2>2 DEF Types
<1>3. Busy' = Busy /\ Home' = Home
  BY <1>1 DEF Busy, Home
<1>4. SeedsTaken' /\ EachSeedOnce' /\ AccountedFor' /\ Genuine'
  BY <1>1, <1>3 DEF SeedsTaken, EachSeedOnce, AccountedFor, Genuine, Tested
<1>5. Counted' /\ OvershootPaid'
  BY <1>1, <1>3, NothingMerged DEF OvershootPaid
<1>6. HadReason'
  BY <1>1 DEF HadReason, SurelyCheat, Exhausted
<1>7. ReportTrue' /\ LateOnce'
  BY <1>1 DEF ReportTrue, Cheat, Hardcoded, LateOnce
<1>8. QED
  BY <1>2, <1>4, <1>5, <1>6, <1>7

(* A signal, or nothing at all.                                            *)
LEMMA SignalStep ==
  ASSUME IInv, stop_requested' \in BOOLEAN, stop_requested => stop_requested',
         UNCHANGED <<outcome, shared, local, sc>>
  PROVE  IInv'
<1> USE DEF IInv
<1>1. UNCHANGED <<outcome, seed_it, worst, total_cycles, merged, pc, seed,
                  last, late, sc>>
  BY DEF shared, local
<1>2. Types'
  BY <1>1 DEF Types
<1>3. Busy' = Busy /\ Home' = Home
  BY <1>1 DEF Busy, Home
<1>4. SeedsTaken' /\ EachSeedOnce' /\ AccountedFor' /\ Genuine'
  BY <1>1, <1>3 DEF SeedsTaken, EachSeedOnce, AccountedFor, Genuine, Tested
<1>5. Counted' /\ OvershootPaid'
  BY <1>1, <1>3, NothingMerged DEF OvershootPaid
<1>6. HadReason'
  BY <1>1 DEF HadReason, SurelyCheat, Exhausted
<1>7. ReportTrue' /\ LateOnce'
  BY <1>1 DEF ReportTrue, Reported, Cheat, Hardcoded, LateOnce
<1>8. QED
  BY <1>2, <1>4, <1>5, <1>6, <1>7

-----------------------------------------------------------------------------
(* The results                                                             *)

(* IInv holds of every state that run_seed_ranges reaches, whatever the    *)
(* schedule of its tasks and whenever the signal comes.                    *)
THEOREM SharedStateSound == Spec => []IInv
<1>1. Init => IInv
  BY Initially
<1>2. IInv /\ [Next]_vars => IInv'
  <2> SUFFICES ASSUME IInv, [Next]_vars PROVE IInv'
    OBVIOUS
  <2>1. ASSUME NEW t \in Threads, Task(t) PROVE IInv'
    BY <2>1, TakeStep, RandomTestStep, RunStep, CheckStopStep, MergeStep DEF Task
  <2>2. CASE Report
    BY <2>2, ReportStep
  <2>3. CASE Signal
    <3>1. /\ stop_requested' \in BOOLEAN /\ (stop_requested => stop_requested')
          /\ UNCHANGED <<outcome, shared, local, sc>>
      BY <2>3 DEF Signal
    <3>2. QED
      BY <3>1, SignalStep
  <2>4. CASE UNCHANGED vars
    <3>1. /\ stop_requested' \in BOOLEAN /\ (stop_requested => stop_requested')
          /\ UNCHANGED <<outcome, shared, local, sc>>
      BY <2>4 DEF vars, IInv, Types
    <3>2. QED
      BY <3>1, SignalStep
  <2>5. QED
    BY <2>1, <2>2, <2>3, <2>4 DEF Next
<1>3. QED
  BY <1>1, <1>2, PTL DEF Spec

(* The variables stay in their types: no counter goes negative, the        *)
(* iterator never passes the end of the ranges, no task gets lost.         *)
THEOREM TypesCorrect == Spec => []Types
<1>1. IInv => Types
  BY DEF IInv
<1>2. QED
  BY <1>1, SharedStateSound, PTL

(* No seed is tested by two tasks, or again after it has been merged.      *)
THEOREM NoSeedTwice == Spec => []EachSeedOnce
<1>1. IInv => EachSeedOnce
  BY DEF IInv
<1>2. QED
  BY <1>1, SharedStateSound, PTL

(* The merged score is that of the merged seeds, exactly.                  *)
THEOREM MergedScoreExact == Spec => []ScoreExact
<1>1. ASSUME IInv PROVE ScoreExact
  <2> DEFINE S == {0} \cup {outcome[k].cycles : k \in Passed(merged)}
  <2>1. Counted
    BY <1>1 DEF IInv
  <2>2. \A k \in Passed(merged) : outcome[k].cycles \in Nat
    <3>1. \A k \in Seeds : outcome[k] \in Score \cup {no_test}
      BY <1>1 DEF IInv, Types
    <3>2. Passed(merged) \subseteq Seeds
      BY <1>1 DEF IInv, Types, Passed
    <3>3. QED
      BY <3>1, <3>2, RandomTestsAssumption DEF Score, no_test
  <2>3. S \in SUBSET Int /\ worst.cycles \in S /\ worst.cycles \in Nat
    BY <1>1, <2>1, <2>2 DEF Counted, IInv, Types
  <2>4. \A x \in S : worst.cycles >= x
    BY <2>1, <2>3 DEF Counted
  <2>5. Max(S) = worst.cycles
    BY <2>3, <2>4, MaxOf
  <2>6. QED
    BY <2>1, <2>5 DEF Counted, ScoreExact
<1>2. QED
  BY <1>1, SharedStateSound, PTL

(* The total is overrun by less than one test for every task.              *)
THEOREM OvershootIsBounded == Spec => []OvershootBounded
<1>1. ASSUME IInv PROVE OvershootBounded
  <2> DEFINE n == Cardinality(Home)
             N == Cardinality(Threads)
             R == longest_test
  <2>1. /\ n \in Nat /\ N \in Nat /\ n <= N /\ R \in Nat
        /\ Bound \in Nat /\ total_cycles \in Nat
    BY <1>1, FiniteHome, FS_CardinalityType, BoundFacts, RandomTestsAssumption,
       LongestType
       DEF IInv, Types
  <2>2. n * R <= N * R /\ n * R \in Nat /\ N * R \in Nat
    BY <2>1, TimesMonotone, TimesSuccessor
  <2>3. total_cycles < Bound + n * R
    BY <1>1 DEF IInv, OvershootPaid
  <2> HIDE DEF n, N, R
  <2>4. total_cycles < Bound + N * R
    BY <2>1, <2>2, <2>3
  <2>5. QED
    BY <2>4 DEF OvershootBounded, Bound, N, R
<1>2. QED
  BY <1>1, SharedStateSound, PTL

(* After a signal no task begins more than one test, however many tasks    *)
(* and seeds there are.                                                    *)
THEOREM OneMoreTestEach == Spec => []OneMoreEach
<1>1. IInv => OneMoreEach
  BY DEF IInv, Types, LateOnce, OneMoreEach
<1>2. QED
  BY <1>1, SharedStateSound, PTL

(* With every task back and nobody interrupted, either no seed is missing, *)
(* or some task saw a cheat.                                               *)
LEMMA WhatWasReported ==
  ASSUME IInv, Reported, Undisturbed
  PROVE  /\ sc.cheat = Cheat(worst.ran, worst.valid)
         /\ sc.hardcoded = Hardcoded(worst.ran, worst.valid)
         /\ merged \subseteq Tested
         /\ merged = Tested \/ SurelyCheat(worst)
<1>1. /\ \A t \in Threads : pc[t] = "returned"
      /\ sc.cheat = Cheat(worst.ran, worst.valid)
      /\ sc.hardcoded = Hardcoded(worst.ran, worst.valid)
  BY DEF IInv, ReportTrue
<1>2. Busy = {}
  BY <1>1 DEF Busy
<1>3. merged \subseteq Tested
  BY DEF IInv, SeedsTaken
<1>4. PICK t \in Threads : TRUE
  BY RandomTestsAssumption
<1>5. seed_it \notin Seeds \/ SurelyCheat(worst)
  BY <1>1, <1>4 DEF IInv, HadReason, Undisturbed
<1>6. ASSUME seed_it \notin Seeds PROVE merged = Tested
  <2>1. \A k \in Seeds : k < seed_it
    BY <1>6, RandomTestsAssumption DEF IInv, Types, Seeds
  <2>2. \A k \in Seeds : k \in merged \/ outcome[k] = no_test
    BY <1>2, <2>1 DEF IInv, AccountedFor, Undisturbed
  <2>3. QED
    BY <1>3, <2>2 DEF Tested
<1>7. QED
  BY <1>1, <1>3, <1>5, <1>6

LEMMA FailsAreCheats ==
  ASSUME IInv, SurelyCheat(worst)
  PROVE  /\ Cheat(worst.ran, worst.valid)
         /\ merged \subseteq Tested =>
              Cheat(Cardinality(Tested), Cardinality(Passed(Tested)))
<1>1. /\ worst.valid < worst.ran /\ worst.valid \in Nat /\ worst.ran \in Nat
      /\ worst.ran = Cardinality(merged)
      /\ worst.valid = Cardinality(Passed(merged))
      /\ merged \in SUBSET Seeds
  BY DEF IInv, Types, Counted, SurelyCheat
<1>2. merged # Passed(merged)
  BY <1>1
<1>3. ASSUME merged \subseteq Tested
      PROVE  Cardinality(Tested) # Cardinality(Passed(Tested))
  <2>1. PICK k \in merged : ~outcome[k].validated
    BY <1>2 DEF Passed
  <2>2. k \in Tested /\ k \notin Passed(Tested)
    BY <1>3, <2>1 DEF Passed
  <2>3. Tested \in SUBSET Seeds /\ Passed(Tested) \in SUBSET Tested
    BY DEF Tested, Passed
  <2>4. QED
    BY <2>2, <2>3, FiniteSeeds, FS_Subset
<1>4. QED
  BY <1>1, <1>3 DEF Cheat

(* Giving up early never changes what the flags would say of the tests     *)
(* left out; it may say "hardcoded" of a cheat only with --cheat-rate 0.   *)
THEOREM StoppedForCause == Spec => []StopsForCause
<1>1. ASSUME IInv PROVE StopsForCause
  <2> SUFFICES ASSUME Reported, Undisturbed, merged # Tested,
                      sc.hardcoded, cheat_num # 0
               PROVE  FALSE
    <3>1. CASE Reported /\ Undisturbed /\ merged # Tested
      BY <1>1, <3>1, WhatWasReported, FailsAreCheats DEF StopsForCause, SurelyCheat
    <3>2. QED
      BY <3>1 DEF StopsForCause
  <2>1. /\ SurelyCheat(worst) /\ Hardcoded(worst.ran, worst.valid)
        /\ merged \subseteq Tested
    BY <1>1, WhatWasReported
  <2> DEFINE v == worst.valid
             r == worst.ran
             N == total_random_tests
             q == (r * cheat_num) \div cheat_den
  <2>2. /\ v \in Nat /\ r \in Nat /\ N \in Nat
        /\ cheat_num \in Nat \ {0} /\ cheat_den \in Nat \ {0}
    BY <1>1, RandomTestsAssumption DEF IInv, Types
  <2>3. r < N
    <3>1. r = Cardinality(merged) /\ merged \in SUBSET Seeds /\ merged # Seeds
      BY <1>1, <2>1 DEF IInv, Counted, Types, Tested
    <3>2. /\ IsFiniteSet(Seeds) /\ Cardinality(Seeds) = N
          /\ Cardinality(merged) \in Nat
      BY <2>2, <3>1, FiniteSeeds, FS_Interval DEF Seeds
    <3>3. Cardinality(merged) <= N /\ Cardinality(merged) # N
      BY <3>1, <3>2, FS_Subset
    <3>4. QED
      BY <2>2, <3>1, <3>3
  <2>4. r * cheat_num < cheat_num * N
    BY <2>2, <2>3, LessTimes
  <2>5. q \in Nat /\ q * cheat_den <= r * cheat_num /\ r * cheat_num \in Nat
    <3>1. r * cheat_num \in Nat
      BY <2>2, TimesSuccessor
    <3>2. QED
      BY <2>2, <3>1, DivisionFloors
  <2>6. v <= q
    BY <2>1 DEF Hardcoded
  <2>7. v * cheat_den <= q * cheat_den
    BY <2>2, <2>5, <2>6, TimesMonotone
  <2>8. v * cheat_den >= cheat_num * N
    BY <2>1 DEF SurelyCheat
  <2>9. v * cheat_den \in Nat /\ q * cheat_den \in Nat /\ cheat_num * N \in Nat
    BY <2>2, <2>5, TimesSuccessor
  <2> HIDE DEF v, r, N, q
  <2>10. QED
    BY <2>4, <2>5, <2>7, <2>8, <2>9
<1>2. QED
  BY <1>1, SharedStateSound, PTL

(* The flag /c depends on the tests alone, not on which of them the        *)
(* schedule let be counted.                                                *)
THEOREM ScheduleDecidesNoCheat == Spec => []CheatIndependentOfSchedule
<1>1. ASSUME IInv PROVE CheatIndependentOfSchedule
  <2> SUFFICES ASSUME Reported, Undisturbed
               PROVE  sc.cheat = Cheat(Cardinality(Tested), Cardinality(Passed(Tested)))
    BY DEF CheatIndependentOfSchedule
  <2>1. sc.cheat = Cheat(worst.ran, worst.valid)
    BY <1>1, WhatWasReported
  <2>2. CASE merged = Tested
    BY <1>1, <2>1, <2>2 DEF IInv, Counted
  <2>3. CASE SurelyCheat(worst)
    <3>1. Cheat(worst.ran, worst.valid)
          /\ Cheat(Cardinality(Tested), Cardinality(Passed(Tested)))
      BY <1>1, <2>3, WhatWasReported, FailsAreCheats
    <3>2. QED
      BY <2>1, <3>1 DEF Cheat
  <2>4. QED
    BY <1>1, <2>2, <2>3, WhatWasReported
<1>2. QED
  BY <1>1, SharedStateSound, PTL
=============================================================================
