# Verification of TIS-100-CXX

TLA+ modules, model-checking configurations and machine-checked proofs for the
simulator in this repository. Paths are relative to the repository root.

A solution to a TIS-100 puzzle is a set of small assembly programs, one per
node of a grid. The simulator runs it against three fixed tests and any number
of random tests, and prints a score and the flags `/a`, `/c` and `/h`. What
makes it worth verifying is that a leaderboard relies on the score being the
game's, cycle by cycle, while the implementation is full of shortcuts: links and
nodes are dropped before a run, an output decides incrementally whether it is
satisfied, one field is reused for every test, threads share the random tests and
quit early.

## 1. The system

### Components

| Component | State | Operations | Correct when |
|---|---|---|---|
| words (`utils.hpp`) | – | `sat_add`, `sat_sub`, the sentinel `word_empty` | results stay in -999..999, the sentinel is never a value |
| T21 (`T21.hpp`, `node.hpp`) | `acc`, `bak`, `pc`, `last`, activity `s`; `write_word`, `write_port` | `step`, `finalize`, `read`, `emit`, `reset` | a written word is seen one cycle later, by one reader; `LAST` names the partner of the last `ANY`; `pc` stays in the program |
| T30 (`T30.hpp`) | `data`, `prev_end`, `used`, its word and port | `step`, `finalize`, `reset` | LIFO, within its capacity, also when pushed and popped in the same cycle |
| input (`io.hpp`) | stream, `idx`, its word and port | `finalize`, `reset` | every value offered once, in order, with the game's pause after a read |
| numeric output (`io.hpp`) | expected and received streams, `wrong`, `complete` | `step`, `valid`, `reset` | `valid` exactly when the streams agree |
| image output (`io.hpp`, `image.hpp`) | expected and received pictures, `wrong_pixels`, the cursor | `step`, `poke`, `valid`, `reset` | `valid` exactly when the pictures agree |
| field (`field.hpp`, `field.cpp`) | the nodes, their links, the lists of nodes to simulate | `finalize_nodes`, `do_step` | dropping links and nodes is invisible; a cycle is as if all nodes moved at once |
| one test (`sim.cpp`) | the score | `set_expected`, `run` | always ends; the verdict is the outputs' and does not depend on earlier tests |
| random tests (`sim.cpp`) | iterator, merged score, cycle total; two mutexes | `run_seed_ranges` and its tasks | every seed counted at most once, flags independent of the schedule |
| driver (`sim.cpp`, `main.cpp`) | the level and whether it was deduced, the configuration, the score, the exit code | `simulate_code`, `simulate_file`, the loop over solutions | one solution's outcome does not leak into the next, every solution is answered for |
| seed ranges (`sim.cpp`, `sim.hpp`, `main.cpp`) | ranges of 32-bit seeds | `parse_ranges`, `add_seed_range`, the iterator | exactly the seeds asked for, each once, up to the last one |
| assembler (`parser.cpp`, `field.cpp`) | labels, line numbers, the nodes seen | `parse_code`, `assemble` | accepts the language and nothing else; jumps lead where their labels stand |
| built-in levels (`levels_builtin.cpp`, `levels.hpp`, `tests.hpp`) | the test being made, what a generator keeps from draw to draw | `random_test`, one generator per level; `static_test`; achievements | outputs are the ones the task asks for, inputs keep what the level promises, all of them words |
| game random numbers (`tis_random.hpp`) | the engines' state | `next_word`, `next_int` | draws from the interval asked for |
| custom levels (`levels_custom.cpp`, `field.hpp`) | the script, its layout | `layout_from_script`, `random_test` | every stream reaches the node it names |
| C API (`tis100.cpp`), logging, printing, build, scripts | – | – | wrappers and output |

### How they interact

`main` turns the command line into a `tis_sim` and calls `simulate_file` on one
solution after another; `simulate_file` deduces the level if none was given, and
`simulate_code` has the level make a field, has `parse_code` load the save into it,
runs three fixed tests (one if the level has no input) and hands the field to
`run_seed_ranges`. The level is asked for a test by seed: a built-in level draws
it, a custom one calls its script.

`parse_code` loads a program into each T21 and calls `finalize_nodes`, which
gives every node pointers to the neighbours it may read from and decides which
nodes, inputs and outputs are simulated at all. For each test, `set_expected`
resets all nodes and hands the inputs and outputs their streams; `run` then calls
`do_step` until no output is active, the limit is reached or a signal has
arrived. `do_step` is five loops of handler calls: every regular node's `step`,
every input's `finalize`, every output's `step`, every regular node's `finalize`.
Within a cycle the nodes talk by calling `emit` on each other, which takes a word
out of the neighbour and leaves a message in its `write_port`. An HCF instruction
leaves by an exception from the middle of a cycle. `run_seed_ranges` gives each
thread its own clone of the field and shares the seed iterator and the merged
score under one mutex each; a signal handler sets a flag that `run` and the tasks
poll.

### What is hard

* **Order within a cycle.** Nodes run one after the other, in row-major order,
  and must behave as if they ran together. Reads happen in the first four loops,
  writes become visible in the fifth. `ANY` reads and writes race for partners.
* **A stack that is pushed and popped in the same cycle.** The popped word lies
  under the pushed ones when `finalize` erases it, and `prev_end` must point at it.
* **Incremental verdicts.** `complete`, `wrong` and `wrong_pixels` replace the
  comparison at the end; RELEASE builds give up early.
* **Pruning.** Which links can be used depends on `LAST`, hence on other
  instructions' `ANY`; which nodes matter depends on a graph search.
* **Reuse.** A test may end anywhere, even in the middle of a cycle, and the next
  one starts in the same field.
* **Threads, signals and early exit** in the random tests.
* **16-bit words**: the image cursor counts without bound.
* **32-bit seeds** whose ranges may end where the numbers wrap.
* **One `tis_sim` for many solutions**, some of which end in an exception.
* **Two passes** over a section that must agree on every line.
* **Generators** that overwrite what they drew, draw again, or give up.
* **Streams named by column** and handed over by position.

PROJECT.json lists each hazard with its line and the properties that watch it.

## 2. The modules

| Module | Models | Extends |
|---|---|---|
| `Words` | `utils.hpp`: the word range, the sentinel, saturation, 16-bit `++` | |
| `Ports` | `game.hpp`, `instr.hpp`: directions, instructions; `in_links`/`out_links` of a program | `Words` |
| `Topology` | `finalize_nodes`: links, linked outputs, the search for an output, the calls of a cycle and their order | `Ports` |
| `ImageOutput` | the image output as a data type: `ImageReset`, `ImageRead`, `Poke` | `Words` |
| `Field` | `do_step`, every node's handlers, `run`, `set_expected`, the signal | `Topology`, `ImageOutput` |
| `Pruning` | the pruned field next to an unpruned one, running the same test (`INSTANCE Field WITH ...`) | `Field` |
| `PortProtocol` | abstract: what a node may count on when it writes to its ports | |
| `FieldProtocol` | the refinement mapping from `Field` to `PortProtocol` | `Field` |
| `Replay` | `Field` with a history of the scores of each test and of the stacks used | `Field` |
| `ImageStream` | one image output fed with any words | `ImageOutput` |
| `RandomTests` | `run_seed_ranges`: threads, mutexes, merged score, early exit, flags | |
| `SeedRanges` | `parse_int`, `parse_ranges`, `add_seed_range`, the iterator, with wrapping arithmetic; next to it the seeds the options ask for | |
| `Simulator` | the set-up of `main`, its loop over solutions, `simulate_file`, `simulate_code`, the random tests with a count of the tasks at work, the signal | `SeedRanges` |
| `Ordered` | the elements of a finite set in increasing order: what a loop that skips some of a list keeps | |
| `Assembler` | `parse_code` and both passes of `assemble` | `Ports`, `Ordered` |
| `LevelTests` | the test being made, draws, subsequences, the layouts' streams | `Words` |
| `CampaignLevels`, `NexusLevels` | the generators of the levels of the two campaigns | `LevelTests` |
| `BuiltinLevels` | the levels together, and what their tests must be | both |
| `CustomLevels` | a script's layout and streams on their way into a test | `ImageOutput`, `Ordered` |
| `MCField`, `MCPruning`, `MCFieldProtocol`, `MCReplay` | layouts, programs and tests for TLC | |
| `MCSimulator`, `MCAssembler`, `MCBuiltinLevels`, `MCCustomLevels` | command lines, saves, lengths and draws, scripts for TLC | |
| `SharedLemmas` | lemmas the proofs share: induction and recursion over the naturals, elements in order, one picture | `Ordered`, `ImageOutput` |
| `FieldProofs` | theorems about the nodes of `Field`, the outputs and the verdict, the cycle's delay, and that `Field` implements `PortProtocol` | `FieldProtocol` |
| `StackProofs` | theorems about the words nodes hand on, and what `used` remembers across tests | `FieldProofs`, `Replay` |
| `ImageStreamProofs`, `RandomTestsProofs`, `SimulatorProofs`, `AssemblerProofs`, `CustomLevelsProofs` | theorems about the module of that name | that module |

### `Field`: state and actions

A node is its coordinates. `out[n]` is the pair `write_word`, `write_port` of a
node that is read from; `t21[n]`, `t30[n]`, `idx[i]`, `numeric[o]`, `image[o]` are
the other members of the node classes; `links`, `linked`, `calls` are what
`finalize_nodes` computed. The activity of an input node is written only to be
logged and is not modelled.

A cycle is the set `todo` of handler calls still to be made. Each handler action
has `Turn(loop, n)` as guard: it is the next call in the order of `do_step`. So
the interleaving of `do_step` is the code's, not an arbitrary one, and a signal can come
between any two calls. One T21 `step` is one of `T21_StalledOnWrite`,
`T21_StalledOnRead`, `T21_Compute`, `T21_StartWrite`, `T21_Hcf`, according to where it
returns. The other handlers are one action each. `NextCycle` and `EndRun` are the
end of a pass through the loop of `run`; `SetExpected(t)` is `set_expected` and the
entry of the next `run`. HCF ends the run with the rest of the cycle in `todo`, as
the exception does.

Initial states are those in which `run` is first entered: a save the assembler can
produce (`Assembled`: labels inside the program, immediates in range) loaded into
a layout, and a test whose streams hold words (`IsTest`: `clamp_test_values`).

### `Simulator`: state and actions

`at` is where the main thread is; every action is the stretch of code up to the
next place where a signal matters or an exception may leave: `DeduceLevel`,
`ReadFile`, `ParseCode`, `FixedTest`, `Gate` (the decision to run random tests and
the dynamic timeout), `NoTest`, `RandomTest`, `SeedsOver`, `Flags`, `Report`.
`TestThrows` is a script that fails, `Caught` what the catch clause of `main` does
(nothing but set the exit code), `Signal` may come at any time. `sc`, `worst`,
`total_cycles`, `seed_it`, `target_level`, `deduced` are the code's variables; what
a test scores is left open, within the cycles limit it was given (one cycle, if that
is 0: `run` looks at the limit after the first). `tests`,
`taken`, `results` and `late` are histories the properties compare the score with.

The tasks of `-j` are told apart in `RandomTests` only. In `Simulator` a task takes a
seed, runs its test and merges it in one step, and `tasks` says how many have not
returned: a task does at the end of the seeds, after a signal and when it gives up
(`Returns`), and with the last one `run_seed_ranges` does. So what a signal leaves to be
run with `-j` is there: each task still at work may begin one more test. In `RandomTests`,
`late` counts these for every task by itself.

### `Assembler`: state and actions

A line is its tokens and what else the assembler looks at (its length, whether it
holds an illegal character, whether it holds anything at all). `LoadSection` is
one call of `assemble` with what `parse_code` does around it, `SkipSection` an empty
section, `ThrowAt` any refusal, `Finalize` the end. `FirstPass` is the first loop over the
lines as a recursive function, `InstrOf` the second; the properties state the same from the
source, without passes. `AssemblerAssumption` says of the vocabulary what holds of the
code's tables: the name of a port begins no other port's name, and no token is both the
beginning of a port's name and an integer (those begin with a letter, these with a digit or a sign).

### `LevelTests` to `BuiltinLevels`: state and actions

`inputs`, `n_outputs` and `image` are the test so far, `local` the generator's own
variables. An action is one pass through a generator's drawing loop, with all the
draws it makes (`\E v \in next_word(lo, hi)`); corrections that follow the loop
(`MakePairEqual`, `CutSublists`, `TrimNormalized`, `PutPart`, ...) are actions in their
order. `Complete` and `Finish` compute the outputs as the generators do, clamp what `clamp_test_values`
clamps and hand the test over. The sequence of
pseudorandom numbers is abstracted to any numbers of their intervals, so that no
result hangs on a seed, only on the lengths and the numbers a run considers.

### `CustomLevels`: state and actions

A script is external: what it returns for its layout and for each seed. `ReadLayout`,
`PlaceStream` and `NewField` build the field, one stream at a time; `RandomTest`,
`FillStream` and `HandOver` make a test. A Lua number that does not fit the C++
type becomes any value of that type, since the language leaves that open.

### `Bug_` definitions

A definition named `Bug_X` stands before the definition it is a plausible
mistake in: a dropped clamp, a missing reset, a swapped test. They are used by no
specification. Put in place of the definition that follows it, each makes one of
the checked properties fail; PROJECT.json (`mutants`) says which, so every
property is known to depend on the code it is about.

## 3. What the runs check

Passing runs:

| Run | Instance | Properties |
|---|---|---|
| `tests` | 2x1 field, an input, a numeric and an image output, 3 tests in any order, a signal at any time, RELEASE; programs with every opcode and operand, programs that forward, draw, burn or use a stack | `TypeOK`, `T21Consistent`, `VerdictExact`, `GivesUpForCause`, `ScoreIndependentOfHistory`, `NoMemoryExact`, `EveryRunEnds` |
| `pipes` | 2x2 field, stack of capacity 2 (or a fourth T21), 1 input, 2 outputs, all combinations of forwarding programs; races for an `ANY` word, echoes to `LAST`, HCF | `WritesFollowProtocol` (refinement), `OneCycleDelay`, `StackOffersTop`, `WordsConserved` |
| `pruning` | 2x2 field with a stack, programs with `ANY` and `LAST` in every role | `PruningInvisible` |
| `image_stream` | all pictures of 2x2 pixels in 3 colours, all streams of words | `CounterExact`, `PaintsUnderCursor` |
| `random_tests` | 2 threads, 3 seeds, every outcome of every seed, fixed tests that leave much or little of the total limit, a signal at any time | `Types`, `EachSeedOnce`, `ScoreExact`, `StopsForCause`, `CheatIndependentOfSchedule`, `OvershootBounded`, `OneMoreEach`, `AlwaysReports` |
| `simulator` | command lines with up to 3 solutions, seed ranges of every form over 8 seeds, limits 0, 1 and 2, multipliers 0, 3/4, 1 and 2, `-j 1`, `-j 2` and `-j 0`, refused options, missing and garbled files, scripts that throw, a signal at any time | `TypeOK`, `ExitCodeExact`, `ScoreOwn`, `SeedsExact`, `OwnLevelUntilFailure`, `StopsPromptly`, `AlwaysExits` |
| `assembler` | all sections of 3 lines over 10 kinds of line, all of 2 over these and 14 more that are in no program or need `--permissive`, some of 4; up to 3 sections | `TypeOK`, `CodeExact`, `AcceptedIffLegal` |
| `levels` | all 51 levels, streams of a few items drawn from the ends of their intervals | `TypeOK`, `SolvesTask`, `PromisesKept`, `ImageShowsInput`, `AlwaysGenerates` |
| `custom_levels` | layouts up to 3x2, streams out of order, repeated, of another kind than in the layout, out of range, numbers that fit no word | `TypeOK`, `StreamsReachTheirNodes`, `FailsForCause` |

In words:

* **Timing.** `OneCycleDelay`: a word that becomes readable during a cycle is not
  readable by any call left in it. `WritesFollowProtocol`: every write of every
  T21 goes idle, set, open, taken, idle with the abstract protocol's timing, is
  taken by one reader, and a writer to `ANY` learns who it was.
* **Conservation.** `WordsConserved`: in a field that only moves words, each
  input word is in exactly one place (ahead of an input, on a port, on a stack,
  received), whoever wins the races.
* **Stacks.** `StackOffersTop`: the word on offer is the one `prev_end` points
  at, still when `finalize` erases it; before each `step`, `prev_end` is the top.
* **Verdicts.** `VerdictExact`: validated if and only if nothing burnt and every
  output, simulated or not, holds what was expected. `GivesUpForCause`: a run that
  ends unvalidated before its limit could not have been saved by more cycles.
  `CounterExact`: `wrong_pixels` counts the differing pixels, whatever is painted. That it
  does so in a field too (`WrongPixelsExact`) is proved; the verdict of `tests` rests on it.
* **Reuse.** `ScoreIndependentOfHistory`: a test has one score on a field,
  whatever ran before, HCF in the middle of a cycle included. This justifies that
  `RandomTests` fixes the outcome of a seed in advance.
* **Pruning.** `PruningInvisible`: verdict, cycle count of a validated test, and
  the final state of every simulated node are those of the whole field. It is
  stated for saves that drop no HCF; the exception is `hcf_dropped` below.
  `NoMemoryExact`: the achievement for using no memory goes to the
  solutions none of whose tests pushed a word, although each reset empties the stacks.
* **Random tests.** `ScoreExact`: the merged score is that of the merged seeds and
  no score cut short by a signal slips in. `StopsForCause`,
  `CheatIndependentOfSchedule`: stopping early loses nothing that `/c` depends on.
  `OvershootBounded`: the total limit is overrun by less than one test per thread.
  `OneMoreEach`: after a signal a thread begins one more test at most.
* **Driver.** `ScoreOwn`: whatever ran before and however it ended, the score
  printed, its flags and the cycles its random tests may take beyond the first are those of the
  tests of this solution. `ExitCodeExact`: the exit code is the worst outcome of
  all. `OwnLevelUntilFailure`: each solution runs against its own level, as long as
  none has thrown (after that: `stale_level` below). `StopsPromptly`: among the
  random tests a signal is followed by one test for each thread at most, before them by
  one at most, and no other solution's random tests. `AlwaysExits`: only an exception in a thread
  of `-j` ends the program otherwise than by returning.
* **Seeds.** `SeedsExact`: the seeds taken are those asked for, in that order,
  also when a range ends with the last 32-bit number and the iterator's end is 0.
* **Assembler.** `AcceptedIffLegal`: a save loads exactly when it is in the
  language, stated as a grammar without passes. `CodeExact`: each node gets its
  own instructions, each operand is the one written (an ambiguous abbreviation the one
  `src/README.md:182` says) and every jump leads to the first instruction from its label on.
  `TypeOK` is `Assembled`, what `Field` assumes of a save.
* **Levels.** `SolvesTask`: the expected outputs relate to the inputs as the task
  says, stated item by item or sequence by sequence and not as the generator
  computes them. `PromisesKept`: what generators arrange by overwriting or
  drawing again is still so at the end. `ImageShowsInput`: pictures show what the
  inputs describe and nothing is drawn outside them. `AlwaysGenerates`: loops
  that reject end. `TypeOK`: everything is a word or a colour, so that the `int16_t`
  arithmetic of the generators is safe.
* **Custom levels.** `StreamsReachTheirNodes`: the lists of a test, which are by
  position, are those the script named by column. `FailsForCause`: no malformed
  layout is let through and no good one refused.

Runs that show a disagreement between the code and what is written about it:

| Run | Property | What it shows |
|---|---|---|
| `hcf_dropped` | `ExactSimulation` | the search for an output looks for HCF only in the neighbours it finds (`src/field.cpp:149`), so a node that burns by itself is dropped and the test passes; `src/README.md:193`: "intended to exactly simulate the game" |
| `stale_level` | `EachAgainstItsOwn` | a deduced level is put back only when `simulate_code` returns (`src/sim.cpp:334`); after an exception the next solution is run against the level of the failed one; `src/README.md:139`: "each filename in the arguments is checked individually for its prefix" |
| `empty_range` | `NoMoreThanAsked` | the iterator looks for the end of a range after it has advanced (`src/sim.cpp:128`), so `-r 0` walks through all seeds; `src/main.cpp:313`: "Random tests to run (upper bound)" |

Read off the code while modelling and proving, and not worth a run each: passing exactly the
rate gives `/h` (`src/sim.cpp:410` compares with `<=`, "< 5%" in `src/README.md:76`); with
`--cheat-rate 0`, which `src/main.cpp:320` allows, the tasks give up at the first failure
(`src/sim.cpp:230`), and if nothing had passed by then the report says `/h`, whatever the
other tests would have said; the fixed tests'
cycles count against the total limit (`src/sim.cpp:361`, "across all random tests" in
`src/README.md:113`); the suffix B of `src/README.md:88` is not taken in `--seeds`
(`src/main.cpp:186` takes k, K, m and M only); `--seeds 0..` makes `total_random_tests` 0; the
image cursor passes through the sentinel (`src/io.hpp:172`, `src/utils.hpp:49`), which
paints nothing either way; after a signal during the fixed tests those that were
run decide on the validation.

### Bounds, and why they are enough

* `word_max` is 2 or 3 and `int16_max` the smallest value (plus one at most) that leaves
  the sentinel outside the sums of two words, as the `static_assert`s in `utils.hpp` ask:
  every sum that saturates, and every sign, occurs. The built-in levels keep the
  real 999 and 32767, since their intervals are numbers in the code.
* `Width`, `Height` <= 2: each node then has neighbours in two directions and
  an input or an output, both orders of reader and writer in row-major order
  occur, and three nodes compete for a fourth's words. The proofs hold for every size.
* `T30_size = 2`: full, with room for one, and empty, with several pushers.
* `cycles_limit` 12 or 14, and 46 in `tests`: longer than the tests need to complete, so that runs
  end for all four reasons (done, limit, HCF, signal). The game's limit only
  makes runs longer: the programs of the runs repeat after a few cycles.
* Programs of at most three instructions per node; the lists contain every
  opcode, every kind of source and destination, and for the multi-node runs the
  combinations of `ANY`, `LAST` and fixed ports that meet at a link.
* `RandomTests`: 2 threads and 3 seeds give every race for the iterator and
  for the score, a thread that quits while the other is at any point of its loop,
  and a total limit that is reached with a second thread's test still to be merged.
* `Simulator`: `seed_max = 7` stands for 2^32 - 1, with k and M for 2 and 4, so that ranges
  are scaled, adjacent, overlap, wrap and cover everything; two seeds where the
  flags and limits are the question, tests of at most two cycles (a slower and a faster
  one); `busy_cycles = 1` so that the achievement is both won and missed. Two tasks are
  enough for both to begin a test after the signal, for one to give up while the other goes
  on, and for one to throw; `hardware_concurrency = 2` makes `-j 0` another `-j 2`.
* `Assembler`: `T21_size = 3`, so that sections are too long by one line, with
  lines that count only without `--permissive`; a layout with a node without code between two with;
  tokens that are a prefix of one port name and of several.
* `BuiltinLevels`: `Sample` takes an interval's ends (and 0, if inside), all
  of it when it is short. A stream has as many items as the
  level's cases take (`mc_length`), such as two sequences and an end; CHARACTER TERMINAL and DYNAMIC
  PATTERN DETECTOR, whose places depend on the length, have the program's own 39 items and
  30x18 pixels. `rectangles`, `max_iterations`, `longest`, `long_enough`, `groups`, `group_size`,
  `seq_lengths`, `gap_lengths`, `digits`, `merged_values`, `indexed`, `path_points` and
  `factored` are numbers of the code made smaller with the stream. With three points
  on 10x9 pixels no coordinate of SPATIAL PATH VIEWER is ever left without one that
  fits it; that eleven points on the program's 30x18 pixels never are either is the
  assumption `PathNeverStuck`, which TLC evaluates: every coordinate has at least 12 that
  fit, of which the other points have taken 9 at most.
* `CustomLevels`: two streams or three for three columns give every mapping of
  columns to positions; `uint8_max = 3` leaves a colour out of range that fits, one
  that is normalised, and one that does not fit.
* `CHECK_DEADLOCK FALSE` only where the system stops: in `Pruning`
  both fields run one test each, `run_seed_ranges` returns, the program exits, a save is
  loaded or refused, a test is made, a layout is refused. A `Field` never
  deadlocks, since a new test can always be set.

### Fairness

`Field!Spec` assumes weak fairness of the thread that runs the test: a handler
call, the next cycle or the end of the run. It is one thread executing a loop
without blocking operations, so it keeps running. Neither a new test nor a signal
is ever assumed. `RandomTests!Spec` assumes weak fairness of each thread's task
(threads are scheduled by the operating system and a critical section always
leaves its mutex) and of `Report` (the main thread's join); no signal is assumed.
`Simulator!Spec` assumes weak
fairness of `Main`, the main thread, which waits for nothing but files and its own
threads; the signal is left out. `BuiltinLevels!Spec` assumes that a generator, a
plain loop, keeps running. The safety properties need none of it.

## 4. What is proved

The theorems hold for every value of the constants that satisfies the named
assumptions. `WordAssumption` is the `static_assert`s on words; `LayoutAssumption`,
`ImageAssumption` and `FieldAssumption` ask for a non-empty rectangular grid with one
input and one output at most per column, saves the assembler can produce
(`Assembled`, which the run `assembler` checks of the assembler) and tests made of words
and colours; `RandomTestsAssumption` for finitely many threads and seeds,
any limits, 0 included, and a rate that is a fraction; `SeedAssumption` and `SimulatorAssumption`
for command lines of the shape the options accept, with any limits and number of threads, 0
included, and any non-negative fractions as multiplier and rate (section 5 says what of
a `double` this leaves out); `AssemblerAssumption` for saves taken
apart into tokens and a vocabulary as described above; `CustomAssumption` for a
field of at least one tile, colours that fit their type, and a script that returns lists.

| Theorem | Module | States |
|---|---|---|
| `Inductive`, `TypeCorrect` | `FieldProofs` | `Spec => []IInv`, `Spec => []TypeOK` |
| `T21AlwaysConsistent` | `FieldProofs` | `Spec => []T21Consistent` |
| `StackAlwaysOffersTop` | `StackProofs` | `Spec => []StackOffersTop` |
| `WordsAlwaysConserved` | `StackProofs` | `Spec => []WordsConserved` |
| `NoMemoryAlwaysExact` | `StackProofs` | `ReplaySpec => []NoMemoryExact` |
| `WrongPixelsAlwaysExact` | `FieldProofs` | `Spec => []WrongPixelsExact` |
| `VerdictAlwaysExact` | `FieldProofs` | `Spec => []VerdictExact` |
| `AlwaysGivesUpForCause` | `FieldProofs` | `Spec => []GivesUpForCause` |
| `DelayIsOneCycle` | `FieldProofs` | `Spec => OneCycleDelay` |
| `FieldImplementsProtocol` | `FieldProofs` | `Spec => WritesFollowProtocol` (the refinement) |
| `CounterAlwaysExact` | `ImageStreamProofs` | `Spec => []CounterExact` |
| `OnlyUnderCursor` | `ImageStreamProofs` | `Spec => PaintsUnderCursor` |
| `SharedStateSound`, `TypesCorrect` | `RandomTestsProofs` | `Spec => []IInv`, `Spec => []Types` |
| `NoSeedTwice` | `RandomTestsProofs` | `Spec => []EachSeedOnce` |
| `MergedScoreExact` | `RandomTestsProofs` | `Spec => []ScoreExact` |
| `OvershootIsBounded` | `RandomTestsProofs` | `Spec => []OvershootBounded` |
| `OneMoreTestEach` | `RandomTestsProofs` | `Spec => []OneMoreEach` |
| `StoppedForCause` | `RandomTestsProofs` | `Spec => []StopsForCause` |
| `ScheduleDecidesNoCheat` | `RandomTestsProofs` | `Spec => []CheatIndependentOfSchedule` |
| `TypesCorrect` | `SimulatorProofs` | `Spec => []TypeOK` |
| `ExitCodeAlwaysExact` | `SimulatorProofs` | `Spec => []ExitCodeExact` |
| `OwnLevel` | `SimulatorProofs` | `Spec => []OwnLevelUntilFailure` |
| `AlwaysStopsPromptly` | `SimulatorProofs` | `Spec => []StopsPromptly` |
| `ScoreAlwaysOwn` | `SimulatorProofs` | `Spec => []ScoreOwn` |
| `SeedsAlwaysExact` | `SimulatorProofs` | `Spec => []SeedsExact` |
| `AssemblerTypeOK` | `AssemblerProofs` | `Spec => []TypeOK` |
| `AssemblerCodeExact` | `AssemblerProofs` | `Spec => []CodeExact` |
| `AssemblerAcceptedIffLegal` | `AssemblerProofs` | `Spec => []AcceptedIffLegal` |
| `CustomTestsFitTheirNodes` | `CustomLevelsProofs` | `Spec => []TypeOK` |
| `CustomStreamsReachTheirNodes` | `CustomLevelsProofs` | `Spec => []StreamsReachTheirNodes` |
| `CustomFailsForCause` | `CustomLevelsProofs` | `Spec => []FailsForCause` |

### The field

**`TypeOK` and `T21Consistent`** are not inductive. `IInv` (in `FieldProofs`) adds:

* `Setup`: `links`, `linked` and `calls` stay those of the loaded save. It ties a
  call in `todo` to a useful node, and a useful T21 has a non-empty program, so
  that `pc` wraps inside it (`NextPc`, `ClampedPc`).
* `AnyHasWord`: a T21 whose port is `ANY` has its word out. Otherwise `finalize`
  would take `ANY` for the direction of the reader and `LAST` would become `ANY`.
* `StackKnowsTop`: a stack that offers a word or has just lost one has a
  `prev_end` inside its data, so that `erase` is applied to an element.
* `InputsInRange`: an input's position stays in its stream.

`NextIInv` has a lemma per handler; `ReadFromEffect` and `Untouched` carry
everything a call does to other nodes: a node read from loses its word and learns
by whom, nothing else.

**`StackOffersTop`** depends on the order of the calls: between a stack's
`step` and its `finalize`, `prev_end` may lie under words pushed in the same
cycle, and only before and after is it the top. `StackInv` adds `StepsFirst` (a
node still to step is still to finalize; from `LoopsInOrder`, which opens
`CallOrder` for all five loops) and `StacksGood`. `PushKeeps` and `FillingKeeps` say that pushing
keeps a prefix of the stack.

**`NoMemoryExact`** compares `used`, which lives on through every reset, with a
history of pushes. A stack grows in its `step` exactly when it takes a word
(`GrowsByPushing`), shrinks in `finalize`, where nothing is marked
(`FinalizeShrinks`), and is marked when it grew (`StepMarks`).

**`WordsConserved`** is a count, and becomes inductive (`Moving`) with `StackInv`,
which knows which word a stack has lost but not yet erased. `Balance(w)` adds up, for one
word `w`, the copies ahead of the inputs, with the nodes (`Stock`) and received. The
lemmas `CopiesJoin` and `CopiesLeave` (a bijection between the cells of a stream before and
after `Erase`) say what appending and erasing do to a count; on them rest
`WordTaken`, `WordGiven` and `WordStacked`, the three things a call may do to the stock. A
call that does several, such as a `T30_Step` with up to four reads, is followed through the
states in between (`ReadOneMore`, `PushMoves`), and no two reads empty the same node
(`NeighboursDiffer`). `T30_Finalize` changes no count: the word it erases was
already counted as gone when it was read.

**Verdicts.** `VerdictInv` adds to `IInv` what the outputs' fields mean while the test is
still running: `Tallies` (`complete` and `wrong` sum up the words received so far),
`Voted` (an output whose call is over and that left `active` alone has no use for
another cycle) and `Concluded` (how `run` ended). `WrongPixelsExact` rests on
`ImageReadExact`: writing one pixel changes the number of differing ones by what
`poke` adds to the counter.

**`OneCycleDelay` and the refinement** share `PInv`: a node that waits for a reader is
one that is simulated (`WritersCalled`), no `finalize` is over while a call that
may read is to come (`FinalizeLast`), and a word that is still there after its
node's `finalize` is open to readers (`OpenAfterFinalize`). The refinement is proved
action by action: each node is left alone by a call (`Undisturbed`), has its word taken
(`LosesWord`), runs an instruction or is finalized, and each of these is a move of
that writer in the abstract protocol or a stutter. One call may touch several
writers, since a stack takes up to four words in one `step`; the protocol is
therefore stated with moves of all writers at once.

### The image output

On its own it is fed with any words. `CounterExact` is inductive together with the types;
`PaintsUnderCursor` needs `CursorKnown`, which says what the cursor holds while
coordinates are owed, and nothing afterwards: `c_x` counts on, wraps and passes
through the sentinel.

### Random tests

For any number of threads. `IInv` says where every seed is that was taken
(`AccountedFor`: merged, without a test, in a task's hands, or lost to a signal),
that what a task carries to the merge is its own seed's score (`Genuine`), why a task
returned (`HadReason`), and what `worst` counts (`Counted`). `OvershootBounded` is
not inductive for an obvious reason: what prevents a second overshoot by the same
task is that it returns. `OvershootPaid` says so: past the limit, every test that is
added sends a task home, so the overrun is less than a test for each task that has returned.
`OneMoreEach` becomes inductive with the places a task may be in once it has begun a test
after the signal (`LateOnce`): in the test, at the check behind it, or home.
`StopsForCause` and `CheatIndependentOfSchedule` follow at the join: a failure once merged stays one
(`StaysACheat`), and if no task gave up, all seeds were merged. The attempt to
prove an earlier form of `StopsForCause` failed for `--cheat-rate 0`; the property
now makes that exception (section 3).

### The driver

For any list of solutions, any seed ranges and any way a solution may end.
`IInv` says of `return_code` at any time what `ExitCodeExact` says of its end
(`CodeSoFar`), where the level is in each part of the loop (`LevelSoFar`, until an
exception), that a solution is left to be run until the end (`Unfinished`), and
what the signal has left to be run (`LateSoFar`): a fixed test begun after it was
the last test, and a random one cost a task, so that these tests and the tasks still at
work are no more than the tasks there were. `TypeOK` contains the
arithmetic on seeds: a range's end wraps, and the iterator never leaves 32 bits.
Proving it needed what the command line's types allow to be said in the
model (`Numeral`, `Element`, `SolutionFile`).

**`ScoreOwn`** speaks of the report only; `ScoreInv` says what each stage of
`simulate_code` hands to the next. While fixed tests run, all of them have passed
(`OnlyPassed`); until the gate nothing of the random tests is in the score
(`NoneRandomYet`, which is what the reset is for); from the gate on the verdict is that of
the fixed tests (`FixedVerdict`) and `worst` describes the random ones
(`RandomScore`); `total_cycles` is the sum over all tests at any time (`TotalSoFar`). The
verdict and the flags compare counts, so most of the steps are about what one more test
does to the sets of tests that passed (`TestJoins`). The
code decides `/h` with a division and the property with a product (`BelowQuotient`).

**`SeedsExact`** relates a walk through wrapping 32-bit numbers to the list of seeds a
user writes down. `Meets` ties a half-open range to the seeds its expression asks
for, `LaysOut` lays these groups end to end, and `SeedsInv` says where in it the
iterator stands: at seed `m` of range `j`, with everything before taken. A step stays
in its range unless `cur` meets `end`, and within one turn of the circle it does so at the last
seed only (`WrapDiffers`), also when that is the largest number and `end` is 0.
The attempt found the model letting a count of `-r` through that does not
fit 32 bits; `parse_int` refuses it (`src/main.cpp:135`), and so does `SetupFails` now.

### The assembler

For every save, layout and vocabulary. `LoadInv` says what the sections read so far have
left: their labels, none of them twice, all of them acceptable, and in each node they name
the program of that section's lines (`Kept`). Under it lie the two passes. The first is
followed line by line (induction over the lines): after `j` of them it knows the labels on
these, each with the number of instructions above it. The second
takes the lines with an instruction in order (`InOrderLists`), so the number of
a label is the position of the first instruction at or below it, which is
`CodeExact`. `AcceptedIffLegal` needs more than that both passes count alike: the first one
stops at the first word of a line, so labels after it are unknown to it, and
the theorem holds because the second pass refuses every such line. `TypeOK` is
what `Field` assumes of a save (`Assembled`), so for the programs of the assembler that
assumption is a theorem. The proof found two arms of a CASE in `operands` that overlapped.

### Custom levels

For every script. The loops of `layout_from_script` and `random_test` look at one stream
after another; `CustomInv` says after each of them what the streams so far have done to
a column's output (`Placed`) and to its list of the test (`Filled`): the last
stream for a column wins. The lists are handed over after the empty columns are
erased, from the last to the first; by induction over the columns that keeps
exactly the others, in order, so the k-th list is that of the k-th node of its kind.

### What stays with TLC

* Liveness (`EveryRunEnds`, `AlwaysReports`, `AlwaysExits`, `AlwaysGenerates`):
  the prover has no rules for fairness and `ENABLED`.
* `PruningInvisible`: it compares two fields whose cycles consist of different calls, and
  rests on what the search for an output finds.
* The built-in levels: `SolvesTask`, `PromisesKept`, `ImageShowsInput` and `TypeOK` are 51
  separate arguments about 51 generators, each with loops of its own over what it drew.
* `ScoreIndependentOfHistory` compares two executions of a test; on one
  execution it is an invariant only relative to the score the test would have had on a fresh field, which
  is defined by running it.

Induction over data is available where the recursion is a function: `LeastNat` and
`NatSetInduction` (in `SharedLemmas`) state it for sets instead of operators, and
`RecursionExists` that a function defined by recursion over `0 .. n` exists. The
first pass of the assembler, the sums of `Simulator` and the concatenation of the seeds
(`FlattenJoins`) are proved that way.

## 5. What is not modelled

* Text: tokens, layout strings, error messages, logs, progress reports, PNM.
  A save enters as parsed sections, a line as its tokens.
* The grids of the built-in levels' layouts (only how many streams they take), the achievement
  UNCONDITIONAL, the lookup of a level by name.
* The number sequences of the two random engines: draws are any number of
  their interval.
* The Lua interpreter behind custom levels; a script that keeps state from one call to
  the next, or answers differently in the clone of another thread.
* The C API, one-line wrappers around `tis_sim` that turn an exception into an
  error value.
* The instruction and node counts of a score.
* The arithmetic of `double`: the rate and the timeout multiplier are fractions, their
  products (`src/sim.cpp:230`, `src/sim.cpp:394`, `src/sim.cpp:409`) exact before they are compared or truncated. A
  multiplier that is negative, no number or so large that the product leaves `size_t` is not
  considered; C++ leaves the conversion undefined.
* The steps of one task among those of another in `Simulator`: see `RandomTests`.
* Of custom levels, pictures of another size than the canvas, which the code only asserts,
  and Lua numbers with a fraction, which it truncates: a script's numbers are integers.
* Some draws of the generators: no run considers a value inside the limits of SEQUENCE
  RANGE LIMITER (its ends and values on both sides are), nor as many instructions of T20 NODE EMULATOR as it
  takes for its sums to pass 16 bits.
* The ports `D5` and `D6`, which exist only when `DIMENSIONS` is 3.
* `std::vector` capacity: a stack reserves its maximum in the constructor, so
  `prev_end` stays a position and is modelled as one.
* The cycle and test counters' width (`size_t`, `uint`), but for `total_random_tests`.
* `info_requested`, which only prints.

## 6. Plan

In this order; all of it is in place.

1. `Words`, `Ports`, `Topology`: data and pure functions.
2. `Field`: the core, with its invariants and runs.
3. `Pruning`, `PortProtocol`/`FieldProtocol`, `Replay`: what `Field` promises to
   its users, as refinement, equivalence and history.
4. `ImageOutput`, `ImageStream`.
5. `RandomTests`.
6. `FieldProofs`, `StackProofs`.
7. `SeedRanges` and `Simulator`: from the command line to the exit code.
8. `Assembler`: its postcondition is the assumption of `Field`.
9. `LevelTests`, `CampaignLevels`, `NexusLevels`, `BuiltinLevels`: the generators.
10. `CustomLevels`.
11. Proofs about the tests and the driver: `ImageStreamProofs`, verdict and protocol in
    `FieldProofs`, `RandomTestsProofs`, `SimulatorProofs`, and `NoMemoryExact` in `StackProofs`.
12. `WordsConserved` for every field, in `StackProofs`, which knows what is
    pushed and popped.
13. `SharedLemmas`, `AssemblerProofs`: what is loaded is what `Field` assumes, and accepted
    exactly if legal.
14. `CustomLevelsProofs`.
15. The score and the seeds of a solution, in `SimulatorProofs`.

What remains open is listed above under "What stays with TLC".

## 7. Running it

    tlc -config MCReplay.cfg MCReplay.tla
    tlc -config MCBuiltinLevels.cfg MCBuiltinLevels.tla
    tlapm FieldProofs.tla

PROJECT.json names the module, the configuration and the expected result of
each run.
