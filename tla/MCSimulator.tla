---------------------------- MODULE MCSimulator -----------------------------
(* Command lines for TLC; k and M stand for 2 and 4.                       *)
EXTENDS Simulator

MCLevels == {"sum", "busy", "image", "custom"}

mc_level_of ==
  [l \in MCLevels |->
     [inputs |-> l # "image", skips |-> l = "busy", throws |-> l = "custom",
      busy |-> l = "busy"]]

Num(b)     == [base |-> b, multiplier |-> 1]
Kilo(b)    == [base |-> b, multiplier |-> 2]
Mega(b)    == [base |-> b, multiplier |-> 4]
One(n)     == [form |-> "single", from |-> n, to |-> n]
To(n, m)   == [form |-> "closed", from |-> n, to |-> m]
From(n)    == [form |-> "open", from |-> n, to |-> n]
Bad        == [form |-> "malformed", from |-> Num(0), to |-> Num(0)]

File(l)    == [prefix |-> l, readable |-> TRUE, parses |-> TRUE]
Garbled(l) == [prefix |-> l, readable |-> TRUE, parses |-> FALSE]
Missing(l) == [prefix |-> l, readable |-> FALSE, parses |-> FALSE]

Plain ==
  [level |-> none, seeds |-> "unset", exprs |-> <<>>, seed |-> 0, count |-> Num(0),
   limit |-> 2, multiplier_num |-> 2, multiplier_den |-> 1, total_limit |-> 100,
   threads |-> 1,
   cheat_num |-> 1, cheat_den |-> 2, run_fixed |-> TRUE, compute_stats |-> FALSE,
   dry_run |-> FALSE, trace |-> FALSE, solutions |-> <<File("sum")>>]

Seeds(e) == [Plain EXCEPT !.seeds = "ranges", !.exprs = e]
Random(s, n) == [Plain EXCEPT !.seeds = "counted", !.seed = s, !.count = n]

(* Several solutions, few tests each.                                      *)
Lists ==
  {[c EXCEPT !.solutions = s] :
     c \in {Plain, [Random(5, Num(1)) EXCEPT !.limit = 1]},
     s \in {<<File("sum"), File("image"), File("sum")>>,
            <<File("image"), Garbled("sum"), File("sum")>>,
            <<Missing("sum"), File("busy")>>,
            <<File(none), File("image"), File("custom")>>}}
    \cup {[Plain EXCEPT !.level = "image", !.solutions = <<File("sum"), Missing(none)>>]}

(* Ranges of all forms: scaled, open, adjacent, overlapping, to the last   *)
(* seed, and all of them.                                                  *)
SeedSets ==
  {[Seeds(e) EXCEPT !.run_fixed = FALSE, !.limit = 1] :
     e \in {<<To(Num(1), Num(2)), One(Kilo(1)), One(Num(7))>>,
            <<From(Kilo(3)), To(Num(6), Num(7))>>, <<From(Num(0))>>,
            <<To(Num(3), Mega(1)), One(Num(5))>>}}
    \cup {[Random(s, n) EXCEPT !.run_fixed = FALSE, !.limit = 1, !.compute_stats = TRUE] :
            s \in {0, 6}, n \in {Num(1), Kilo(2)}}

(* Multipliers 0, 3/4 and 1; limits 0 and 2; -j 2 and -j 0, which is 2 too.*)
Options ==
  {[Seeds(<<To(Num(0), Num(1))>>) EXCEPT !.multiplier_num = m, !.multiplier_den = 4,
                                         !.compute_stats = b, !.total_limit = t,
                                         !.solutions = <<File("busy")>>] :
     m \in {0, 3, 4}, b \in BOOLEAN, t \in {5, 100}}
    \cup {[Seeds(<<To(Num(0), Num(2))>>) EXCEPT !.limit = 0, !.run_fixed = b] :
            b \in BOOLEAN}
    \cup {[Seeds(<<To(Num(0), Num(2))>>) EXCEPT !.threads = j, !.limit = 1,
                                         !.total_limit = 4, !.solutions = s] :
            j \in {0, 2}, s \in {<<File("custom"), File("sum")>>,
                                 <<File("image"), File("busy"), File("sum")>>}}

Refusals ==
  {Seeds(<<One(Num(1)), x>>) :
     x \in {Bad, One(Mega(2)), To(Num(1), Kilo(4)), To(Num(2), Num(1)),
            From(Mega(3))}}
    \cup {[Plain EXCEPT !.seeds = "both"], Random(1, Mega(2)),
          [Plain EXCEPT !.threads = 2, !.trace = TRUE],
          [Plain EXCEPT !.dry_run = TRUE],
          [Plain EXCEPT !.dry_run = TRUE, !.solutions = <<Missing("sum")>>]}

MCCommands == Lists \cup SeedSets \cup Options \cup Refusals

ZeroCommands == {[Random(3, Num(0)) EXCEPT !.run_fixed = FALSE, !.limit = 1]}
=============================================================================
