----------------------------- MODULE SeedRanges -----------------------------
(***************************************************************************)
(* The seeds of the random tests: from the command line (main.cpp) to      *)
(* half-open ranges of 32-bit numbers (sim.hpp) to the iterator that walks *)
(* them (sim.cpp).  All arithmetic on seeds wraps.                         *)
(*                                                                         *)
(* An integer on the command line is [base, multiplier]: its digits and    *)
(* what its suffix stands for.  An element of --seeds is [form, from, to]: *)
(* N, L..H or L.. (what begins with a dot or holds another character is    *)
(* "malformed").                                                           *)
(***************************************************************************)
EXTENDS Integers, Sequences, SequencesExt

CONSTANT seed_max   (* the largest uint32_t                                *)

ASSUME SeedAssumption == seed_max \in Nat \ {0}

Seed == 0 .. seed_max

wrap(v) == v % (seed_max + 1)

Numeral == [base : Nat, multiplier : Nat \ {0}]

Element == [form : {"single", "closed", "open", "malformed"},
            from : Numeral, to : Numeral]

-----------------------------------------------------------------------------
(* parse_int: refused when the product would not fit.                      *)
Fits(n) == n.base <= seed_max \div n.multiplier

parse_int(n) == wrap(n.multiplier * n.base)

Upper(x) == IF x.form = "open" THEN seed_max ELSE parse_int(x.to)

(* What parse_ranges throws at.                                            *)
Refused(x) ==
  \/ x.form = "malformed"
  \/ ~Fits(x.from)
  \/ x.form = "closed" /\ ~Fits(x.to)
  \/ x.form # "single" /\ Upper(x) < parse_int(x.from)

Bug_EndNotWrapped(x) ==
  [begin |-> parse_int(x.from),
   end   |-> IF x.form = "single" THEN parse_int(x.from) + 1 ELSE Upper(x) + 1]

(* The range [begin, end) of an element; its end may wrap to 0.            *)
range_t(x) ==
  [begin |-> parse_int(x.from),
   end   |-> IF x.form = "single" THEN wrap(parse_int(x.from) + 1)
             ELSE wrap(Upper(x) + 1)]

parse_ranges(exprs) == [k \in DOMAIN exprs |-> range_t(exprs[k])]

(* -r N --seed S; the program takes S at random when there is no --seed.   *)
CountedRange(seed, count) ==
  <<[begin |-> seed, end |-> wrap(seed + parse_int(count))]>>

(* add_seed_range keeps a running total in an unsigned int.                *)
total_random_tests(ranges) ==
  LET total[k \in 0 .. Len(ranges)] ==
        IF k = 0 THEN 0
        ELSE wrap(total[k - 1] + (ranges[k].end - ranges[k].begin))
  IN  total[Len(ranges)]

-----------------------------------------------------------------------------
(* seed_range_iterator: the ranges from *it on, and cur.                   *)
Begin(ranges) == [it |-> ranges, cur |-> ranges[1].begin]

AtEnd(i) == i.it = <<>>

Bug_CurKept(i) ==
  IF wrap(i.cur + 1) # i.it[1].end THEN [i EXCEPT !.cur = wrap(@ + 1)]
  ELSE [it |-> Tail(i.it), cur |-> wrap(i.cur + 1)]

(* ++                                                                      *)
Advance(i) ==
  LET cur == wrap(i.cur + 1) IN
  IF cur # i.it[1].end THEN [i EXCEPT !.cur = cur]
  ELSE [it  |-> Tail(i.it),
        cur |-> IF Len(i.it) > 1 THEN i.it[2].begin ELSE cur]

-----------------------------------------------------------------------------
(* The seeds the user asked for, as the README describes the options.      *)

(* What an integer stands for.                                             *)
Amount(n) == n.base * n.multiplier

Interval(l, h) == [k \in 1 .. h - l + 1 |-> l + k - 1]

AskedBy(x) ==
  CASE x.form = "single" -> <<Amount(x.from)>>
    [] x.form = "closed" -> Interval(Amount(x.from), Amount(x.to))
    [] OTHER -> Interval(Amount(x.from), seed_max)

Asked(exprs) == FlattenSeq([k \in DOMAIN exprs |-> AskedBy(exprs[k])])

AskedCounted(seed, count) ==
  [k \in 1 .. Amount(count) |-> wrap(seed + k - 1)]
=============================================================================
