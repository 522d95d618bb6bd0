---------------------------- MODULE BuiltinLevels ---------------------------
(***************************************************************************)
(* The generators of the built-in levels' tests together, and what a test  *)
(* has to be for a solution of the level to pass it.  The answers the      *)
(* generators compute are checked against descriptions of the tasks that   *)
(* say what an output is to its inputs, not how to compute it.             *)
(***************************************************************************)
EXTENDS CampaignLevels, NexusLevels

Init ==
  \/ \E l \in DOMAIN campaign_levels : InitCampaign(l)
  \/ \E l \in DOMAIN nexus_levels : InitNexus(l)

(* A made test is handed over; the generators only stop there.             *)
Next == NextCampaign \/ NextNexus

(* Generators are sequential code: they go on as long as they can.         *)
Spec == Init /\ [][Next]_vars /\ WF_vars(Next)

-----------------------------------------------------------------------------
Zeros(s) == {i \in DOMAIN s : s[i] = 0}

(* The position of the zero before position i, and of the one at or after. *)
Before(s, i) == Max({0} \cup {z \in Zeros(s) : z < i})
After(s, i) == Min({z \in Zeros(s) : z >= i})

EndsInZero(s) == s # <<>> /\ Last(s) = 0

SumOf(S, Op(_)) == FoldSet(LAMBDA i, sum : sum + Op(i), 0, S)

Count(v, s, from, to) == Cardinality({i \in from .. to : s[i] = v})

(* s has the zeros of t, and between them the items of t in order.         *)
SortsEach(s, t) ==
  /\ Zeros(s) = Zeros(t)
  /\ \A i \in DOMAIN s \ Zeros(s) :
       /\ \A v \in ToSet(t) : Count(v, s, Before(s, i) + 1, After(s, i))
                                = Count(v, t, Before(s, i) + 1, After(s, i))
       /\ s[i + 1] # 0 => s[i] <= s[i + 1]

Sublist(s, k) == for_each_subsequence_of(s)[k]

(* What the emulated nodes do with the instructions they are sent.         *)
RunT20(code, values) ==
  FoldLeft(LAMBDA m, op :
             CASE op = 0 -> [m EXCEPT !.p = Head(m.values), !.values = Tail(@)]
               [] op = 1 -> [m EXCEPT !.q = Head(m.values), !.values = Tail(@)]
               [] op = 2 -> [m EXCEPT !.p = m.q, !.q = m.p]
               [] op = 3 -> [m EXCEPT !.p = sat_add(@, m.q)]
               [] op = 4 -> [m EXCEPT !.out = Append(@, m.p)],
           [p |-> 0, q |-> 0, values |-> values, out |-> <<>>], code).out

RunT31(code) ==
  FoldLeft(LAMBDA m, w :
             CASE m.read = <<1>> -> [m EXCEPT !.read = <<>>, !.out = Append(@, m.cells[w])]
               [] Len(m.read) = 2 -> [m EXCEPT !.read = <<>>, !.cells[m.read[2]] = w]
               [] OTHER -> [m EXCEPT !.read = Append(@, w)],
           [cells |-> [k \in 0 .. 7 |-> 0], read |-> <<>>, out |-> <<>>], code).out

(* Whatever length a generator gives its streams, the tests have the       *)
(* streams the nodes of the layout read and write (set_expected takes the  *)
(* streams in the order of the nodes and would not notice one too few or   *)
(* too many), only words a node can hold, no more items than a test has,   *)
(* except the runs of a stored image, and a place for every pixel.         *)
TypeOK ==
  /\ level \in DOMAIN layout
  /\ at \in {"drawing", "patched", "done", "skipped"}
  /\ image \in [Pixels -> tis_pixel]
  /\ at = "done" =>
       /\ <<Len(inputs), Len(n_outputs)>> = <<layout[level][1], layout[level][2]>>
       /\ \A s \in Range(inputs) \cup Range(n_outputs) :
            /\ \A i \in DOMAIN s : s[i] \in Word
            /\ level # "STORED IMAGE DECODER" => Len(s) <= length
       /\ level = "STORED IMAGE DECODER" =>
            Len(inputs[1]) <= 2 * ((width * height + 19) \div 20)

(* Item for item, the outputs are what the level asks for.                 *)
ItemSolved(in, out) ==
  CASE level = "SELF-TEST DIAGNOSTIC"       -> out = in
    [] level = "SIGNAL AMPLIFIER"           -> out[1] - in[1] = in[1]
    [] level = "DIFFERENTIAL CONVERTER"     -> out[1] + in[2] = in[1] /\ out[1] + out[2] = 0
    [] level = "SIGNAL COMPARATOR"          -> /\ out[1] + out[2] + out[3] = 1
                                               /\ in[1] * (out[1] - out[3]) >= 0
                                               /\ (in[1] = 0) = (out[2] = 1)
    [] level = "SIGNAL MULTIPLIER"          -> out[1] = SumOf(1 .. in[1], LAMBDA i : in[2])
    [] level = "SIGNAL DIVIDER"             -> /\ out[1] * in[2] + out[2] = in[1]
                                               /\ out[2] \in 0 .. in[2] - 1
    [] level = "SIGNAL MULTIPLEXER"         ->
         out[1] = SumOf({1, 3} \ {2 - in[2]}, LAMBDA k : in[k])
    [] level = "INTEGER SERIES CALCULATOR"  -> out[1] = SumOf(1 .. in[1], LAMBDA i : i)
    [] level = "SIGNAL ERROR CORRECTOR"     -> /\ -1 \notin {out[1], out[2]}
                                               /\ \A k \in 1 .. 2 : in[k] \in {-1, out[k]}
                                               /\ -1 \in Range(in) => out[1] = out[2]
    [] level = "SIGNAL PRESCALER"           -> /\ out[1] + out[1] = in[1]
                                               /\ out[2] + out[2] = out[1]
                                               /\ out[3] + out[3] = out[2]
    [] level = "SIGNAL AVERAGER"            -> in[1] + in[2] - 2 * out[1] \in {0, 1}
    [] level = "SUBMAXIMUM SELECTOR"        ->
         /\ Cardinality({k \in 1 .. 4 : in[k] > out[1]}) <= 1
         /\ Cardinality({k \in 1 .. 4 : in[k] >= out[1]}) >= 2
         /\ out[1] \in Range(in)
    [] level = "DECIMAL DECOMPOSER"         -> /\ 100 * out[1] + 10 * out[2] + out[3] = in[1]
                                               /\ Range(out) \subseteq 0 .. 9
    [] level = "DECIMAL TO OCTAL CONVERTER" -> /\ 8 * (out[1] \div 10) + (out[1] % 10) = in[1]
                                               /\ out[1] % 10 < 8 /\ out[1] < 78
    [] level = "SIGNAL EXPONENTIATOR"       ->
         out[1] = FoldLeft(LAMBDA x, i : x * in[1], 1, [i \in 1 .. in[2] |-> i])
    [] OTHER                                -> TRUE

(* Sequence for sequence, or over the whole of the streams.                *)
StreamsSolved(in, out) ==
  CASE level = "SEQUENCE GENERATOR" ->
         /\ Len(out[1]) = 3 * Len(in[1])
         /\ \A i \in DOMAIN in[1] :
              /\ {out[1][3 * i - 2], out[1][3 * i - 1]} = {in[1][i], in[2][i]}
              /\ out[1][3 * i - 2] <= out[1][3 * i - 1] /\ out[1][3 * i] = 0
    [] level = "SEQUENCE COUNTER" ->
         /\ Len(out[1]) = Cardinality(Zeros(in[1])) /\ Len(out[2]) = Len(out[1])
         /\ \A k \in DOMAIN out[1] :
              /\ out[2][k] = Len(Sublist(in[1], k))
              /\ out[1][k] = SumOf(1 .. out[2][k], LAMBDA i : Sublist(in[1], k)[i])
    [] level = "SIGNAL EDGE DETECTOR" ->
         \A i \in 2 .. length :
           out[1][i] = BoolWord(in[1][i] \notin in[1][i - 1] - 9 .. in[1][i - 1] + 9)
    [] level = "INTERRUPT HANDLER" ->
         \A i \in 2 .. length :
           LET rises == {k \in 1 .. 4 : in[k][i - 1] = 0 /\ in[k][i] = 1} IN
           out[1][i] = IF rises = {} THEN 0 ELSE CHOOSE k \in rises : rises = {k}
    [] level = "SIGNAL PATTERN DETECTOR" ->
         SumOf(DOMAIN out[1], LAMBDA i : out[1][i])
           = Cardinality({i \in 1 .. length - 2 : {i, i + 1, i + 2} \subseteq Zeros(in[1])})
    [] level = "SEQUENCE PEAK DETECTOR" ->
         \A z \in Zeros(in[1]) :
           LET k    == Cardinality({y \in Zeros(in[1]) : y <= z})
               list == {in[1][i] : i \in Before(in[1], z) + 1 .. z - 1}
           IN  /\ {out[1][k], out[2][k]} \subseteq list
               /\ list \subseteq out[1][k] .. out[2][k]
    [] level = "SEQUENCE REVERSER" ->
         \A i \in DOMAIN in[1] :
           out[1][i] = IF in[1][i] = 0 THEN 0
                       ELSE in[1][Before(in[1], i) + After(in[1], i) - i]
    [] level = "SEQUENCE SORTER" -> SortsEach(out[1], in[1])
    [] level = "SIGNAL WINDOW FILTER" ->
         \A i \in 1 .. length, w \in 1 .. 2 :
           out[w][i] = SumOf(Max({1, i - 2 * w}) .. i, LAMBDA j : in[1][j])
    [] level = "UNKNOWN" ->
         /\ FlattenSeq([k \in 1 .. Len(out[2]) \div 2 |->
              [i \in 1 .. out[2][2 * k - 1] |-> out[2][2 * k]]]) = Front(out[1])
         /\ \A k \in 1 .. Len(out[2]) \div 2 - 1 : out[2][2 * k] # out[2][2 * k + 2]
         /\ \A i \in 1 .. length - 1 : (in[1][i] \div 25) = out[1][i]
    [] level = "SEQUENCE MERGER" ->
         /\ SortsEach(out[1], out[1])
         /\ Cardinality(Zeros(in[1])) = Cardinality(Zeros(out[1]))
         /\ \A k \in 1 .. Cardinality(Zeros(out[1])) :
              SortsEach(Append(Sublist(out[1], k), 0),
                        Sublist(in[1], k) \o Sublist(in[2], k) \o <<0>>)
    [] level = "SEQUENCE RANGE LIMITER" ->
         \A i \in DOMAIN out[1] :
           LET g == Cardinality({z \in Zeros(in[2]) : z < i}) + 1 IN
           \/ out[1][i] = in[2][i] /\ out[1][i] \in {0} \cup in[1][g] .. in[3][g]
           \/ in[2][i] < in[1][g] /\ out[1][i] = in[1][g] /\ in[2][i] # 0
           \/ in[2][i] > in[3][g] /\ out[1][i] = in[3][g]
    [] level = "SUBSEQUENCE EXTRACTOR" ->
         \A k \in 1 .. Len(in[1]) \div 2 :
           Sublist(out[1], k)
             = SubSeq(Sublist(in[2], k), in[1][2 * k - 1] + 1, in[1][2 * k] + 1)
    [] level = "SEQUENCE GAP INTERPOLATOR" ->
         \A k \in DOMAIN out[1] :
           LET s == ToSet(Sublist(in[1], k)) IN
           out[1][k] \notin s /\ s \cup {out[1][k]} = Min(s) .. Max(s)
    [] level = "SEQUENCE MODE CALCULATOR" ->
         \A k \in DOMAIN out[1] :
           LET s == Sublist(in[1], k)
               times(v) == Count(v, s, 1, Len(s))
               Ahead(v) == \A u \in 1 .. 5 \ {v} : times(u) < times(v)
           IN  IF \E v \in 1 .. 5 : Ahead(v) THEN Ahead(out[1][k]) ELSE out[1][k] = 0
    [] level = "SEQUENCE NORMALIZER" ->
         /\ Last(out[1]) = -1
         /\ \A i \in DOMAIN out[1] : (out[1][i] = -1) = (in[1][i] = -1)
         /\ \A i \in DOMAIN out[1] : out[1][i] # -1 =>
              LET from == Max({0} \cup {e \in DOMAIN out[1] : e < i /\ in[1][e] = -1})
                  to   == Min({e \in DOMAIN out[1] : e > i /\ in[1][e] = -1})
                  list == from + 1 .. to - 1
              IN  /\ \E j \in list : out[1][j] = 0
                  /\ \A j \in list : out[1][j] >= 0
                                       /\ in[1][j] - out[1][j] = in[1][i] - out[1][i]
    [] level = "PROLONGED SEQUENCE SORTER" ->
         SortsEach([i \in DOMAIN out[1] |-> out[1][i] + 1], [i \in DOMAIN in[1] |-> in[1][i] + 1])
    [] level = "SEQUENCE INDEXER" ->
         \A i \in 1 .. length : out[1][i] = in[1][in[2][i] + 1]
    [] level = "PRIME FACTOR CALCULATOR" ->
         /\ Cardinality(Zeros(out[1])) = Len(in[1])
         /\ \A k \in DOMAIN in[1] :
              LET s == Sublist(out[1], k) IN
              /\ FoldLeft(LAMBDA x, y : x * y, 1, s) = in[1][k]
              /\ \A j \in DOMAIN s : /\ s[j] > 1
                                      /\ \A d \in 2 .. s[j] - 1 : s[j] % d # 0
                                      /\ j > 1 => s[j - 1] <= s[j]
    [] level = "T20 NODE EMULATOR" -> out[1] = RunT20(in[1], in[2])
    [] level = "T31 NODE EMULATOR" -> out[1] = RunT31(in[1])
    [] level = "BACK-REFERENCE REIFIER" ->
         \A i \in 1 .. length : out[1][i] = in[2][i + in[1][i]]
    [] level = "DYNAMIC PATTERN DETECTOR" ->
         LET begins == {i \in 1 .. length - 2 : \A k \in 1 .. 3 : in[2][i + k - 1] = in[1][k]}
         IN  /\ ToSet(out[1]) \subseteq {0, 1}
             /\ {i \in DOMAIN out[1] : out[1][i] = 1} = {i + 2 : i \in begins}
    [] level = "WAVE COLLAPSE SUPERVISOR" ->
         \A i \in 1 .. length, j \in 1 .. 4 :
           LET sum(k) == SumOf(1 .. i, LAMBDA n : in[k][n])
           IN  sum(j) < sum(out[1][i]) \/ (sum(j) = sum(out[1][i]) /\ j >= out[1][i])
    [] OTHER -> TRUE

(* The outputs of a test are the ones the level asks for of its inputs.    *)
SolvesTask ==
  at = "done" =>
    /\ StreamsSolved(inputs, n_outputs)
    /\ \A i \in 1 .. length :
         (\A s \in Range(inputs) \cup Range(n_outputs) : i \in DOMAIN s)
           => ItemSolved([k \in DOMAIN inputs |-> inputs[k][i]],
                         [k \in DOMAIN n_outputs |-> n_outputs[k][i]])

(* What the generators arrange for beyond the answer, by overwriting items *)
(* they drew or by drawing again, is still so when the test is handed      *)
(* over: no sequence of SEQUENCE PEAK DETECTOR is empty (its least item    *)
(* would be read past the end), the sequences of SEQUENCE MERGER end with  *)
(* the stream, the end mark of SEQUENCE INDEXER is not pointed at, the     *)
(* factors of PRIME FACTOR CALCULATOR fill the stream but for one, the     *)
(* lines of a path are 4 to 15 pixels long ("no adjacent points have X or  *)
(* Y coordinates less than 4 or more than 15 apart"), a digit is missing,  *)
(* a gap is not at an end, no cell is read before it was written, and the  *)
(* four patterns of DYNAMIC PATTERN DETECTOR "guaranteed to be complete"   *)
(* are there.                                                              *)
PromisesKept ==
  at = "done" =>
    CASE level = "SEQUENCE GENERATOR" -> \E i \in 1 .. array_size : inputs[1][i] = inputs[2][i]
      [] level = "SEQUENCE PEAK DETECTOR" ->
           /\ EndsInZero(inputs[1]) /\ inputs[1][1] # 0
           /\ \A z \in Zeros(inputs[1]) : z + 1 \notin Zeros(inputs[1])
      [] level \in {"SEQUENCE COUNTER", "SEQUENCE REVERSER", "SEQUENCE SORTER"} ->
           EndsInZero(inputs[1])
      [] level = "SEQUENCE MERGER" ->
           /\ Len(n_outputs[1]) = length
           /\ \A s \in Range(inputs) \cup Range(n_outputs) : EndsInZero(s)
           /\ Cardinality({z \in Zeros(n_outputs[1]) :
                              z - 1 \in {0} \cup Zeros(n_outputs[1])}) <= 2
      [] level = "SEQUENCE MODE CALCULATOR" ->
           /\ EndsInZero(inputs[1])
           /\ \A z \in Zeros(inputs[1]) \ {length} : z - Before(inputs[1], z) > 3
           /\ length - 1 \notin Zeros(inputs[1])
      [] level = "SEQUENCE NORMALIZER" ->
           \A i \in 1 .. Len(inputs[1]) - long_enough - 1 :
             -1 \in {inputs[1][j] : j \in i .. i + long_enough + 1}
      [] level = "PROLONGED SEQUENCE SORTER" -> ~(0 .. digits - 1 \subseteq Range(inputs[1]))
      [] level = "SEQUENCE GAP INTERPOLATOR" ->
           \A k \in DOMAIN n_outputs[1] :
             LET s == ToSet(Sublist(inputs[1], k))
             IN  Min(s) < n_outputs[1][k] /\ n_outputs[1][k] < Max(s)
      [] level = "SEQUENCE INDEXER" -> 0 \notin Range(n_outputs[1])
      [] level = "PRIME FACTOR CALCULATOR" -> Len(n_outputs[1]) = length - 1
      [] level = "SPATIAL PATH VIEWER" ->
           /\ Len(inputs[1]) = length - 1
           /\ \A k \in 1 .. Len(inputs[1]) \div 2 : inputs[1][2 * k] \in 4 .. 15
      [] level = "T31 NODE EMULATOR" -> 0 \notin Range(n_outputs[1])
      [] level = "DYNAMIC PATTERN DETECTOR" ->
           LET P(k) == inputs[1][k]
               Starts(part) == {i \in 1 .. length - Len(part) + 1 :
                                  \A k \in DOMAIN part : inputs[2][i + k - 1] = P(part[k])}
           IN  /\ Starts(<<1, 2, 3>>) \cap 1 .. 7 # {}
               /\ Starts(<<1, 2, 2, 3>>) \cap 10 .. 13 # {}
               /\ Starts(<<1, 1, 2, 3>>) \cap 17 .. 23 # {}
               /\ Starts(<<1, 2, 1, 2, 3>>) \cap 27 .. 35 # {}
      [] OTHER -> TRUE

Lit == {p \in Pixels : image[p] # C_black}

(* The rectangles of EXPOSURE MASK VIEWER, one record for every four words.*)
Rectangles ==
  {[x |-> inputs[1][4 * k - 3], y |-> inputs[1][4 * k - 2],
    w |-> inputs[1][4 * k - 1], h |-> inputs[1][4 * k]] : k \in 1 .. Len(inputs[1]) \div 4}

Inside(p, r, margin) ==
  /\ Column(p) \in r.x - margin .. r.x + r.w - 1 + margin
  /\ Row(p) \in r.y - margin .. r.y + r.h - 1 + margin

(* Where an angle leads, and what a walk of angles and lengths sees, from  *)
(* the corner; the pixel it stands on counts as the first of a line.       *)
ahead == (0 :> <<1, 0>>) @@ (180 :> <<-1, 0>>) @@ (90 :> <<0, -1>>) @@ (270 :> <<0, 1>>)

Walked(in) ==
  FoldLeft(LAMBDA w, k :
             LET Step(n) == <<w.pos[1] + n * ahead[in[2 * k - 1]][1],
                              w.pos[2] + n * ahead[in[2 * k - 1]][2]>>
             IN  [pos  |-> Step(in[2 * k] - 1),
                  seen |-> w.seen \cup {Step(n) : n \in 0 .. in[2 * k] - 1}],
           [pos |-> <<0, 0>>, seen |-> {}], [k \in 1 .. Len(in) \div 2 |-> k])

(* The image a test expects is the one its inputs describe, and no pixel   *)
(* is ever written outside it: rectangles that do not touch each other or  *)
(* the border, columns of the given heights, runs in reading order, a path *)
(* whose every line begins where the one before it ended, and              *)
(* characters that all have their place.                                   *)
ImageShowsInput ==
  CASE level = "EXPOSURE MASK VIEWER" ->
         /\ Cardinality(Rectangles) = Len(inputs[1]) \div 4
         /\ \A p \in Pixels : p \in Lit <=> \E r \in Rectangles : Inside(p, r, 0)
         /\ \A r, s \in Rectangles : r # s =>
              ~\E p \in Pixels : Inside(p, r, 1) /\ Inside(p, s, 0)
         /\ \A r \in Rectangles : r.x + r.w < width /\ r.y + r.h < height
    [] level = "HISTOGRAM VIEWER" ->
         at = "done" => \A c \in 1 .. width :
           {Row(p) : p \in {p \in Lit : Column(p) = c - 1}}
             = height - inputs[1][c] .. height - 1
    [] level = "STORED IMAGE DECODER" ->
         LET end(k) == SumOf(1 .. k, LAMBDA j : inputs[1][2 * j - 1]) IN
         /\ local < width * height + 45
         /\ \A k \in 1 .. Len(inputs[1]) \div 2 : \A p \in end(k - 1) + 1 .. end(k) :
              p \in Pixels => image[p] = inputs[1][2 * k]
    [] level = "SPATIAL PATH VIEWER" ->
         {<<Column(p), Row(p)>> : p \in Lit} = Walked(inputs[1]).seen
    [] level = "CHARACTER TERMINAL" /\ local.i > 0 ->
         /\ local.x * 3 + 1 < width /\ local.y * 3 + 1 < height
         /\ at = "done" => Cardinality(Lit) =
              SumOf(DOMAIN inputs[1], LAMBDA i : CASE inputs[1][i] = 0 -> 0
                                                   [] inputs[1][i] = 4 -> 3
                                                   [] OTHER -> 2)
    [] OTHER -> TRUE

(* A generator always ends, with a test or with none: where a rectangle    *)
(* may have no place left it gives up.  Only that level makes no test.     *)
AlwaysGenerates ==
  /\ <>(at \in {"done", "skipped"})
  /\ [](at = "skipped" => level = "EXPOSURE MASK VIEWER")
=============================================================================
