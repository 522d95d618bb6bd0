---------------------------- MODULE NexusLevels -----------------------------
(***************************************************************************)
(* The tests of the levels of TIS-NET's nexus (levels_builtin.cpp), drawn  *)
(* with lua_random.  Most build their outputs along with their inputs: a   *)
(* step is one turn of the generator's loop.  A value drawn again until it *)
(* fits is drawn once here, among those that fit.                          *)
(***************************************************************************)
EXTENDS LevelTests

CONSTANTS
  longest,             (* 11: the longest sequence of SEQUENCE MERGER      *)
  merged_values,       (* what its sequences hold, of 10 .. 99             *)
  long_enough,         (* 7: SEQUENCE NORMALIZER ends a sequence above it   *)
  groups, group_size,  (* 6, 5: the sequences of SEQUENCE RANGE LIMITER    *)
  seq_lengths,         (* <<2, 3, 3, 4, 4, 4, 5, 6>>: SUBSEQUENCE EXTRACTOR*)
  gap_lengths,         (* <<5, 4, 4, 4, 5, 4, 5, 4, 4>>: GAP INTERPOLATOR  *)
  digits,              (* 10: the digits PROLONGED SEQUENCE SORTER sorts   *)
  path_points,         (* 11: the points of SPATIAL PATH VIEWER's path     *)
  factored             (* 10: the numbers of PRIME FACTOR CALCULATOR       *)

(* The pictures of IMAGE TEST PATTERN 3, a ring in a ring, and 4.          *)
ring(p) == Min({Column(p), width - 1 - Column(p), Row(p), height - 1 - Row(p)})

shades == << <<0, 1, 2, 3>>, <<1, 0, 3, 2>>, <<2, 3, 0, 1>>, <<3, 2, 1, 0>> >>

InitNexus(l) ==
  /\ InitTest(l)
  /\ image = [p \in Pixels |->
       CASE l = "IMAGE TEST PATTERN 3" ->
              IF ring(p) % 2 = 0 THEN C_white ELSE C_black
         [] l = "IMAGE TEST PATTERN 4" -> shades[(Row(p) % 4) + 1][(Column(p) % 4) + 1]
         [] OTHER -> C_black]
  /\ local =
       CASE l = "SEQUENCE MERGER"          -> [prevempty |-> TRUE, canzero |-> TRUE]
         [] l = "SUBSEQUENCE EXTRACTOR"    -> seq_lengths
         [] l = "DYNAMIC PATTERN DETECTOR" -> 0
         [] l = "CHARACTER TERMINAL"       -> [x |-> -1, y |-> 0, i |-> 0]
         [] l = "SPATIAL PATH VIEWER"      -> [coorsX |-> <<0>>, coorsY |-> <<0>>]
         [] l = "T20 NODE EMULATOR"        -> [p |-> 0, q |-> 0]
         [] l = "T31 NODE EMULATOR"        -> [k \in 0 .. 7 |-> 0]
         [] l = "WAVE COLLAPSE SUPERVISOR" -> [k \in 1 .. 4 |-> 0]
         [] OTHER                          -> 0   (* where a sequence began *)

At(l) == at = "drawing" /\ level = l

Push(streams, s) == [k \in DOMAIN streams |-> streams[k] \o s[k]]

Emit(in, out) == inputs' = Push(inputs, in) /\ n_outputs' = Push(n_outputs, out)

-----------------------------------------------------------------------------
(* Levels that draw one item of every stream at a time, by itself          *)

Bug_NextPower == <<10, 10, 9, 6, 4, 4, 3, 3, 3, 3>>

max_exp == <<10, 9, 6, 4, 4, 3, 3, 3, 3, 2>>

Corrected(r, a, b) ==
  CASE r = 1 -> [in |-> <<-1, b>>, out |-> <<b, b>>]
    [] r = 2 -> [in |-> <<a, -1>>, out |-> <<a, a>>]
    [] OTHER -> [in |-> <<a, b>>, out |-> <<a, b>>]

items ==
  CASE level = "INTEGER SERIES CALCULATOR" ->
         {[in |-> <<n>>, out |-> <<(n * (n + 1)) \div 2>>] : n \in lua_word(1, 44)}
    [] level = "SIGNAL ERROR CORRECTOR" ->
         {Corrected(r, a, b) : r \in 1 .. 4, a, b \in lua_word(10, 99)}
    [] level = "SIGNAL PRESCALER" ->
         {[in |-> <<v * 8>>, out |-> <<v * 4, v * 2, v>>] : v \in lua_word(1, 120)}
    [] level = "SIGNAL AVERAGER" ->
         {[in |-> <<a, b>>, out |-> <<(a + b) \div 2>>] : a, b \in lua_word(100, 999)}
    [] level = "SUBMAXIMUM SELECTOR" ->
         {[in |-> g, out |-> <<Ascending(g)[3]>>] : g \in [1 .. 4 -> lua_word(0, 99)]}
    [] level = "DECIMAL DECOMPOSER" ->
         {[in |-> <<v>>, out |-> <<v \div 100, (v % 100) \div 10, v % 10>>] :
            v \in lua_word(0, 9) \cup lua_word(10, 99) \cup lua_word(100, 999)}
    [] level = "DECIMAL TO OCTAL CONVERTER" ->
         {[in |-> <<v>>, out |-> <<(v \div 8) * 10 + (v % 8)>>] : v \in lua_word(1, 63)}
    [] level = "SIGNAL EXPONENTIATOR" ->
         UNION {{[in |-> <<a, b>>, out |-> <<a ^ b>>] : b \in lua_word(1, max_exp[a])} :
                  a \in lua_word(1, 10)}
    [] OTHER -> {}

DrawSignals ==
  /\ at = "drawing"
  /\ \E i \in items : /\ Len(inputs[1]) < length
                      /\ Emit([k \in DOMAIN i.in |-> <<i.in[k]>>],
                              [k \in DOMAIN i.out |-> <<i.out[k]>>])
  /\ UNCHANGED <<level, at, image, local>>

DrawReference ==
  /\ At("BACK-REFERENCE REIFIER") /\ Len(inputs[1]) < length
  /\ \E ref \in {0} \cup lua_word(-4, -1), v \in lua_word(10, 99) :
       LET i    == Len(inputs[1]) + 1
           back == IF i + ref < 1 THEN 0 ELSE ref
       IN  Emit(<< <<back>>, <<v>> >>, << <<Append(inputs[2], v)[i + back]>> >>)
  /\ UNCHANGED <<level, at, image, local>>

(* A wire that was the output is drawn down; local: the sums of the wires. *)
DrawWaves ==
  /\ At("WAVE COLLAPSE SUPERVISOR") /\ Len(inputs[1]) < length
  /\ \E n \in [1 .. 4 -> -1 .. 1] :
       /\ \A j \in 1 .. 4 :
            n[j] \in IF n_outputs[1] # <<>> /\ Last(n_outputs[1]) = j
                     THEN lua_word(-1, 0) ELSE lua_word(0, 1)
       /\ local' = [j \in 1 .. 4 |-> local[j] + n[j]]
       /\ Emit([j \in 1 .. 4 |-> <<n[j]>>],
               << <<Min({j \in 1 .. 4 : \A k \in 1 .. 4 : local'[j] >= local'[k]})>> >>)
  /\ UNCHANGED <<level, at, image>>

-----------------------------------------------------------------------------
(* Levels that draw one sequence at a time                                 *)

(* How many items the next sequence of SEQUENCE MERGER may have, so that   *)
(* the last one ends with the stream.                                      *)
merged_lengths(size) ==
  LET maxmax == IF size = length - longest - 2 THEN longest - 1
                ELSE IF size < length - longest THEN longest
                ELSE length - 1 - size
  IN  IF maxmax < longest - 1 THEN {maxmax}
      ELSE {n \in 0 .. maxmax : local.canzero \/ n # 0}

MergeSequences ==
  /\ At("SEQUENCE MERGER") /\ Len(n_outputs[1]) < length
  /\ \E s \in SUBSET merged_values : \E first \in SUBSET s :
       LET maxout == Cardinality(s)
           count1 == Cardinality(first)
           Sorted(v) == Append(SetToSortSeq(v, LAMBDA a, b : a < b), 0)
       IN
       /\ maxout \in merged_lengths(Len(n_outputs[1]))
       /\ local.prevempty /\ maxout >= 2 => count1 \in 1 .. maxout - 1
       /\ local' = [canzero |-> local.canzero /\ maxout # 0,
                    prevempty |-> count1 \in {0, maxout}]
       /\ Emit(<<Sorted(first), Sorted(s \ first)>>, <<Sorted(s)>>)
  /\ UNCHANGED <<level, at, image>>

DrawGroup ==
  /\ At("SEQUENCE RANGE LIMITER") /\ Len(inputs[1]) < groups
  /\ \E min \in lua_word(3, 9), max \in lua_word(10, 17),
        s \in [1 .. group_size -> lua_word(10, 99)] :
       Emit(<< <<min * 5>>, Append(s, 0), <<max * 5>> >>,
            <<Append([k \in DOMAIN s |-> clamp(s[k], min * 5, max * 5)], 0)>>)
  /\ UNCHANGED <<level, at, image, local>>

(* local: the lengths that are left, of which the shuffle makes any next.  *)
DrawSubsequence ==
  /\ At("SUBSEQUENCE EXTRACTOR") /\ local # <<>>
  /\ \E k \in DOMAIN local : \E s \in [1 .. local[k] -> lua_word(10, 99)] :
       \E sublen \in lua_word(2, local[k]) : \E first \in lua_word(0, local[k] - sublen) :
         /\ Emit(<< <<first, first + sublen - 1>>, Append(s, 0)>>,
                 <<Append(SubSeq(s, first + 1, first + sublen), 0)>>)
         /\ local' = RemoveAt(local, k)
  /\ UNCHANGED <<level, at, image>>

(* A run of numbers, one of them missing, in any order.                    *)
DrawGap ==
  /\ At("SEQUENCE GAP INTERPOLATOR") /\ Len(n_outputs[1]) < Len(gap_lengths)
  /\ LET size == gap_lengths[Len(n_outputs[1]) + 1] IN
     \E min \in lua_word(10, 90) : \E missing \in lua_word(min + 1, min + size - 2) :
       \E s \in SetToSeqs(min .. min + size - 1 \ {missing}) :
         Emit(<<Append(s, 0)>>, << <<missing>> >>)
  /\ UNCHANGED <<level, at, image, local>>

(* local: the last zero.  The last item but one is never a zero.           *)
DrawModeItem ==
  /\ At("SEQUENCE MODE CALCULATOR") /\ Len(inputs[1]) < length - 1
  /\ LET i == Len(inputs[1]) + 1 IN
     \E v \in lua_word(1, 5) \cup (IF i - local > 3 /\ i < length - 1 THEN {0} ELSE {}) :
       /\ inputs' = <<Append(inputs[1], v)>>
       /\ local' = IF v = 0 THEN i ELSE local
  /\ UNCHANGED <<level, at, n_outputs, image>>

Bug_LastOfTheMost(frequency) ==
  FoldLeft(LAMBDA m, k : IF frequency[k] >= m.max_frequency
                         THEN [max_frequency |-> frequency[k], most_frequent |-> k]
                         ELSE m,
           [max_frequency |-> 0, most_frequent |-> 0], <<1, 2, 3, 4, 5>>).most_frequent

(* The one value of most occurrences; 0 when there are several.            *)
mode(frequency) ==
  FoldLeft(LAMBDA m, k : IF frequency[k] > m.max_frequency
                         THEN [max_frequency |-> frequency[k], most_frequent |-> k]
                         ELSE IF frequency[k] = m.max_frequency
                         THEN [m EXCEPT !.most_frequent = 0] ELSE m,
           [max_frequency |-> 0, most_frequent |-> 0], <<1, 2, 3, 4, 5>>).most_frequent

EndModes ==
  /\ At("SEQUENCE MODE CALCULATOR") /\ Len(inputs[1]) = length - 1
  /\ inputs' = <<Append(inputs[1], 0)>>
  /\ n_outputs' =
       <<[k \in DOMAIN for_each_subsequence_of(inputs'[1]) |->
            LET s == for_each_subsequence_of(inputs'[1])[k]
            IN  mode([v \in 1 .. 5 |-> Cardinality({i \in DOMAIN s : s[i] = v})])]>>
  /\ at' = "done"
  /\ UNCHANGED <<level, image, local>>

(* The least item of the sequence that began after position start.         *)
min_in_seq(s, start) == Min(ToSet(SubSeq(s, start + 1, Len(s))))

(* An item of SEQUENCE NORMALIZER, and the end of its sequence when one is *)
(* drawn, when the sequence is long or the stream about to end.            *)
DrawNormalItem ==
  /\ At("SEQUENCE NORMALIZER") /\ Len(inputs[1]) < length - 1
  /\ \E v \in lua_word(1, 99), cut \in BOOLEAN :
       LET in   == Append(inputs[1], v)
           out  == Append(n_outputs[1], v)
           size == Len(in) - local
           must == size > long_enough \/ Len(in) = length - 2
       IN
       IF must \/ (cut /\ size > 2)
       THEN /\ inputs' = <<Append(in, -1)>>
            /\ n_outputs' = <<Append([k \in DOMAIN out |->
                 IF k > local THEN out[k] - min_in_seq(out, local) ELSE out[k]], -1)>>
            /\ local' = Len(in) + 1
       ELSE inputs' = <<in>> /\ n_outputs' = <<out>> /\ UNCHANGED local
  /\ UNCHANGED <<level, at, image>>

(* What has no end mark is dropped from the output, not from the input.    *)
TrimNormalized ==
  /\ At("SEQUENCE NORMALIZER") /\ Len(inputs[1]) = length - 1
  /\ n_outputs' = <<SubSeq(n_outputs[1], 1, local)>>
  /\ at' = "done"
  /\ UNCHANGED <<level, inputs, image, local>>

(* Once only one digit has not been seen, it is not drawn.                 *)
fitting_digits ==
  LET seen == ToSet(inputs[1])
  IN  {v \in 0 .. digits - 1 : v \in seen \/ Cardinality(seen) < digits - 1}

DrawDigit ==
  /\ At("PROLONGED SEQUENCE SORTER") /\ Len(inputs[1]) < length - 1
  /\ \E v \in fitting_digits : inputs' = <<Append(inputs[1], v)>>
  /\ UNCHANGED <<level, at, n_outputs, image, local>>

SortDigits ==
  /\ At("PROLONGED SEQUENCE SORTER") /\ Len(inputs[1]) = length - 1
  /\ inputs' = <<Append(inputs[1], -1)>>
  /\ n_outputs' = <<Append(Ascending(inputs[1]), -1)>>
  /\ at' = "done"
  /\ UNCHANGED <<level, image, local>>

(* The prime factors of inp that are no less than fac, as the table is     *)
(* made that the generator looks them up in.                               *)
factors[inp \in 1 .. 99, fac \in 2 .. 10] ==
  IF inp < fac * fac THEN <<inp>>
  ELSE IF inp % fac = 0 THEN <<fac>> \o factors[inp \div fac, fac]
  ELSE factors[inp, fac + 1]

(* Ten numbers are drawn until their factors fill the stream but for one.  *)
(* Here each is one that leaves the numbers after it 2 to 7 items apiece,  *)
(* a zero and what the primes and 64 or 96 have.                           *)
DrawComposite ==
  /\ At("PRIME FACTOR CALCULATOR") /\ Len(inputs[1]) < factored
  /\ \E inp \in 10 .. 99 :
       LET out   == Append(factors[inp, 2], 0)
           free  == length - 1 - Len(n_outputs[1]) - Len(out)
           later == factored - Len(inputs[1]) - 1
       IN  free \in 2 * later .. 7 * later /\ Emit(<< <<inp>> >>, <<out>>)
  /\ UNCHANGED <<level, at, image, local>>

-----------------------------------------------------------------------------
(* Emulators                                                               *)

to_word(v) == ((v + int16_max + 1) % (2 * int16_max + 2)) - int16_max - 1

(* The first two instructions zero both registers; p and q are not clamped *)
(* before the end, but wrap as a word_t does.                              *)
DrawInstruction ==
  /\ At("T20 NODE EMULATOR") /\ Len(inputs[1]) < length
  /\ \E v \in lua_word(10, 99), instr \in 0 .. 4 :
       LET i == Len(inputs[1])
           Give(op, s, reg, out) == /\ Emit(<< <<op>>, s>>, <<out>>)
                                    /\ local' = reg
       IN
       CASE i < 2 -> Give(i, <<0>>, local, <<>>)
         [] OTHER ->
            CASE instr = 0 -> Give(0, <<v>>, [local EXCEPT !.p = v], <<>>)
              [] instr = 1 -> Give(1, <<v>>, [local EXCEPT !.q = v], <<>>)
              [] instr = 2 -> Give(2, <<>>, [p |-> local.q, q |-> local.p], <<>>)
              [] instr = 3 -> Give(3, <<>>, [local EXCEPT !.p = to_word(@ + local.q)], <<>>)
              [] OTHER     -> Give(4, <<>>, local, <<local.p>>)
  /\ UNCHANGED <<level, at, image>>

(* What T31 may read: 0 stands for a cell that was never written.          *)
written_cells == {index \in 0 .. 7 : local[index] # 0}

DrawAccess ==
  /\ At("T31 NODE EMULATOR") /\ Len(inputs[1]) <= length - 3
  /\ \/ \E index \in written_cells :
          /\ Emit(<< <<1, index>> >>, << <<local[index]>> >>)
          /\ UNCHANGED local
     \/ \E index \in lua_word(0, 7), value \in lua_word(10, 99) :
          /\ Emit(<< <<0, index, value>> >>, << <<>> >>)
          /\ local' = [local EXCEPT ![index] = value]
  /\ UNCHANGED <<level, at, image>>

-----------------------------------------------------------------------------
(* DYNAMIC PATTERN DETECTOR                                                *)

(* All the items are drawn alike here.  local: the pattern parts put.      *)
DrawPattern ==
  /\ At("DYNAMIC PATTERN DETECTOR") /\ local = 0
  /\ \E p \in [1 .. 3 -> lua_word(1, 42)], v \in lua_word(1, 42) :
       inputs' = <<Append(p, 0), [i \in 1 .. length |-> v]>>
  /\ local' = 1
  /\ UNCHANGED <<level, at, n_outputs, image>>

Bug_Overlapping ==
  << <<<<1, 37>>, <<1, 2, 3>>>>, <<<<1, 37>>, <<2, 3>>>>,
     <<<<1, 7>>, <<1, 2, 3>>>>, <<<<8, 13>>, <<1, 2, 2, 3>>>>,
     <<<<17, 23>>, <<1, 1, 2, 3>>>>, <<<<27, 35>>, <<1, 2, 1, 2, 3>>>> >>

(* Where each part may begin, and what of the pattern it has.  The program *)
(* puts the first part twice and the second three times.                   *)
parts ==
  << <<<<1, 37>>, <<1, 2, 3>>>>, <<<<1, 37>>, <<2, 3>>>>,
     <<<<1, 7>>, <<1, 2, 3>>>>, <<<<10, 13>>, <<1, 2, 2, 3>>>>,
     <<<<17, 23>>, <<1, 1, 2, 3>>>>, <<<<27, 35>>, <<1, 2, 1, 2, 3>>>> >>

PutPart ==
  /\ At("DYNAMIC PATTERN DETECTOR") /\ local \in DOMAIN parts
  /\ \E j \in lua_word(parts[local][1][1], parts[local][1][2]) :
       LET part  == parts[local][2]
           start == IF Head(part) = 2 THEN j + 1 ELSE j
       IN  inputs' = [inputs EXCEPT ![2] =
             [i \in DOMAIN @ |-> IF i \in start .. start + Len(part) - 1
                                 THEN inputs[1][part[i - start + 1]] ELSE @[i]]]
  /\ local' = local + 1
  /\ UNCHANGED <<level, at, n_outputs, image>>

FindPatterns ==
  /\ At("DYNAMIC PATTERN DETECTOR") /\ local > Len(parts)
  /\ n_outputs' = <<[i \in 1 .. length |->
       BoolWord(i > 2 /\ SubSeq(inputs[2], i - 2, i) = SubSeq(inputs[1], 1, 3))]>>
  /\ at' = "done"
  /\ UNCHANGED <<level, inputs, image, local>>

-----------------------------------------------------------------------------
(* SPATIAL PATH VIEWER                                                     *)

distance(a, b) == IF a < b THEN b - a ELSE a - b

Fits(a, b) == distance(a, b) \in 3 .. 14

(* What may follow the coordinates placed: the shuffle may put any that    *)
(* fits first.  Once none fits they are left as the shuffle put them.      *)
makeCoords(coors, max) ==
  LET rest  == 0 .. max \ ToSet(coors)
      good  == {c \in rest : Fits(Last(coors), c)}
      stuck == \E k \in 2 .. Len(coors) : ~Fits(coors[k - 1], coors[k])
  IN  IF stuck \/ good = {} THEN rest ELSE good

PlacePoint ==
  /\ At("SPATIAL PATH VIEWER") /\ Len(local.coorsX) < path_points
  /\ \E x \in makeCoords(local.coorsX, width - 1),
        y \in makeCoords(local.coorsY, height - 1) :
       local' = [coorsX |-> Append(local.coorsX, x), coorsY |-> Append(local.coorsY, y)]
  /\ UNCHANGED <<level, at, inputs, n_outputs, image>>

Between(c, a, b) == c \in a .. b \/ c \in b .. a

(* From a point across to the column of the next, and along it; but the    *)
(* path ends early, on a line across, where the stream would be full.      *)
DrawLines ==
  /\ At("SPATIAL PATH VIEWER") /\ Len(local.coorsX) = path_points
  /\ LET i    == Len(inputs[1]) \div 4 + 1
         xOne == local.coorsX[i]      yOne == local.coorsY[i]
         xTwo == local.coorsX[i + 1]  yTwo == local.coorsY[i + 1]
         long == Len(inputs[1]) + 2 = length - 1
         across == <<IF xTwo < xOne THEN 180 ELSE 0, distance(xOne, xTwo) + 1>>
         along  == <<IF yTwo < yOne THEN 90 ELSE 270, distance(yOne, yTwo) + 1>>
     IN  /\ inputs' = <<inputs[1] \o across \o (IF long THEN <<>> ELSE along)>>
         /\ image' = [p \in Pixels |->
              IF \/ Row(p) = yOne /\ Between(Column(p), xOne, xTwo)
                 \/ ~long /\ Column(p) = xTwo /\ Between(Row(p), yOne, yTwo)
              THEN C_white ELSE image[p]]
         /\ at' = IF long \/ i = path_points - 1 THEN "done" ELSE at
  /\ UNCHANGED <<level, n_outputs, local>>

-----------------------------------------------------------------------------
(* CHARACTER TERMINAL                                                      *)

(* The lit pixels of a character, right and down from its place.           *)
char_decode ==
  <<{<<0, 0>>, <<0, 1>>}, {<<0, 0>>, <<1, 1>>}, {<<0, 1>>, <<1, 0>>},
    {<<0, 0>>, <<0, 1>>, <<1, 0>>}>>

(* All the characters are drawn alike here; two are made line ends.        *)
DrawText ==
  /\ At("CHARACTER TERMINAL") /\ inputs[1] = <<>>
  /\ \E c \in lua_word(1, 4), a \in 12 .. 16, b \in 28 .. 31 :
       inputs' = <<[i \in 1 .. length + 1 |->
                      IF i \in {a + 1, b + 1, length + 1} THEN 0 ELSE c]>>
  /\ UNCHANGED <<level, at, n_outputs, image, local>>

Bug_WideLine == [x |-> IF inputs[1][local.i + 1] = 0 \/ local.x = 10 THEN 0 ELSE local.x + 1,
                 y |-> IF inputs[1][local.i + 1] = 0 \/ local.x = 10 THEN local.y + 1
                       ELSE local.y,
                 i |-> local.i + 1]

(* Where the character after the i-th goes.                                *)
next_place == LET newline == inputs[1][local.i + 1] = 0 \/ local.x = 9 IN
  [x |-> IF newline THEN 0 ELSE local.x + 1,
   y |-> IF newline THEN local.y + 1 ELSE local.y,
   i |-> local.i + 1]

RenderCharacter ==
  /\ At("CHARACTER TERMINAL") /\ inputs[1] # <<>> /\ local.i < length
  /\ local' = next_place
  /\ LET c   == inputs[1][local'.i + 1]
         lit == IF c = 0 THEN {}
                ELSE {(local'.y * 3 + d[2]) * width + local'.x * 3 + d[1] + 1 :
                        d \in char_decode[c]}
     IN  image' = [p \in Pixels |-> IF p \in lit THEN C_white ELSE image[p]]
  /\ UNCHANGED <<level, at, inputs, n_outputs>>

EraseFirst ==
  /\ At("CHARACTER TERMINAL") /\ local.i = length
  /\ inputs' = <<Tail(inputs[1])>>
  /\ at' = "done"
  /\ UNCHANGED <<level, n_outputs, image, local>>

-----------------------------------------------------------------------------
(* The loop has ended, and nothing is left to do but clamp.                *)
Full ==
  CASE level = "SEQUENCE MERGER"           -> Len(n_outputs[1]) >= length
    [] level = "SEQUENCE RANGE LIMITER"    -> Len(inputs[1]) = groups
    [] level = "SUBSEQUENCE EXTRACTOR"     -> local = <<>>
    [] level = "SEQUENCE GAP INTERPOLATOR" -> Len(n_outputs[1]) = Len(gap_lengths)
    [] level = "T31 NODE EMULATOR"         -> Len(inputs[1]) > length - 3
    [] level \in {"SEQUENCE MODE CALCULATOR", "SEQUENCE NORMALIZER", "CHARACTER TERMINAL",
                  "PROLONGED SEQUENCE SORTER", "DYNAMIC PATTERN DETECTOR",
                  "SPATIAL PATH VIEWER"}   -> FALSE
    [] level = "PRIME FACTOR CALCULATOR"   -> Len(inputs[1]) = factored
    [] inputs = <<>>                       -> TRUE
    [] OTHER                               -> Len(inputs[1]) = length

Finish ==
  /\ at = "drawing" /\ level \in DOMAIN nexus_levels
  /\ Full
  /\ LET Clamp(t) == IF level = "T20 NODE EMULATOR" THEN clamp_test_values(t) ELSE t IN
       inputs' = Clamp(inputs) /\ n_outputs' = Clamp(n_outputs)
  /\ at' = "done"
  /\ UNCHANGED <<level, image, local>>

NextNexus ==
  \/ DrawSignals \/ DrawReference \/ DrawWaves
  \/ MergeSequences \/ DrawGroup \/ DrawSubsequence \/ DrawGap
  \/ DrawModeItem \/ EndModes \/ DrawNormalItem \/ TrimNormalized
  \/ DrawDigit \/ SortDigits \/ DrawComposite \/ PlacePoint \/ DrawLines
  \/ DrawInstruction \/ DrawAccess
  \/ DrawPattern \/ PutPart \/ FindPatterns
  \/ DrawText \/ RenderCharacter \/ EraseFirst
  \/ Finish
=============================================================================
