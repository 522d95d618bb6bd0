--------------------------- MODULE CampaignLevels ---------------------------
(***************************************************************************)
(* The tests of the levels of the game's campaign (levels_builtin.cpp).    *)
(* Each draw of a generator is a step; Answer then computes the outputs    *)
(* from the inputs, once the inputs are complete.                          *)
(***************************************************************************)
EXTENDS LevelTests

CONSTANTS
  rectangles,     (* 9: the rectangles of EXPOSURE MASK VIEWER             *)
  max_iterations, (* 250: the positions it tries in vain for one of them   *)
  indexed         (* 10: the items SEQUENCE INDEXER gives indices of       *)

InitCampaign(l) ==
  /\ InitTest(l)
  /\ local = IF l = "INTERRUPT HANDLER" THEN [n \in 1 .. 4 |-> FALSE] ELSE 0
  /\ image = [p \in Pixels |->
       CASE l = "IMAGE TEST PATTERN 1" -> C_white
         [] l = "IMAGE TEST PATTERN 2" ->
              IF (Column(p) + Row(p)) % 2 = 1 THEN C_black ELSE C_white
         [] OTHER -> C_black]

Drawing(l) == at = "drawing" /\ level = l

-----------------------------------------------------------------------------
(* make_random_array: what the items of each input are drawn from.         *)
ranges ==
  [l \in {"SELF-TEST DIAGNOSTIC", "DIFFERENTIAL CONVERTER",
          "SEQUENCE GENERATOR"} |-> << <<10, 100>>, <<10, 100>> >>] @@
  [l \in {"SIGNAL AMPLIFIER", "SIGNAL WINDOW FILTER"} |-> << <<10, 100>> >>] @@
  ("SIGNAL COMPARATOR" :> << <<-2, 3>> >>) @@
  ("SIGNAL MULTIPLEXER" :> << <<-30, 1>>, <<-1, 2>>, <<0, 31>> >>) @@
  ("SIGNAL PATTERN DETECTOR" :> << <<0, 6>> >>) @@
  ("SIGNAL MULTIPLIER" :> << <<0, 10>>, <<0, 10>> >>) @@
  ("SIGNAL DIVIDER" :> << <<10, 100>>, <<1, 10>> >>)

(* SEQUENCE GENERATOR draws 13 pairs, and makes three outputs of each.     *)
array_size == IF level = "SEQUENCE GENERATOR" THEN length \div 3 ELSE length

Drawn(r) ==
  {v \in [DOMAIN r -> UNION {next_word(r[k][1], r[k][2]) : k \in DOMAIN r}] :
     \A k \in DOMAIN r : v[k] \in next_word(r[k][1], r[k][2])}

DrawItem ==
  /\ at = "drawing" /\ level \in DOMAIN ranges
  /\ Len(inputs[1]) < array_size
  /\ \E v \in Drawn(ranges[level]) :
       inputs' = [k \in DOMAIN inputs |-> Append(inputs[k], v[k])]
  /\ UNCHANGED <<level, at, n_outputs, image, local>>

(* The two inputs of SEQUENCE GENERATOR are made to agree somewhere.       *)
MakePairEqual ==
  /\ Drawing("SEQUENCE GENERATOR") /\ Len(inputs[1]) = array_size
  /\ \E idx \in DOMAIN inputs[1], v \in next_word(10, 100) :
       inputs' = [k \in 1 .. 2 |-> [inputs[k] EXCEPT ![idx] = v]]
  /\ at' = "patched"
  /\ UNCHANGED <<level, n_outputs, image, local>>

(* Three zeros, and two zeros between others, put somewhere in the items   *)
(* of SIGNAL PATTERN DETECTOR.  The program does so eight times; what the  *)
(* first seven leave is one of the arrays that could have been drawn.      *)
PutPatterns ==
  /\ Drawing("SIGNAL PATTERN DETECTOR") /\ Len(inputs[1]) = length
  /\ \E i \in next_word(1, length - 2), j \in next_word(1, length - 3),
        a \in next_word(1, 6), b \in next_word(1, 6) :
       LET three == [k \in DOMAIN inputs[1] |->
                       IF k \in i .. i + 2 THEN 0 ELSE inputs[1][k]]
       IN  inputs' = <<[three EXCEPT ![j] = a, ![j + 1] = 0,
                                     ![j + 2] = 0, ![j + 3] = b]>>
  /\ at' = "patched"
  /\ UNCHANGED <<level, n_outputs, image, local>>

(* SEQUENCE INDEXER: a list with an end mark, and indices into it.  Both   *)
(* come from engines with the same seed, so that the first indices are the *)
(* remainders of the draws that made the list (900 is a multiple of 10).   *)
DrawList ==
  /\ Drawing("SEQUENCE INDEXER") /\ inputs[1] = <<>>
  /\ \E list \in [1 .. indexed -> next_word(100, 1000)] :
       inputs' = [inputs EXCEPT ![1] = Append(list, 0)]
  /\ UNCHANGED <<level, at, n_outputs, image, local>>

DrawIndex ==
  /\ Drawing("SEQUENCE INDEXER") /\ inputs[1] # <<>>
  /\ Len(inputs[2]) < length
  /\ LET i == Len(inputs[2]) + 1 IN
     \E v \in next_word(0, indexed) :
       /\ i <= indexed => v = (inputs[1][i] - 100) % indexed
       /\ inputs' = [inputs EXCEPT ![2] = Append(@, v)]
  /\ UNCHANGED <<level, at, n_outputs, image, local>>

-----------------------------------------------------------------------------
(* make_composite_array: how many items its sublists have, [min, max).     *)
sublists ==
  [l \in {"SEQUENCE COUNTER", "SEQUENCE REVERSER"} |-> <<0, 6>>] @@
  ("SEQUENCE PEAK DETECTOR" :> <<3, 6>>) @@ ("SEQUENCE SORTER" :> <<4, 8>>)

DrawSublist ==
  /\ at = "drawing" /\ level \in DOMAIN sublists
  /\ Len(inputs[1]) < length
  /\ \E size \in next_word(sublists[level][1], sublists[level][2]) :
       \E s \in [1 .. size -> next_word(10, 100)] :
         inputs' = <<inputs[1] \o s \o <<0>> >>
  /\ UNCHANGED <<level, at, n_outputs, image, local>>

Cut(list) ==
  IF Len(list) > length THEN [SubSeq(list, 1, length) EXCEPT ![length] = 0]
  ELSE list

CutSublists ==
  /\ at = "drawing" /\ level \in DOMAIN sublists \ {"SEQUENCE PEAK DETECTOR"}
  /\ Len(inputs[1]) >= length
  /\ inputs' = <<Cut(inputs[1])>>
  /\ at' = "patched"
  /\ UNCHANGED <<level, n_outputs, image, local>>

(* SEQUENCE PEAK DETECTOR then sets the last item but one, 37, and the end.*)
EndOnItem ==
  /\ Drawing("SEQUENCE PEAK DETECTOR") /\ Len(inputs[1]) >= length
  /\ \E v \in next_word(10, 100) :
       inputs' = <<[Cut(inputs[1]) EXCEPT ![length - 1] = v, ![length] = 0]>>
  /\ at' = "patched"
  /\ UNCHANGED <<level, n_outputs, image, local>>

-----------------------------------------------------------------------------
(* Levels whose items follow from the ones before.                         *)

DrawSignal ==
  /\ Drawing("SIGNAL EDGE DETECTOR") /\ Len(inputs[1]) < length
  /\ \E v \in CASE inputs[1] = <<>>   -> {0}
                [] Len(inputs[1]) = 1 -> next_word(25, 75)
                [] OTHER -> {Last(inputs[1]) + d : d \in next_word(-11, -8)
                               \cup next_word(9, 12) \cup next_word(-4, 5)} :
       inputs' = <<Append(inputs[1], v)>>
  /\ UNCHANGED <<level, at, n_outputs, image, local>>

DrawHeight ==
  /\ Drawing("HISTOGRAM VIEWER") /\ Len(inputs[1]) < width
  /\ \E v \in next_word(3, 14)
                \cup (IF inputs[1] = <<>> THEN {}
                      ELSE {clamp(Last(inputs[1]) + d, 1, height - 1) :
                              d \in next_word(-2, 3)}) :
       inputs' = <<Append(inputs[1], v)>>
  /\ UNCHANGED <<level, at, n_outputs, image, local>>

(* local: the lines that are up.                                           *)
DrawInterrupt ==
  /\ Drawing("INTERRUPT HANDLER") /\ Len(inputs[1]) < length
  /\ \E rand \in IF inputs[1] = <<>> THEN {5} ELSE 0 .. 5 :
       LET n == rand + 1 IN
       /\ local' = IF rand < 4 THEN [local EXCEPT ![n] = ~@] ELSE local
       /\ n_outputs' = <<Append(n_outputs[1],
                                IF rand < 4 /\ local'[n] THEN n ELSE 0)>>
       /\ inputs' = [k \in 1 .. 4 |-> Append(inputs[k], BoolWord(local'[k]))]
  /\ UNCHANGED <<level, at, image>>

-----------------------------------------------------------------------------
(* The image levels and UNKNOWN                                            *)

Blank(x, y, w, h) ==
  \A p \in Pixels :
    Column(p) \in x - 1 .. x + w /\ Row(p) \in y - 1 .. y + h => image[p] = C_black

Bug_NoLimit ==
  /\ Drawing("EXPOSURE MASK VIEWER") /\ Len(inputs[1]) < 4 * rectangles
  /\ \E w, h \in next_word(3, 6) :
       \E x \in next_word(1, width - 1 - w),
          y \in next_word(1, height - 1 - h) :
         IF Blank(x, y, w, h)
         THEN /\ inputs' = <<inputs[1] \o <<x, y, w, h>> >>
              /\ image' = [p \in Pixels |->
                   IF Column(p) \in x .. x + w - 1 /\ Row(p) \in y .. y + h - 1
                   THEN C_white ELSE image[p]]
         ELSE UNCHANGED <<inputs, image>>
  /\ UNCHANGED <<level, at, n_outputs, local>>

(* A rectangle of EXPOSURE MASK VIEWER is drawn until one touches none of  *)
(* those before; local counts the attempts, and too many make no test.     *)
PlaceRectangle ==
  /\ Drawing("EXPOSURE MASK VIEWER") /\ Len(inputs[1]) < 4 * rectangles
  /\ IF local > max_iterations
     THEN at' = "skipped" /\ UNCHANGED <<inputs, image, local>>
     ELSE \E w, h \in next_word(3, 6) :
            \E x \in next_word(1, width - 1 - w),
               y \in next_word(1, height - 1 - h) :
              IF Blank(x, y, w, h)
              THEN /\ inputs' = <<inputs[1] \o <<x, y, w, h>> >>
                   /\ image' = [p \in Pixels |->
                        IF Column(p) \in x .. x + w - 1 /\ Row(p) \in y .. y + h - 1
                        THEN C_white ELSE image[p]]
                   /\ local' = 0 /\ UNCHANGED at
              ELSE local' = local + 1 /\ UNCHANGED <<at, inputs, image>>
  /\ UNCHANGED <<level, n_outputs>>

(* local: how far the runs of STORED IMAGE DECODER go; the last is cut.    *)
DrawPixels ==
  /\ Drawing("STORED IMAGE DECODER") /\ local < width * height
  /\ \E count \in next_word(20, 45), pix \in next_word(0, 4) :
       /\ inputs' = <<inputs[1] \o <<count, pix>> >>
       /\ image' = [p \in Pixels |->
                      IF p \in local + 1 .. local + count THEN pix ELSE image[p]]
       /\ local' = local + count
  /\ UNCHANGED <<level, at, n_outputs>>

DrawRun ==
  /\ Drawing("UNKNOWN") /\ Len(n_outputs[1]) < length
  /\ \E item \in next_word(0, 4), size \in next_word(2, 5) :
       n_outputs' = [n_outputs EXCEPT ![1] = @ \o [k \in 1 .. size |-> item]]
  /\ UNCHANGED <<level, at, inputs, image, local>>

(* The runs are cut, and their noisy input drawn, but for the end mark.    *)
DrawNoise ==
  /\ Drawing("UNKNOWN") /\ Len(n_outputs[1]) >= length
  /\ n_outputs' =
       [n_outputs EXCEPT ![1] = [SubSeq(@, 1, length) EXCEPT ![length] = -1]]
  /\ \E d \in [1 .. length - 1 -> next_word(-6, 7)] :
       inputs' = <<[j \in 1 .. length |->
                      IF j = length THEN -1 ELSE n_outputs[1][j] * 25 + 12 + d[j]]>>
  /\ at' = "patched"
  /\ UNCHANGED <<level, image, local>>

-----------------------------------------------------------------------------
(* The outputs                                                             *)

WindowSums(in, n) ==
  FoldLeft(LAMBDA out, i :
             Append(out, (IF out = <<>> THEN 0 ELSE Last(out)) + in[i]
                           - (IF i > n THEN in[i - n] ELSE 0)),
           <<>>, [i \in DOMAIN in |-> i])

(* The sums and the lengths of the sublists; both start anew at a zero.    *)
Counted(in) ==
  FoldLeft(LAMBDA c, w :
             IF w = 0 THEN [sum |-> 0, count |-> 0, sums |-> Append(c.sums, c.sum),
                            counts |-> Append(c.counts, c.count)]
             ELSE [c EXCEPT !.sum = @ + w, !.count = @ + 1],
           [sum |-> 0, count |-> 0, sums |-> <<>>, counts |-> <<>>], in)

(* The length and the item of each run.                                    *)
RunLengths(out) ==
  FoldLeft(LAMBDA r, curr :
             IF r.prev = curr THEN [r EXCEPT !.count = @ + 1]
             ELSE [prev |-> curr, count |-> 1,
                   runs |-> IF r.prev >= 0 THEN r.runs \o <<r.count, r.prev>>
                            ELSE r.runs],
           [prev |-> -1, count |-> 0, runs |-> <<>>], out).runs

answer ==
  LET in  == inputs
      One(Op(_)) == <<[i \in DOMAIN in[1] |-> Op(i)]>>
      Two(Op(_), Oq(_)) == One(Op) \o One(Oq)
      subs == for_each_subsequence_of(in[1])
      Peak(Op(_)) == [k \in DOMAIN subs |-> Op(ToSet(subs[k]))]
      Each(Op(_)) == <<FlattenSeq([k \in DOMAIN subs |-> Append(Op(subs[k]), 0)])>>
  IN
  CASE level = "SELF-TEST DIAGNOSTIC"   -> in
    [] level = "SIGNAL AMPLIFIER"       -> One(LAMBDA i : 2 * in[1][i])
    [] level = "DIFFERENTIAL CONVERTER" -> Two(LAMBDA i : in[1][i] - in[2][i],
                                               LAMBDA i : in[2][i] - in[1][i])
    [] level = "SIGNAL COMPARATOR"      -> Two(LAMBDA i : BoolWord(in[1][i] > 0),
                                               LAMBDA i : BoolWord(in[1][i] = 0))
                                           \o One(LAMBDA i : BoolWord(in[1][i] < 0))
    [] level = "SIGNAL MULTIPLEXER"     ->
         One(LAMBDA i : (IF in[2][i] <= 0 THEN in[1][i] ELSE 0)
                          + (IF in[2][i] >= 0 THEN in[3][i] ELSE 0))
    [] level = "SEQUENCE GENERATOR"     ->
         <<FlattenSeq(One(LAMBDA i : Ascending(<<in[1][i], in[2][i]>>) \o <<0>>)[1])>>
    [] level = "SEQUENCE COUNTER"       -> <<Counted(in[1]).sums, Counted(in[1]).counts>>
    [] level = "SIGNAL EDGE DETECTOR"   ->
         One(LAMBDA i : BoolWord(
               LET prev == IF i = 1 THEN 0 ELSE in[1][i - 1]
               IN  in[1][i] - prev >= 10 \/ prev - in[1][i] >= 10))
    [] level = "SIGNAL PATTERN DETECTOR" ->
         One(LAMBDA i : BoolWord(i > 2 /\ \A k \in {i - 2, i - 1, i} : in[1][k] = 0))
    [] level = "SEQUENCE PEAK DETECTOR" -> <<Peak(Min), Peak(Max)>>
    [] level = "SEQUENCE REVERSER"      -> Each(Reverse)
    [] level = "SEQUENCE SORTER"        -> Each(Ascending)
    [] level = "SIGNAL MULTIPLIER"      -> One(LAMBDA i : in[1][i] * in[2][i])
    [] level = "SIGNAL WINDOW FILTER"   -> <<WindowSums(in[1], 3), WindowSums(in[1], 5)>>
    [] level = "SIGNAL DIVIDER"         -> Two(LAMBDA i : in[1][i] \div in[2][i],
                                               LAMBDA i : in[1][i] % in[2][i])
    [] level = "SEQUENCE INDEXER"       ->
         <<[i \in DOMAIN in[2] |-> in[1][in[2][i] + 1]]>>
    [] level = "UNKNOWN"                -> <<n_outputs[1], RunLengths(n_outputs[1])>>
    [] OTHER                            -> n_outputs

(* HISTOGRAM VIEWER: the columns of the image, from the bottom.            *)
Histogram ==
  [p \in Pixels |-> IF Row(p) >= height - inputs[1][Column(p) + 1]
                    THEN C_white ELSE C_black]

Patched == DOMAIN sublists
             \cup {"SEQUENCE GENERATOR", "SIGNAL PATTERN DETECTOR", "UNKNOWN"}

Clamped == {"SIGNAL MULTIPLEXER", "SEQUENCE COUNTER", "SIGNAL EDGE DETECTOR"}

(* Their tests ask for nothing.                                            *)
sandboxes == {"SIMPLE SANDBOX", "STACK MEMORY SANDBOX", "IMAGE CONSOLE SANDBOX"}

Complete ==
  CASE level \in Patched                -> at = "patched"
    [] level = "HISTOGRAM VIEWER"       -> Len(inputs[1]) = width
    [] level = "EXPOSURE MASK VIEWER"   -> Len(inputs[1]) = 4 * rectangles
    [] level = "STORED IMAGE DECODER"   -> local >= width * height
    [] level = "SEQUENCE INDEXER"       -> Len(inputs[2]) = length
    [] level \in sandboxes \/ inputs = <<>> -> TRUE
    [] OTHER                            -> Len(inputs[1]) = length

Answer ==
  /\ at \in {"drawing", "patched"} /\ level \in DOMAIN campaign_levels
  /\ Complete
  /\ LET Clamp(t) == IF level \in Clamped THEN clamp_test_values(t) ELSE t IN
       inputs' = Clamp(inputs) /\ n_outputs' = Clamp(answer)
  /\ image' = IF level = "HISTOGRAM VIEWER" THEN Histogram ELSE image
  /\ at' = "done"
  /\ UNCHANGED <<level, local>>

NextCampaign ==
  \/ DrawItem \/ MakePairEqual \/ PutPatterns \/ DrawList \/ DrawIndex
  \/ DrawSublist \/ CutSublists \/ EndOnItem
  \/ DrawSignal \/ DrawHeight \/ DrawInterrupt
  \/ PlaceRectangle \/ DrawPixels \/ DrawRun \/ DrawNoise
  \/ Answer
=============================================================================
