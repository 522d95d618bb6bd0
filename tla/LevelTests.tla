----------------------------- MODULE LevelTests -----------------------------
(***************************************************************************)
(* What the generators of the built-in levels' tests share (the head of    *)
(* levels_builtin.cpp, tests.hpp, tis_random.hpp): the test being made,    *)
(* the draws, and the number of streams each level's layout has room for.  *)
(*                                                                         *)
(* Streams and image rows are sequences, numbered from 1.  The program     *)
(* gives its streams their length at once; here an item is there once it   *)
(* has been drawn.                                                         *)
(***************************************************************************)
EXTENDS Words, SequencesExt

CONSTANTS
  max_test_length(_),  (* 39 in the program, whatever the level            *)
  image_width(_),      (* 30, likewise                                     *)
  image_height(_),     (* 18                                               *)
  Sample(_, _)         (* the draws considered of an interval              *)

VARIABLES
  level,
  at,         (* "drawing", "patched", then "done" or "skipped"            *)
  inputs, n_outputs,
  image,      (* the pixels of the image output, row after row             *)
  local       (* what the generator keeps from one draw to the next        *)

test == <<inputs, n_outputs, image>>
vars == <<level, at, test, local>>

C_black == 0
C_white == 3
C_red   == 4
tis_pixel == C_black .. C_red

length == max_test_length(level)
width  == image_width(level)
height == image_height(level)

BoolWord(b) == IF b THEN 1 ELSE 0

-----------------------------------------------------------------------------
(* xorshift128_engine::next_word leaves max out; with max < min it counts  *)
(* down from min, as the remainder takes no sign from its divisor.         *)
next_word(min, max) ==
  IF max = min THEN {min}
  ELSE IF max < min THEN Sample(max + 1, min)
  ELSE Sample(min, max - 1)

(* lua_random::next_word has both ends; next_int asserts there is a value. *)
lua_word(min, max) == Sample(min, max)

clamp_vec(vec) == [k \in DOMAIN vec |-> clamp(vec[k], word_min, word_max)]

clamp_test_values(streams) == [k \in DOMAIN streams |-> clamp_vec(streams[k])]

(* The subsequences of in that a zero ends, without the zero.              *)
for_each_subsequence_of(in) ==
  LET zeros == SelectSeq([i \in DOMAIN in |-> i], LAMBDA i : in[i] = 0)
  IN  [k \in DOMAIN zeros |->
         SubSeq(in, IF k = 1 THEN 1 ELSE zeros[k - 1] + 1, zeros[k] - 1)]

Ascending(s) == SortSeq(s, LAMBDA a, b : a < b)

-----------------------------------------------------------------------------
(* The layouts, as far as tests go: how many input, numeric output and     *)
(* image output nodes the level has.                                       *)
campaign_levels ==
  [l \in {"SIGNAL AMPLIFIER", "SIGNAL EDGE DETECTOR", "SIGNAL PATTERN DETECTOR",
          "SEQUENCE REVERSER", "SEQUENCE SORTER", "SIMPLE SANDBOX",
          "STACK MEMORY SANDBOX"} |-> <<1, 1, 0>>] @@
  [l \in {"SELF-TEST DIAGNOSTIC", "DIFFERENTIAL CONVERTER",
          "SIGNAL DIVIDER"} |-> <<2, 2, 0>>] @@
  [l \in {"SEQUENCE GENERATOR", "SIGNAL MULTIPLIER",
          "SEQUENCE INDEXER"} |-> <<2, 1, 0>>] @@
  [l \in {"SEQUENCE COUNTER", "SEQUENCE PEAK DETECTOR", "SIGNAL WINDOW FILTER",
          "UNKNOWN"} |-> <<1, 2, 0>>] @@
  [l \in {"IMAGE TEST PATTERN 1", "IMAGE TEST PATTERN 2"} |-> <<0, 0, 1>>] @@
  [l \in {"EXPOSURE MASK VIEWER", "HISTOGRAM VIEWER",
          "STORED IMAGE DECODER", "IMAGE CONSOLE SANDBOX"} |-> <<1, 0, 1>>] @@
  ("SIGNAL COMPARATOR" :> <<1, 3, 0>>) @@ ("SIGNAL MULTIPLEXER" :> <<3, 1, 0>>) @@
  ("INTERRUPT HANDLER" :> <<4, 1, 0>>)

nexus_levels ==
  [l \in {"INTEGER SERIES CALCULATOR", "SEQUENCE MODE CALCULATOR",
          "SEQUENCE NORMALIZER", "DECIMAL TO OCTAL CONVERTER",
          "PROLONGED SEQUENCE SORTER", "SEQUENCE GAP INTERPOLATOR",
          "T31 NODE EMULATOR", "PRIME FACTOR CALCULATOR"} |-> <<1, 1, 0>>] @@
  [l \in {"CHARACTER TERMINAL", "SPATIAL PATH VIEWER"} |-> <<1, 0, 1>>] @@
  [l \in {"IMAGE TEST PATTERN 3", "IMAGE TEST PATTERN 4"} |-> <<0, 0, 1>>] @@
  [l \in {"SEQUENCE MERGER", "SIGNAL AVERAGER", "SUBSEQUENCE EXTRACTOR",
          "BACK-REFERENCE REIFIER", "DYNAMIC PATTERN DETECTOR",
          "SIGNAL EXPONENTIATOR", "T20 NODE EMULATOR"} |-> <<2, 1, 0>>] @@
  [l \in {"SIGNAL PRESCALER", "DECIMAL DECOMPOSER"} |-> <<1, 3, 0>>] @@
  [l \in {"SUBMAXIMUM SELECTOR", "WAVE COLLAPSE SUPERVISOR"} |-> <<4, 1, 0>>] @@
  ("SEQUENCE RANGE LIMITER" :> <<3, 1, 0>>) @@
  ("SIGNAL ERROR CORRECTOR" :> <<2, 2, 0>>)

layout == campaign_levels @@ nexus_levels

Pixels == IF layout[level][3] = 0 THEN {} ELSE 1 .. width * height
Column(p) == (p - 1) % width
Row(p) == (p - 1) \div width

(* The generator of l begins.                                              *)
InitTest(l) ==
  /\ level = l
  /\ at = "drawing"
  /\ inputs = [k \in 1 .. layout[l][1] |-> <<>>]
  /\ n_outputs = [k \in 1 .. layout[l][2] |-> <<>>]
=============================================================================
