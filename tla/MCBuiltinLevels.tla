-------------------------- MODULE MCBuiltinLevels ---------------------------
(* Short streams, of the ends of the intervals drawn from: for each level  *)
(* as many items as it takes for its cases to come about.                  *)
EXTENDS BuiltinLevels

mc_length(l) ==
  CASE l \in {"DYNAMIC PATTERN DETECTOR", "CHARACTER TERMINAL"} -> 39
    [] l \in {"T31 NODE EMULATOR", "SUBSEQUENCE EXTRACTOR",
              "SEQUENCE GAP INTERPOLATOR"} -> 12
    [] l = "SEQUENCE GENERATOR" -> 9
    [] l \in {"SEQUENCE COUNTER", "SEQUENCE REVERSER", "SEQUENCE PEAK DETECTOR",
              "SEQUENCE NORMALIZER", "EXPOSURE MASK VIEWER", "HISTOGRAM VIEWER"} -> 8
    [] l \in {"SIGNAL WINDOW FILTER",
              "SEQUENCE MERGER", "SEQUENCE MODE CALCULATOR", "SIGNAL PATTERN DETECTOR",
              "PROLONGED SEQUENCE SORTER", "SPATIAL PATH VIEWER"} -> 7
    [] l \in {"SIGNAL EDGE DETECTOR", "INTERRUPT HANDLER", "UNKNOWN",
              "BACK-REFERENCE REIFIER", "SEQUENCE INDEXER"} -> 5
    [] l \in {"SEQUENCE SORTER", "T20 NODE EMULATOR"} -> 6
    [] l = "SEQUENCE RANGE LIMITER" -> 4
    [] l = "SIGNAL EXPONENTIATOR" -> 2
    [] l = "PRIME FACTOR CALCULATOR" -> 8
    [] l \in {"SUBMAXIMUM SELECTOR", "SIGNAL ERROR CORRECTOR"} -> 2
    [] OTHER -> 3

mc_width(l) ==
  CASE l = "CHARACTER TERMINAL" -> 30 [] l = "HISTOGRAM VIEWER" -> 5
    [] l = "SPATIAL PATH VIEWER" -> 10 [] OTHER -> 8

mc_height(l) ==
  CASE l = "CHARACTER TERMINAL" -> 18 [] l = "SPATIAL PATH VIEWER" -> 9
    [] l = "STORED IMAGE DECODER" -> 10 [] l = "EXPOSURE MASK VIEWER" -> 11 [] OTHER -> 14

mc_sample(lo, hi) ==
  IF hi - lo <= 3 \/ <<lo, hi>> = <<1, 10>> THEN lo .. hi
  ELSE {lo, hi} \cup ({0} \cap lo .. hi)
         \cup (IF lo \in {0, 1} /\ hi \in 43 .. 63 THEN {(lo + hi) \div 2} ELSE {})

mc_gaps == <<4, 5>>
mc_subsequences == <<2, 3>>

(* Every coordinate of the program's 30 by 18 pixels has more that fit it  *)
(* than the 9 others that 10 points have taken: an eleventh point always   *)
(* has its place, and makeCoords never leaves what does not fit.           *)
ASSUME PathNeverStuck ==
  \A max \in {29, 17} : \A c \in 0 .. max :
    Cardinality({d \in 0 .. max : Fits(c, d)}) > 9
=============================================================================
