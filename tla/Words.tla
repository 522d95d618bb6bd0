------------------------------- MODULE Words -------------------------------
(***************************************************************************)
(* The machine words of the TIS-100 (utils.hpp).  A word is stored in a    *)
(* 16-bit integer but only ever holds word_min .. word_max; the smallest   *)
(* 16-bit value, word_empty, is the "no value" of optional_word.           *)
(***************************************************************************)
EXTENDS Integers

CONSTANTS
  word_max,    (* 999 in the program                                       *)
  int16_max    (* the largest value of a word_t, 32767                     *)

word_min   == -word_max
word_empty == -int16_max - 1

(* The two static_asserts under the definition of word_empty.              *)
ASSUME WordAssumption ==
  /\ word_max \in Nat \ {0}
  /\ int16_max \in Nat
  /\ word_empty < word_min + word_min

Word == word_min .. word_max
optional_word == Word \cup {word_empty}

(* Throughout the modules, a definition named Bug_ is a mistake one could  *)
(* make in the definition that follows it; each breaks a property.         *)

clamp(v, l, h) == IF v < l THEN l ELSE IF v > h THEN h ELSE v

Bug_Unclamped(a, b) == a + b

sat_add(a, b) == clamp(a + b, word_min, word_max)

sat_sub(a, b) == clamp(a - b, word_min, word_max)

(* ++ on a word_t: two's-complement wrap at 16 bits.                       *)
increment16(v) == IF v = int16_max THEN word_empty ELSE v + 1
=============================================================================
