------------------------------- MODULE Ports -------------------------------
(***************************************************************************)
(* Ports and instructions (game.hpp, instr.hpp) and the link masks that    *)
(* finalize_nodes derives from a program (field.cpp).  A program is a      *)
(* sequence of instructions; an instruction reads one operand from src     *)
(* (an immediate is kept in val, as is the target of a jump).              *)
(***************************************************************************)
EXTENDS Words, Sequences

Dir == {"left", "right", "up", "down"}

invert == [left |-> "right", right |-> "left", up |-> "down", down |-> "up"]

delta_lookup ==
  [left |-> <<-1, 0>>, right |-> <<1, 0>>, up |-> <<0, -1>>, down |-> <<0, 1>>]

Neighbour(n, d) ==
  <<n[1] + delta_lookup[d][1], n[2] + delta_lookup[d][2]>>

-----------------------------------------------------------------------------
Jumps   == {"jmp", "jez", "jnz", "jgz", "jlz"}
Readers == {"mov", "add", "sub", "jro"}
Op      == {"hcf", "nop", "swp", "sav", "neg"} \cup Readers \cup Jumps
Src     == Dir \cup {"nil", "acc", "any", "last", "immediate"}
Dst     == Dir \cup {"nil", "acc", "any", "last"}

Instr == [op : Op, src : Src, val : Int, dst : Dst]

(* What assemble() produces: immediates inside the word range, labels      *)
(* normalised to the program, and only the reading instructions with an    *)
(* operand other than the default immediate.                               *)
Assembled(c) ==
  /\ c \in Seq(Instr)
  /\ \A k \in DOMAIN c :
       /\ c[k].op \in Jumps => c[k].val \in 0 .. Len(c) - 1
       /\ c[k].op \notin Jumps => c[k].val \in Word
       /\ c[k].op \notin Readers => c[k].src = "immediate"

-----------------------------------------------------------------------------
port_mask(p) == IF p \in Dir THEN {p} ELSE IF p = "any" THEN Dir ELSE {}

Sources(c)      == {c[k].src : k \in {j \in DOMAIN c : c[j].op \in Readers}}
Destinations(c) == {c[k].dst : k \in {j \in DOMAIN c : c[j].op = "mov"}}

has_instr(c, op) == \E k \in DOMAIN c : c[k].op = op

Bug_LastIgnored(c) == UNION {port_mask(p) : p \in Sources(c)}

(* The directions a T21 running c can read from.  A read of LAST can go    *)
(* anywhere once an ANY write has set it.                                  *)
T21_in_links(c) ==
  UNION {port_mask(p) : p \in Sources(c)}
    \cup {d \in Dir : "last" \in Sources(c) /\ "any" \in Destinations(c)}

(* The directions a T21 running c can write to.                            *)
T21_out_links(c) ==
  UNION {port_mask(p) : p \in Destinations(c)}
    \cup {d \in Dir : "last" \in Destinations(c) /\ "any" \in Sources(c)}
=============================================================================
