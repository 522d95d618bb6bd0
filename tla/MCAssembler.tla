---------------------------- MODULE MCAssembler -----------------------------
(* Saves of up to three lines for one node, over a vocabulary with every   *)
(* kind of line, and of up to three sections.                              *)
EXTENDS Assembler

mc_opcode_of ==
  ("NOP" :> "nop") @@ ("MOV" :> "mov") @@ ("ADD" :> "add") @@ ("JRO" :> "jro")
    @@ ("JMP" :> "jmp") @@ ("JEZ" :> "jez")

mc_integer_of == ("1" :> 1) @@ ("-2" :> -2) @@ ("1000" :> 4)

mc_abbreviations ==
  [p \in ToSet(port_order) |->
     {port_name[p]} \cup (CASE p = "left" -> {"L"} [] p = "last" -> {"L", "LA"}
                          [] p \in {"acc", "any"} -> {"A"} [] OTHER -> {})]

Tok(r)        == [labels |-> <<>>, rest |-> r]
Lab(a)        == [labels |-> <<a>>, rest |-> ""]
LineOf(t)     == [tokens |-> t, long |-> FALSE, illegal |-> FALSE, text |-> FALSE]
Instruction(w) == LineOf([j \in DOMAIN w |-> Tok(w[j])])

Nothing == LineOf(<<>>)
Comment == [Nothing EXCEPT !.text = TRUE]
Nop     == Instruction(<<"NOP">>)
JmpA    == Instruction(<<"JMP", "A">>)
Label(a) == LineOf(<<Lab(a)>>)

(* Lines that may be in a program ...                                      *)
Lines ==
  {Nothing, Comment, Nop, JmpA, Label("A"), LineOf(<<Lab("A"), Tok("NOP")>>),
   LineOf(<<Lab("A"), Lab("B")>>),
   LineOf(<<[labels |-> <<"B">>, rest |-> "JEZ"], Tok("A")>>),
   Instruction(<<"MOV", "L", "ACC">>), Instruction(<<"ADD", "-2">>)}

(* ... and in none, or not without --permissive.                           *)
OddLines ==
  {LineOf(<<[labels |-> <<"A", "B">>, rest |-> "NOP"]>>), Label(""),
   [Nop EXCEPT !.long = TRUE], [Comment EXCEPT !.illegal = TRUE],
   Instruction(<<"NOP", "NOP">>), Instruction(<<"JMP">>), Instruction(<<"A">>),
   Instruction(<<"ADD", "1000">>), Instruction(<<"MOV", "1", "LAST">>),
   Instruction(<<"MOV", "1", "1">>), Instruction(<<"MOV", "LA", "A">>),
   Instruction(<<"JRO", "FOO">>), LineOf(<<Tok("NOP"), Lab("A")>>),
   LineOf(<<Lab("A"), Lab("A"), Tok("NOP")>>)}

Part(i, l) == [label |-> i, lines |-> l]

OneSection ==
  {<<Part(0, l)>> :
     l \in [1 .. 3 -> Lines]
       \cup {<<a, b>> : a \in Lines \cup OddLines, b \in Lines \cup OddLines}
       \cup {<<a, b, c, d>> : a \in {Label("A"), JmpA}, b \in {Comment, Nop},
                              c \in {Nothing, Label("A"), Nop}, d \in {JmpA, Comment}}}

Bodies == {<<>>, <<Nothing>>, <<Nop, JmpA>>, <<Label("A"), JmpA>>}

Sections ==
  {<<Part(i, a), Part(j, b), Part(0, <<Nop>>)>> :
     i \in {1, 2}, j \in {-1, 0, 1}, a \in Bodies, b \in Bodies}
    \cup {<<>>}

MCTexts ==
  {[sections |-> s, permissive |-> p] : s \in OneSection \cup Sections, p \in BOOLEAN}

mc_nodes_type == <<"T21", "T30", "T21">>
=============================================================================
