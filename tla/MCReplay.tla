------------------------------ MODULE MCReplay ------------------------------
(* Two nodes side by side, an input and a numeric output at the first, an  *)
(* image output under the second:                                          *)
(*        I0                                                               *)
(*        A  B                                                             *)
(*        O0 M1                                                            *)
EXTENDS MCField, Replay

(* Every opcode, every kind of operand.                                    *)
CpuInstr ==
  {I(op) : op \in {"hcf", "nop", "swp", "sav", "neg"}}
    \cup {Mov("up", "acc"), Mov("any", "last"), Mov("last", "acc"),
          Mov("up", "any"), Mov("nil", "nil"), MovVal(2, "last")}
    \cup {From("add", "up"), From("add", "acc"), Val("sub", 2),
          From("sub", "any")}
    \cup {From("jro", "acc"), From("jro", "last"), Val("jro", -1), Val("jro", 2)}
    \cup {Jump(op, 2) : op \in Jumps}

(* ... between a read and a write, or after what gives it a history.       *)
CpuPrograms ==
  {<<Mov("up", "acc"), i, Mov("acc", "down")>> : i \in CpuInstr}
    \cup {<<I("sav"), Mov("up", "acc"), I("swp"), Mov("acc", "down")>>,
          <<Mov("up", "any"), Mov("last", "down")>>,
          <<Mov("any", "acc"), From("jro", "acc"), Mov("acc", "down")>>}

CpuSaves ==
  {[type |-> [n \in Regular |-> "T21"],
    code |-> [n \in Regular |-> IF n = <<0, 0>> THEN c ELSE <<>>]] :
     c \in CpuPrograms}

(* Forwarding, drawing, wrong words, programs that burn.                   *)
ForwardSaves ==
  SavesOf([n \in Regular |-> "T21"],
    [n \in Regular |->
       IF n = <<0, 0>>
       THEN << <<Mov("up", "down")>>,
               <<Mov("up", "acc"), Mov("acc", "down"), Mov("acc", "right")>>,
               <<Mov("up", "right"), MovVal(1, "down")>>,
               <<Mov("up", "down"), Mov("up", "right"), I("hcf")>> >>
       ELSE << <<Mov("left", "down")>>, <<MovVal(1, "down")>>,
               <<Mov("left", "acc"), I("hcf")>> >>])

(* A stack beside programs that end a test with state everywhere:          *)
(* registers, LAST, a pending write, words on the stack, an HCF halfway.   *)
StackSaves ==
  SavesOf([n \in Regular |-> IF n = <<0, 0>> THEN "T21" ELSE "T30"],
    [n \in Regular |->
       IF n = <<0, 0>>
       THEN << <<Mov("up", "right"), Mov("right", "down"), Mov("up", "right")>>,
               <<Mov("last", "acc"), From("add", "any"), Mov("acc", "down")>>,
               <<Mov("up", "any"), Mov("last", "down")>>,
               <<Mov("up", "acc"), Jump("jlz", 4), Mov("acc", "right"), Jump("jmp", 0),
                 I("neg"), Mov("acc", "right"), I("hcf")>> >>
       ELSE << <<>> >>])

ReplaySaves == CpuSaves \cup ForwardSaves \cup StackSaves

Picture2(a, b) == [xy \in Pixels |-> IF xy[1] = 0 THEN a ELSE b]

TestOf(input, n_output, p) ==
  [inputs |-> [i \in Inputs |-> input], n_outputs |-> [o \in Numerics |-> n_output],
   i_outputs |-> [o \in Images |-> p]]

ReplayTests ==
  {TestOf(<<2, 1, -2>>, <<2, 1, -2>>, Picture2(0, 0)),
   TestOf(<<0, 0, 1, 1, -1, 0, 0, 0>>, <<1, 0, 1, 1, -1, 0, 0, 0>>, Picture2(0, 1)),
   TestOf(<<1, 0, 1, -1>>, <<>>, Picture2(0, 1))}
=============================================================================
