----------------------------- MODULE MCPruning ------------------------------
(***************************************************************************)
(* Programs whose links depend on ANY and LAST, readers of silent          *)
(* neighbours, writers nobody reads, and stacks on and off the path, on    *)
(*        I0                                                               *)
(*        A B                                                              *)
(*        C S                                                              *)
(*        O0 O1                                                            *)
(***************************************************************************)
EXTENDS Pruning

I(op)         == [op |-> op, src |-> "immediate", val |-> 0, dst |-> "left"]
Mov(s, d)     == [op |-> "mov", src |-> s, val |-> 0, dst |-> d]
MovVal(v, d)  == [op |-> "mov", src |-> "immediate", val |-> v, dst |-> d]
From(op, s)   == [op |-> op, src |-> s, val |-> 0, dst |-> "left"]

SavesOf(type, C) ==
  {[type |-> type, code |-> [n \in Regular |-> C[n][k[n]]]] :
     k \in {k \in [Regular -> 1 .. 6] : \A n \in Regular : k[n] <= Len(C[n])}}

PruneType == [n \in Regular |-> IF n = <<1, 1>> THEN "T30" ELSE "T21"]

PruneCode ==
  [n \in Regular |->
     CASE n = <<0, 0>> -> << <<Mov("up", "right")>>, <<Mov("up", "any")>>,
                             <<Mov("any", "acc"), Mov("acc", "last")>>,
                             <<MovVal(1, "any"), Mov("last", "down")>> >>
       [] n = <<1, 0>> -> << <<>>, <<Mov("left", "down")>>, <<Mov("any", "last")>>,
                             <<MovVal(2, "left"), From("add", "down")>>,
                             <<MovVal(1, "any"), From("sub", "last")>> >>
       [] n = <<0, 1>> -> << <<>>, <<Mov("up", "down")>>, <<Mov("any", "down")>>,
                             <<Mov("right", "down")>>,
                             <<Mov("any", "any"), MovVal(1, "last")>> >>
       [] OTHER -> << <<>> >>]

PruneSaves == SavesOf(PruneType, PruneCode)

PruneTests ==
  {[inputs |-> [i \in Inputs |-> <<1, 2>>],
    n_outputs |-> [o \in Numerics |-> e[o[1] + 1]], i_outputs |-> <<>>] :
     e \in {<< <<1, 2>>, <<>> >>, << <<>>, <<1, 2>> >>, << <<1>>, <<1>> >>,
            << <<2>>, <<2>> >>}}

-----------------------------------------------------------------------------
(* A node that only catches fire, next to one that solves the test.        *)
HcfSaves ==
  SavesOf([n \in Regular |-> "T21"],
          [n \in Regular |->
             CASE n = <<0, 0>> -> << <<Mov("up", "down")>>,
                                     <<Mov("up", "acc"), Mov("acc", "down")>> >>
               [] n = <<0, 1>> -> << <<Mov("up", "down")>> >>
               [] n = <<1, 0>> -> << <<>>, <<I("hcf")>>, <<I("nop"), I("hcf")>>,
                                     <<Mov("left", "acc"), I("hcf")>> >>
               [] OTHER -> << <<>>, <<I("nop")>>, <<Mov("up", "nil"), I("hcf")>> >>])

HcfTests ==
  {[inputs |-> [i \in Inputs |-> <<1, 2>>],
    n_outputs |-> [o \in Numerics |-> e], i_outputs |-> <<>>] :
     e \in {<<1>>, <<1, 2>>}}
=============================================================================
