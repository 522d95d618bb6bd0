------------------------------ MODULE MCField -------------------------------
(***************************************************************************)
(* Instructions, saves and a 2x2 field for TLC.                            *)
(***************************************************************************)
EXTENDS Field

I(op)         == [op |-> op, src |-> "immediate", val |-> 0, dst |-> "left"]
Mov(s, d)     == [op |-> "mov", src |-> s, val |-> 0, dst |-> d]
MovVal(v, d)  == [op |-> "mov", src |-> "immediate", val |-> v, dst |-> d]
From(op, s)   == [op |-> op, src |-> s, val |-> 0, dst |-> "left"]
Val(op, v)    == [op |-> op, src |-> "immediate", val |-> v, dst |-> "left"]
Jump(op, l)   == [op |-> op, src |-> "immediate", val |-> l, dst |-> "left"]

(* One save for every choice of a program from the list C[n] for each n.   *)
SavesOf(type, C) ==
  {[type |-> type, code |-> [n \in Regular |-> C[n][k[n]]]] :
     k \in {k \in [Regular -> 1 .. 6] : \A n \in Regular : k[n] <= Len(C[n])}}

-----------------------------------------------------------------------------
(* A 2x2 field with a stack in the corner:                                 *)
(*        I0                                                               *)
(*        A S                                                              *)
(*        B C                                                              *)
(*        O0 O1                                                            *)
PipeType == [n \in Regular |-> IF n = <<1, 0>> THEN "T30" ELSE "T21"]

PipeCode ==
  [n \in Regular |->
     CASE n = <<0, 0>> -> << <<Mov("up", "right")>>, <<Mov("up", "any")>>,
                             <<Mov("any", "any")>>, <<Mov("any", "down")>>,
                             <<Mov("up", "right"), Mov("right", "down")>> >>
       [] n = <<0, 1>> -> << <<>>, <<Mov("up", "down")>>, <<Mov("any", "down")>>,
                             <<Mov("any", "any")>>, <<Mov("up", "right")>> >>
       [] n = <<1, 1>> -> << <<Mov("up", "down")>>, <<Mov("any", "any")>>,
                             <<Mov("any", "left"), Mov("up", "down")>>,
                             <<Mov("left", "up")>> >>
       [] OTHER -> << <<>> >>]

PipeSaves == SavesOf(PipeType, PipeCode)

PipeTests ==
  {[inputs |-> [i \in Inputs |-> <<1, 2, -1>>],
    n_outputs |-> [o \in Numerics |-> e[o[1] + 1]],
    i_outputs |-> <<>>] : e \in {<< <<1, 2, -1>>, <<>> >>, << <<2>>, <<1, -1>> >>}}
=============================================================================
