------------------------------ MODULE Ordered ------------------------------
(***************************************************************************)
(* The elements of a finite set of numbers in increasing order: what a     *)
(* loop over a container meets that skips some of its positions.           *)
(***************************************************************************)
EXTENDS Integers, FiniteSets

UpTo(S, i) == {j \in S : j <= i}

InOrder(S) ==
  [k \in 1 .. Cardinality(S) |-> CHOOSE i \in S : Cardinality(UpTo(S, i)) = k]
=============================================================================
