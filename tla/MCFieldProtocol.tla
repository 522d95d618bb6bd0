-------------------------- MODULE MCFieldProtocol ---------------------------
(* The pipe programs of MCField, a race for one ANY word, and echoes to    *)
(* LAST, checked against the protocol.                                     *)
EXTENDS MCField, FieldProtocol

RaceCode ==
  [n \in Regular |->
     CASE n = <<0, 0>> -> << <<Mov("up", "any")>>, <<Mov("up", "any"), Mov("last", "down")>>,
                             <<Mov("any", "last")>>, <<MovVal(1, "any")>> >>
       [] n = <<1, 0>> -> << <<Mov("left", "left")>>, <<Mov("any", "last")>>,
                             <<Mov("left", "acc"), Mov("acc", "down")>> >>
       [] n = <<0, 1>> -> << <<Mov("up", "down")>>, <<Mov("any", "any")>> >>
       [] OTHER -> << <<>>, <<Mov("any", "left")>>, <<Mov("any", "down"), I("hcf")>> >>]

RaceSaves == SavesOf([n \in Regular |-> "T21"], RaceCode) \cup PipeSaves
=============================================================================
