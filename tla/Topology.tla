------------------------------ MODULE Topology ------------------------------
(***************************************************************************)
(* The grid of a level and what field::finalize_nodes makes of it once the *)
(* programs are loaded (field.cpp): which neighbour every node may read    *)
(* from, which node feeds every output, and which nodes are simulated.     *)
(*                                                                         *)
(* A node is named by its coordinates <<x, y>>: the regular nodes in row 0 *)
(* to Height - 1, the inputs in row -1, the outputs in row Height.  A save *)
(* is a record [type, code]: the node types of the layout and, for every   *)
(* regular node, the program loaded into it (<<>> when there is none).     *)
(***************************************************************************)
EXTENDS Ports, FiniteSets

CONSTANTS
  Width, Height,  (* field_width and field_height: 4 and 3 in the game     *)
  InputCols,      (* the columns that have an input node above them        *)
  NumericCols,    (* the columns that have a numeric output below them     *)
  ImageCols       (* the columns that have an image output below them      *)

ASSUME LayoutAssumption ==
  /\ Width \in Nat \ {0}
  /\ Height \in Nat \ {0}
  /\ InputCols \subseteq 0 .. Width - 1
  /\ NumericCols \subseteq 0 .. Width - 1
  /\ ImageCols \subseteq (0 .. Width - 1) \ NumericCols

Regular  == {<<x, y>> : x \in 0 .. Width - 1, y \in 0 .. Height - 1}
Inputs   == {<<x, -1>> : x \in InputCols}
Numerics == {<<x, Height>> : x \in NumericCols}
Images   == {<<x, Height>> : x \in ImageCols}

(* The slots of the neighbors arrays of the regular nodes.                 *)
Slots == {<<n, d>> : n \in Regular, d \in Dir}

NodeType == {"T21", "T30", "Damaged"}

IsSave(f) ==
  /\ f.type \in [Regular -> NodeType]
  /\ f.code \in [Regular -> Seq(Instr)]
  /\ \A n \in Regular : Assembled(f.code[n])

-----------------------------------------------------------------------------
useful(f, n) ==
  /\ n \in Regular
  /\ \/ f.type[n] = "T21" /\ f.code[n] # <<>>
     \/ f.type[n] = "T30"

in_links(f, n) ==
  CASE f.type[n] = "T21" -> T21_in_links(f.code[n])
    [] f.type[n] = "T30" -> Dir
    [] OTHER -> {}

out_links(f, n) ==
  CASE f.type[n] = "T21" -> T21_out_links(f.code[n])
    [] f.type[n] = "T30" -> Dir
    [] OTHER -> {}

(* The pairs <<n, d>> with n.neighbors[d] set: n can read from d, and what *)
(* lies there is an input or a node that can write towards n.              *)
Links(f) ==
  {l \in Slots :
     LET n == l[1]
         d == l[2]
         m == Neighbour(n, d)
     IN /\ useful(f, n)
        /\ d \in in_links(f, n)
        /\ \/ useful(f, m) /\ invert[d] \in out_links(f, m)
           \/ d = "up" /\ m \in Inputs}

(* The outputs whose `linked` is set: the bottom node can write down.      *)
Linked(f) ==
  {o \in Numerics \cup Images :
     LET n == Neighbour(o, "up")
     IN useful(f, n) /\ "down" \in out_links(f, n)}

-----------------------------------------------------------------------------
(* The useful regular nodes next to n, linked with it either way.          *)
Adjacent(f, links, n) ==
  {m \in {Neighbour(n, d) : d \in {e \in Dir :
            <<n, e>> \in links \/ <<Neighbour(n, e), invert[e]>> \in links}} :
     useful(f, m)}

(* A stack that can read from nobody is not searched through.              *)
Expands(f, links, n) ==
  f.type[n] = "T30" => \E d \in Dir : <<n, d>> \in links

(* The nodes the search from p visits when it is not cut short.            *)
Searched(f, links, p) ==
  LET Visited[k \in Nat] ==
        IF k = 0 THEN {p}
        ELSE Visited[k - 1] \cup
             UNION {Adjacent(f, links, n) :
                      n \in {v \in Visited[k - 1] : Expands(f, links, v)}}
  IN Visited[Width * Height]

(* Only newly found neighbours are tested for HCF, never p itself.         *)
search_for_output(f, p) ==
  LET links == Links(f)
  IN \E n \in Searched(f, links, p) :
       /\ Expands(f, links, n)
       /\ \/ \E m \in Adjacent(f, links, n) \ {p} :
                 f.type[m] = "T21" /\ has_instr(f.code[m], "hcf")
          \/ Neighbour(n, "down") \in Linked(f)

regulars_to_sim(f) ==
  {n \in Regular : useful(f, n) /\ search_for_output(f, n)}

(* The handler calls of one field::do_step.                                *)
Calls(f) ==
  LET sim == regulars_to_sim(f)
  IN {<<loop, n>> : loop \in {"step", "finalize"}, n \in sim}
     \cup {<<"input", i>> : i \in {j \in Inputs :
              /\ <<Neighbour(j, "down"), "up">> \in Links(f)
              /\ Neighbour(j, "down") \in sim}}
     \cup {<<"numeric", o>> : o \in Numerics \cap Linked(f)}
     \cup {<<"image", o>> : o \in Images \cap Linked(f)}

(* do_step runs its five loops one after the other; the regular nodes go   *)
(* in row-major order, the inputs and the outputs by column.               *)
LoopOrder ==
  [step |-> 0, input |-> 1, numeric |-> 2, image |-> 3, finalize |-> 4]

CallOrder(c) ==
  LoopOrder[c[1]] * Width * (Height + 2) + (c[2][2] + 1) * Width + c[2][1]
=============================================================================
