--------------------------- MODULE MCCustomLevels ---------------------------
(* Fields of one or two rows and up to three columns; streams of every     *)
(* kind in and out of order, twice for a column, of the wrong kind or out  *)
(* of range, and numbers that fit no word, no 16 bits or no colour.        *)
EXTENDS CustomLevels

S(type, id, values) == [type |-> type, id |-> id, values |-> values]

Layouts ==
  {[extended |-> TRUE, layout |-> l] :
     l \in { <<>>, << <<>> >>, << <<"T21", "T30">>, <<"T21">> >>, << <<"T21", "in">> >>,
             << <<"T21", "T30", "Damaged">> >>,
             << <<"T21", "T21", "T30">>, <<"T21", "Damaged", "T21">> >> }}
  \cup {[extended |-> FALSE, layout |-> l] :
          l \in {<<"T21">>, <<"T21", "T30">>, <<"T21", "image">>}}

(* word_max is 2, int16_max 5, C_red 1, uint8_max 3.                       *)
Streams(type) == {S(type, 0, <<1>>), S(type, 1, <<2, 3>>), S(type, 2, <<-3, 6>>)}

Called ==
  {<<a, b>> : a \in Streams("in"), b \in Streams("out")}
    \cup {<<S("out", 1, <<2>>), S("image", i, v), S("in", 2, <<-6>>)>> :
            i \in 0 .. 2, v \in {<<1, 0>>, <<2, 4>>}}
    \cup {<<S("out", 2, <<0>>), S("in", 3, <<>>)>>, <<S("T21", 0, <<>>)>>,
          <<S("in", 1, <<1>>), S("in", 1, <<2>>), S("in", 0, <<0>>)>>, <<>>}

CalledForLayout ==
  {<<>>, <<S("in", 0, <<>>), S("out", 1, <<>>)>>,
   <<S("T21", 0, <<>>)>>, <<S("T21", 0, <<>>), S("out", 0, <<1>>)>>,
   <<S("out", 2, <<>>), S("in", 1, <<>>), S("image", 0, <<0, 0>>), S("in", 2, <<>>)>>,
   <<S("image", 1, <<0, 0>>), S("in", 0, <<>>), S("out", 0, <<>>)>>}

McScripts ==
  {[extended |-> l.extended, layout |-> l.layout,
    streams |-> [c \in {"layout", "one", "two"} |->
                   CASE c = "layout" -> a [] c = "one" -> b
                     [] OTHER -> <<S("in", 1, <<1, 1>>)>>]] :
     l \in Layouts, a \in CalledForLayout, b \in Called}
=============================================================================
