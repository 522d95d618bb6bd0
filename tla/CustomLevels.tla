---------------------------- MODULE CustomLevels ----------------------------
(***************************************************************************)
(* Levels that a Lua script describes (levels_custom.cpp, and the field's  *)
(* constructor in field.hpp).  The script is asked for the layout once and *)
(* for its streams again for every test, each stream naming its column and *)
(* its kind; a test is handed to the field without the columns, as one     *)
(* list for each kind of node.                                             *)
(*                                                                         *)
(* A script is external: [extended, layout, streams], where layout is what *)
(* get_layout (12 tiles) or get_layout_ext (rows of tiles) returns and     *)
(* streams what get_streams returns when first asked and for each seed.    *)
(***************************************************************************)
EXTENDS ImageOutput, Ordered, SequencesExt

CONSTANTS
  Scripts,
  field_width, field_height, (* 4 and 3                                    *)
  uint8_max                  (* 255                                        *)

Tiles   == {"T21", "T30", "Damaged"}
IoTypes == {"in", "out", "image"}

Stream == [type : IoTypes \cup Tiles, id : Nat, values : Seq(Int)]

IsStreams(streams) ==
  /\ streams \in Seq(Stream)
  /\ \A k \in DOMAIN streams :
       streams[k].type = "image" => Len(streams[k].values) = ImageWidth * ImageHeight

ASSUME CustomAssumption ==
  /\ {field_width, field_height} \subseteq Nat \ {0}
  /\ uint8_max \in Nat /\ uint8_max >= C_red
  /\ \A s \in Scripts : /\ s.extended \in BOOLEAN
                        /\ s.layout \in IF s.extended THEN Seq(Seq(STRING))
                                        ELSE Seq(STRING)
                        /\ "layout" \in DOMAIN s.streams
                        /\ \A c \in DOMAIN s.streams : IsStreams(s.streams[c])

VARIABLES
  script,
  at,     (* "loading", "placing", "ready", "filling", "made" or "failed"  *)
  spec,   (* the layout: tiles, and the node in each column's input and    *)
          (* output, or "null"                                             *)
  call,   (* what the streams were last asked for: "layout" or a seed      *)
  left,   (* the streams still to be looked at                             *)
  test    (* the test, by column and then by node                          *)

vars == <<script, at, spec, call, left, test>>

no_test == [inputs |-> <<>>, n_outputs |-> <<>>, i_outputs |-> <<>>]

(* An image that no stream has filled has no pixels.                       *)
no_image == <<>>

width == Len(spec.nodes[1])

Columns(x) == [c \in DOMAIN spec.inputs |-> x]

Init ==
  /\ script \in Scripts
  /\ at = "loading" /\ call = "layout" /\ left = <<>>
  /\ spec = [nodes |-> <<>>, inputs |-> <<>>, outputs |-> <<>>]
  /\ test = no_test

-----------------------------------------------------------------------------
(* layout_from_script                                                      *)

Rows ==
  IF script.extended THEN script.layout
  ELSE [y \in 1 .. field_height |->
          SubSeq(script.layout, (y - 1) * field_width + 1, y * field_width)]

LayoutRefused ==
  IF script.extended
  THEN \/ script.layout = <<>> \/ script.layout[1] = <<>>
       \/ \E y \in DOMAIN script.layout : Len(script.layout[y]) # Len(script.layout[1])
  ELSE Len(script.layout) # field_width * field_height

ReadLayout ==
  /\ at = "loading"
  /\ IF LayoutRefused THEN at' = "failed" /\ UNCHANGED <<spec, left>>
     ELSE LET nulls == [x \in DOMAIN Rows[1] |-> "null"] IN
          /\ spec' = [nodes |-> Rows, inputs |-> nulls, outputs |-> nulls]
          /\ left' = script.streams["layout"]
          /\ at' = "placing"
  /\ UNCHANGED <<script, call, test>>

Bug_OneTooMany(s) == s.id > width

OutOfRange(s) == s.id >= width

PlaceStream ==
  /\ at = "placing" /\ left # <<>>
  /\ LET s == Head(left) IN
     IF OutOfRange(s) THEN at' = "failed" /\ UNCHANGED <<spec, left>>
     ELSE /\ spec' = IF s.type = "in" THEN [spec EXCEPT !.inputs[s.id + 1] = "in"]
                     ELSE [spec EXCEPT !.outputs[s.id + 1] = s.type]
          /\ left' = Tail(left) /\ UNCHANGED at
  /\ UNCHANGED <<script, call, test>>

(* new_field: the constructor of field throws at a node out of its place.  *)
NewField ==
  /\ at = "placing" /\ left = <<>>
  /\ at' = IF /\ \A y \in DOMAIN spec.nodes : ToSet(spec.nodes[y]) \subseteq Tiles
              /\ ToSet(spec.outputs) \subseteq {"null", "out", "image"}
           THEN "ready" ELSE "failed"
  /\ UNCHANGED <<script, spec, call, left, test>>

-----------------------------------------------------------------------------
(* random_test                                                             *)

RandomTest ==
  /\ at \in {"ready", "made"}
  /\ call' \in DOMAIN script.streams \ {"layout"}
  /\ left' = script.streams[call']
  /\ test' = [inputs    |-> Columns(<<>>), n_outputs |-> Columns(<<>>),
              i_outputs |-> Columns(no_image)]
  /\ at' = "filling"
  /\ UNCHANGED <<script, spec>>

(* table_to_vector converts a Lua number to the type of an element, which  *)
(* C++ defines only for a number that fits.                                *)
to_word_t(v) ==
  IF v \in word_empty .. int16_max THEN {v} ELSE word_empty .. int16_max

to_pixel(v) == IF v \in 0 .. uint8_max THEN {normalize(v)} ELSE Colour

element(v, type) == IF type = "image" THEN to_pixel(v) ELSE to_word_t(v)

table_to_vector(values, type) ==
  {vec \in [DOMAIN values -> UNION {element(values[k], type) : k \in DOMAIN values}] :
     \A k \in DOMAIN values : vec[k] \in element(values[k], type)}

FillStream ==
  /\ at = "filling" /\ left # <<>>
  /\ LET s == Head(left) IN
     IF OutOfRange(s) \/ s.type \notin IoTypes
     THEN at' = "failed" /\ UNCHANGED <<test, left>>
     ELSE /\ \E v \in table_to_vector(s.values, s.type) :
               \/ s.type = "in"    /\ test' = [test EXCEPT !.inputs[s.id + 1] = v]
               \/ s.type = "out"   /\ test' = [test EXCEPT !.n_outputs[s.id + 1] = v]
               \/ s.type = "image" /\ test' = [test EXCEPT !.i_outputs[s.id + 1] = v]
          /\ left' = Tail(left) /\ UNCHANGED at
  /\ UNCHANGED <<script, spec, call>>

Bug_EmptyColumns(vec, types, type) ==
  LET erased[c \in 1 .. Len(vec) + 1] ==
        IF c = Len(vec) + 1 THEN vec
        ELSE IF types[c] = "null" THEN RemoveAt(erased[c + 1], c) ELSE erased[c + 1]
  IN erased[1]

(* From the last column to the first, those without such a node go.        *)
Erased(vec, types, type) ==
  LET erased[c \in 1 .. Len(vec) + 1] ==
        IF c = Len(vec) + 1 THEN vec
        ELSE IF types[c] # type THEN RemoveAt(erased[c + 1], c) ELSE erased[c + 1]
  IN erased[1]

Bug_NotClamped(streams) == streams

clamp_test_values(streams) ==
  [k \in DOMAIN streams |->
     [i \in DOMAIN streams[k] |-> clamp(streams[k][i], word_min, word_max)]]

HandOver ==
  /\ at = "filling" /\ left = <<>>
  /\ test' = [inputs    |-> clamp_test_values(Erased(test.inputs, spec.inputs, "in")),
              n_outputs |-> clamp_test_values(Erased(test.n_outputs, spec.outputs, "out")),
              i_outputs |-> Erased(test.i_outputs, spec.outputs, "image")]
  /\ at' = "made"
  /\ UNCHANGED <<script, spec, call, left>>

Next ==
  ReadLayout \/ PlaceStream \/ NewField \/ RandomTest \/ FillStream \/ HandOver

Spec == Init /\ [][Next]_vars

-----------------------------------------------------------------------------
(* A test handed over holds words a node can hold, and colours, whatever   *)
(* numbers the script came up with (table_to_vector, clamp_test_values).   *)
TypeOK ==
  /\ at \in {"loading", "placing", "ready", "filling", "made", "failed"}
  /\ at = "made" =>
       /\ \A s \in Range(test.inputs) \cup Range(test.n_outputs) : s \in Seq(Word)
       /\ \A i \in Range(test.i_outputs) : i \in Seq(Colour)

(* The columns in which the field has a node of the given kind, in order:  *)
(* its k-th such node is the k-th of them.                                 *)
NodesOf(types, type) == InOrder({c \in DOMAIN types : types[c] = type})

Fits(s) ==
  \A k \in DOMAIN s.values :
    s.values[k] \in IF s.type = "image" THEN 0 .. uint8_max ELSE word_empty .. int16_max

(* What the node in column c gets from the script: its last stream for it. *)
Meant(c, type) ==
  LET own == {k \in DOMAIN script.streams[call] :
                /\ script.streams[call][k].type = type
                /\ script.streams[call][k].id + 1 = c}
  IN IF own = {} THEN [type |-> type, values |-> <<>>]
     ELSE script.streams[call][CHOOSE k \in own : \A j \in own : j <= k]

Agrees(vec, s) ==
  Fits(s) =>
    vec = [k \in DOMAIN s.values |->
             IF s.type = "image" THEN normalize(s.values[k])
             ELSE clamp(s.values[k], word_min, word_max)]

(* set_expected gives the k-th list to the k-th node; that is the node the *)
(* script meant by its column, however columns without a node, numeric and *)
(* image outputs alternate, in whatever order the streams are listed, and  *)
(* even if the streams of this seed are not those of the layout            *)
(* (custom_level::random_test, layout_from_script, the field's constructor)*)
StreamsReachTheirNodes ==
  at = "made" =>
    LET Reach(vecs, types, type) ==
          /\ Len(vecs) = Len(NodesOf(types, type))
          /\ \A k \in DOMAIN vecs : Agrees(vecs[k], Meant(NodesOf(types, type)[k], type))
    IN /\ Reach(test.inputs, spec.inputs, "in")
       /\ Reach(test.n_outputs, spec.outputs, "out")
       /\ Reach(test.i_outputs, spec.outputs, "image")

(* What a script has to return for its level to be built: a rectangle of   *)
(* tiles, streams inside it, and outputs that are outputs; the last stream *)
(* that is no input decides on a column's output.                          *)
WellFormed ==
  LET streams == script.streams["layout"]
      w == IF script.extended THEN Len(script.layout[1]) ELSE field_width
  IN /\ IF script.extended
        THEN /\ script.layout # <<>>
             /\ w > 0
             /\ \A y \in DOMAIN script.layout : /\ Len(script.layout[y]) = w
                                                /\ script.layout[y] \in Seq(Tiles)
        ELSE script.layout \in [1 .. field_width * field_height -> Tiles]
     /\ \A k \in DOMAIN streams :
          /\ streams[k].id < w
          /\ streams[k].type \in Tiles =>
               \E j \in DOMAIN streams : /\ j > k /\ streams[j].id = streams[k].id
                                         /\ streams[j].type \in {"out", "image"}

(* Only what is not a level, or a seed for which a stream is out of range  *)
(* or of no stream's kind, fails, and nothing else is let through: no      *)
(* field is ever built with a node out of place or rows of two lengths.    *)
FailsForCause ==
  /\ at \in {"ready", "filling", "made"} => WellFormed
  /\ at = "failed" =>
       IF call = "layout" THEN ~WellFormed
       ELSE \E k \in DOMAIN script.streams[call] :
              \/ script.streams[call][k].id >= width
              \/ script.streams[call][k].type \in Tiles
=============================================================================
