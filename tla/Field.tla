-------------------------------- MODULE Field -------------------------------
(***************************************************************************)
(* One field of nodes running tests: field::do_step (field.hpp) with the   *)
(* step and finalize of every kind of node (T21.hpp, T30.hpp, io.hpp), and *)
(* set_expected and run (sim.cpp) around it.                               *)
(*                                                                         *)
(* A cycle is a set `todo` of handler calls, made one at a time in         *)
(* CallOrder; every action but the last four is one such call.  A field is *)
(* driven by one thread: the interleaving that matters is the order of     *)
(* the calls, and a signal may arrive between any two of them.             *)
(***************************************************************************)
EXTENDS Topology, ImageOutput

CONSTANTS
  Saves,         (* the loaded programs considered                         *)
  Tests,         (* the tests considered                                   *)
  T30_size,      (* the capacity of a stack                                *)
  cycles_limit,  (* the cycles run() gives a test                          *)
  RELEASE        (* built with NDEBUG                                      *)

IsTest(t) ==
  /\ t.inputs \in [Inputs -> Seq(Word)]
  /\ t.n_outputs \in [Numerics -> Seq(Word)]
  /\ t.i_outputs \in [Images -> Picture]

ASSUME FieldAssumption ==
  /\ \A f \in Saves : IsSave(f)
  /\ \A t \in Tests : IsTest(t)
  /\ T30_size \in Nat
  /\ cycles_limit \in Nat
  /\ RELEASE \in BOOLEAN

VARIABLES
  save,    (* the layout and the programs                                  *)
  links, linked, calls,  (* what finalize_nodes made of them               *)
  out,     (* write_word and write_port of every node that is read from    *)
  t21,     (* the other members of a T21                                   *)
  t30,     (* the other members of a T30                                   *)
  idx,     (* the inputs' positions in their streams                       *)
  numeric, (* the members of a num_output                                  *)
  image,   (* the members of an image_output                               *)
  test,    (* the test set_expected put into the field                     *)
  phase,   (* "running" or "ended"                                         *)
  todo,    (* the calls left in this cycle                                 *)
  active,  (* do_step's result so far                                      *)
  cycles, validated,  (* run's score                                       *)
  stop_requested      (* set by the signal handler                         *)

setup == <<save, links, linked, calls>>
nodes == <<out, t21, t30>>
io    == <<idx, numeric, image>>
score == <<cycles, validated>>
vars  == <<setup, nodes, io, test, phase, todo, active, score, stop_requested>>

Port == Dir \cup {"nil", "any"}

-----------------------------------------------------------------------------
(* node::emit(p) and regular_node::do_read(d)                              *)

(* emit(p) would answer.                                                   *)
CanEmit(m, p) == out[m].word # word_empty /\ out[m].port \in {p, "any"}

Bug_PartnerForgotten(m, p) == [word |-> word_empty, port |-> "nil"]

(* The node m after emit(p) has answered: the port goes to nil, or tells   *)
(* an ANY writer where its word went.                                      *)
Emitted(m, p) ==
  [word |-> word_empty, port |-> IF out[m].port = "any" THEN p ELSE "nil"]

(* do_read(d) in n would answer.                                           *)
Offers(n, d) == <<n, d>> \in links /\ CanEmit(Neighbour(n, d), invert[d])

(* All nodes after n has read from the directions in D.                    *)
ReadFrom(n, D) ==
  [m \in DOMAIN out |->
     IF \E d \in D : m = Neighbour(n, d)
     THEN Emitted(m, invert[CHOOSE d \in D : m = Neighbour(n, d)])
     ELSE out[m]]

-----------------------------------------------------------------------------
(* The T21: T21::read and T21::step                                        *)

(* dir_first .. dir_last: the order in which an ANY read tries the         *)
(* neighbours.                                                             *)
DirRank == [left |-> 0, right |-> 1, up |-> 2, down |-> 3]

Current(n) == save.code[n][t21[n].pc + 1]

(* The directions a read of port p tries; none for a register.             *)
Asked(n, p) ==
  CASE p \in Dir -> {p}
    [] p = "any" -> Dir
    [] p = "last" -> {t21[n].last} \cap Dir
    [] OTHER -> {}

Answers(n) == {d \in Asked(n, Current(n).src) : Offers(n, d)}

Blocked(n) == Asked(n, Current(n).src) # {} /\ Answers(n) = {}

Register(n) ==
  CASE Current(n).src = "immediate" -> Current(n).val
    [] Current(n).src = "acc" -> t21[n].acc
    [] OTHER -> 0

(* The direction the operand comes from: the first that answers.           *)
Source(n) == {d \in Answers(n) : \A e \in Answers(n) : DirRank[d] <= DirRank[e]}

Operand(n) ==
  IF Source(n) = {} THEN Register(n)
  ELSE out[Neighbour(n, CHOOSE d \in Source(n) : TRUE)].word

(* The node once read() has returned a word.                               *)
Fetched(n) ==
  [t21[n] EXCEPT
     !.s = "run",
     !.last = IF Current(n).src = "any" THEN CHOOSE d \in Source(n) : TRUE
              ELSE @]

NewAcc(t, i, r) ==
  CASE i.op = "swp" -> t.bak
    [] i.op = "neg" -> -t.acc
    [] i.op = "mov" /\ i.dst = "acc" -> r
    [] i.op = "add" -> sat_add(t.acc, r)
    [] i.op = "sub" -> sat_sub(t.acc, r)
    [] OTHER -> t.acc

NewBak(t, i) == IF i.op \in {"swp", "sav"} THEN t.acc ELSE t.bak

Bug_NoWrap(pc, size) == pc + 1

next(pc, size) == (pc + 1) % size

Taken(i, acc) ==
  \/ i.op = "jmp"
  \/ i.op = "jez" /\ acc = 0
  \/ i.op = "jnz" /\ acc # 0
  \/ i.op = "jgz" /\ acc > 0
  \/ i.op = "jlz" /\ acc < 0

NewPc(t, i, r, size) ==
  CASE Taken(i, t.acc) -> i.val
    [] i.op = "jro" -> clamp(t.pc + r, 0, size - 1)
    [] OTHER -> next(t.pc, size)

(* A MOV that has to wait for a reader; to LAST only once LAST is set.     *)
WritesPort(i, t) ==
  /\ i.op = "mov"
  /\ \/ i.dst \in Dir \cup {"any"}
     \/ i.dst = "last" /\ t.last # "nil"

-----------------------------------------------------------------------------
(* Whose turn it is                                                        *)

Turn(loop, n) ==
  /\ phase = "running"
  /\ <<loop, n>> \in todo
  /\ \A c \in todo : CallOrder(<<loop, n>>) <= CallOrder(c)

Returned(loop, n) ==
  /\ todo' = todo \ {<<loop, n>>}
  /\ UNCHANGED <<setup, test, phase, score, stop_requested>>

StepT21(n) == Turn("step", n) /\ save.type[n] = "T21"

(* Still waiting for somebody to take the word.                            *)
T21_StalledOnWrite(n) ==
  /\ StepT21(n)
  /\ t21[n].s = "write"
  /\ Returned("step", n)
  /\ UNCHANGED <<nodes, io, active>>

T21_StalledOnRead(n) ==
  /\ StepT21(n)
  /\ t21[n].s # "write"
  /\ Blocked(n)
  /\ t21' = [t21 EXCEPT ![n].s = "read"]
  /\ Returned("step", n)
  /\ UNCHANGED <<out, t30, io, active>>

(* Every instruction that completes within its own cycle.                  *)
T21_Compute(n) ==
  LET i == Current(n)
      t == Fetched(n)
      r == Operand(n)
  IN /\ StepT21(n)
     /\ t21[n].s # "write" /\ ~Blocked(n)
     /\ i.op # "hcf" /\ ~WritesPort(i, t)
     /\ t21' = [t21 EXCEPT
                  ![n] = [t EXCEPT !.acc = NewAcc(t, i, r),
                                   !.bak = NewBak(t, i),
                                   !.pc = NewPc(t, i, r, Len(save.code[n]))]]
     /\ out' = ReadFrom(n, Source(n))
     /\ Returned("step", n)
     /\ UNCHANGED <<t30, io, active>>

Bug_PublishedAtOnce(n) ==
  [word |-> Operand(n),
   port |-> IF Current(n).dst = "last" THEN t21[n].last ELSE Current(n).dst]

(* The write half of a step: the word is there, its port is not.           *)
WordSet(n) == [out[n] EXCEPT !.word = Operand(n)]

(* The first half of a MOV to a port: the word is set, nobody sees it yet. *)
T21_StartWrite(n) ==
  LET i == Current(n)
      t == Fetched(n)
  IN /\ StepT21(n)
     /\ t21[n].s # "write" /\ ~Blocked(n)
     /\ WritesPort(i, t)
     /\ t21' = [t21 EXCEPT ![n] = [t EXCEPT !.s = "write"]]
     /\ out' = [ReadFrom(n, Source(n)) EXCEPT ![n] = WordSet(n)]
     /\ Returned("step", n)
     /\ UNCHANGED <<t30, io, active>>

(* HCF throws out of do_step and of run's loop: the calls still in todo    *)
(* are abandoned and the test has failed.                                  *)
T21_Hcf(n) ==
  /\ StepT21(n)
  /\ t21[n].s # "write"
  /\ Current(n).op = "hcf"
  /\ t21' = [t21 EXCEPT ![n].s = "run"]
  /\ phase' = "ended"
  /\ validated' = FALSE
  /\ UNCHANGED <<setup, out, t30, io, test, todo, active, cycles,
                 stop_requested>>

(* T21::finalize: publish a word started in this cycle, or notice that it  *)
(* has been taken and go on.                                               *)
T21_Finalize(n) ==
  /\ Turn("finalize", n) /\ save.type[n] = "T21"
  /\ \/ /\ t21[n].s # "write"
        /\ UNCHANGED <<out, t21>>
     \/ /\ t21[n].s = "write" /\ out[n].word = word_empty
        /\ t21' = [t21 EXCEPT
                     ![n].last = IF out[n].port # "nil" THEN out[n].port ELSE @,
                     ![n].s = "run",
                     ![n].pc = next(@, Len(save.code[n]))]
        /\ out' = [out EXCEPT ![n].port = "nil"]
     \/ /\ t21[n].s = "write" /\ out[n].word # word_empty
        /\ out' = IF out[n].port # "nil" THEN out
                  ELSE [out EXCEPT ![n].port =
                          IF Current(n).dst = "last" THEN t21[n].last
                          ELSE Current(n).dst]
        /\ UNCHANGED t21
  /\ Returned("finalize", n)
  /\ UNCHANGED <<t30, io, active>>

-----------------------------------------------------------------------------
(* The T30                                                                 *)

Push(n, data, d) ==
  IF Len(data) < T30_size /\ Offers(n, d)
  THEN Append(data, out[Neighbour(n, d)].word) ELSE data

(* The stack when each direction's turn comes, and afterwards.             *)
Filling(n) ==
  LET l == t30[n].data
      r == Push(n, l, "left")
      u == Push(n, r, "right")
      d == Push(n, u, "up")
  IN [left |-> l, right |-> r, up |-> u, down |-> d, after |-> Push(n, d, "down")]

Pushes(n) == {d \in Dir : Len(Filling(n)[d]) < T30_size /\ Offers(n, d)}

(* T30::step: take a word from every neighbour that offers one, up to the  *)
(* capacity.  `used` survives to the next test.                            *)
T30_Step(n) ==
  /\ Turn("step", n) /\ save.type[n] = "T30"
  /\ t30' = [t30 EXCEPT ![n].data = Filling(n).after,
                        ![n].used = @ \/ Pushes(n) # {}]
  /\ out' = ReadFrom(n, Pushes(n))
  /\ Returned("step", n)
  /\ UNCHANGED <<t21, io, active>>

Bug_PopBack(s, k) == SubSeq(s, 1, Len(s) - 1)

Erase(s, k) == SubSeq(s, 1, k - 1) \o SubSeq(s, k + 1, Len(s))

Bug_Bottom(k, data) == IF data = <<>> THEN k ELSE 1

PrevEnd(k, data) == IF data = <<>> THEN k ELSE Len(data)

(* T30::finalize: drop the word that was taken, which lies under the words *)
(* pushed in the same cycle, and offer the top.                            *)
T30_Finalize(n) ==
  LET popped == out[n].port # "any"
      data   == IF popped THEN Erase(t30[n].data, t30[n].prev_end)
                ELSE t30[n].data
  IN /\ Turn("finalize", n) /\ save.type[n] = "T30"
     /\ t30' = [t30 EXCEPT ![n].data = data, ![n].prev_end = PrevEnd(@, data)]
     /\ out' = [out EXCEPT ![n] =
                  [word |-> IF data = <<>> THEN @.word ELSE data[Len(data)],
                   port |-> "any"]]
     /\ Returned("finalize", n)
     /\ UNCHANGED <<t21, io, active>>

-----------------------------------------------------------------------------
(* Inputs and outputs                                                      *)

(* input_node::finalize: an input that has just been read from rests for a *)
(* cycle before it loads the next value.                                   *)
Input_Finalize(i) ==
  /\ Turn("input", i)
  /\ \/ /\ out[i].port = "nil"
        /\ out' = [out EXCEPT ![i].port = "down"]
        /\ UNCHANGED idx
     \/ /\ out[i].port # "nil"
        /\ IF out[i].word = word_empty /\ idx[i] # Len(test.inputs[i])
           THEN /\ out' = [out EXCEPT ![i].word = test.inputs[i][idx[i] + 1]]
                /\ idx' = [idx EXCEPT ![i] = @ + 1]
           ELSE UNCHANGED <<out, idx>>
  /\ Returned("input", i)
  /\ UNCHANGED <<t21, t30, numeric, image, active>>

(* An output reads from the node above it with linked->emit(port::down).   *)
Feed(o) == Neighbour(o, "up")

(* The word r is not the one expected next.                                *)
Unexpected(o, r) == r # test.n_outputs[o][Len(numeric[o].received) + 1]

Bug_LastWordDecides(o, r) ==
  LET recv == Append(numeric[o].received, r)
  IN [received |-> recv,
      complete |-> Len(recv) = Len(test.n_outputs[o]),
      wrong    |-> Unexpected(o, r)]

Received(o, r) ==
  LET recv == Append(numeric[o].received, r)
  IN [received |-> recv,
      complete |-> Len(recv) = Len(test.n_outputs[o]),
      wrong    |-> numeric[o].wrong \/ Unexpected(o, r)]

Bug_LastVote(a) == active' = a

(* A step's result joins the others': active |= p->step().                 *)
Vote(a) == active' = (active \/ a)

Numeric_Step(o) ==
  LET r == out[Feed(o)].word IN
  /\ Turn("numeric", o)
  /\ \/ /\ numeric[o].complete
        /\ Vote(FALSE)
        /\ UNCHANGED <<out, numeric>>
     \/ /\ ~numeric[o].complete /\ ~CanEmit(Feed(o), "down")
        /\ Vote(TRUE)
        /\ UNCHANGED <<out, numeric>>
     \/ /\ ~numeric[o].complete /\ CanEmit(Feed(o), "down")
        /\ numeric' = [numeric EXCEPT ![o] = Received(o, r)]
        /\ out' = [out EXCEPT ![Feed(o)] = Emitted(Feed(o), "down")]
        /\ Vote(~Received(o, r).complete /\ ~(RELEASE /\ Unexpected(o, r)))
  /\ Returned("numeric", o)
  /\ UNCHANGED <<t21, t30, idx, image>>

Image_Step(o) ==
  LET reads == CanEmit(Feed(o), "down")
      seen  == IF reads THEN ImageRead(image[o], test.i_outputs[o],
                                       out[Feed(o)].word)
               ELSE image[o]
  IN /\ Turn("image", o)
     /\ image' = [image EXCEPT ![o] = seen]
     /\ out' = IF reads THEN [out EXCEPT ![Feed(o)] = Emitted(Feed(o), "down")]
               ELSE out
     /\ Vote(~ImageValid(seen))
     /\ Returned("image", o)
     /\ UNCHANGED <<t21, t30, idx, numeric>>

-----------------------------------------------------------------------------
(* run() and set_expected()                                                *)

(* The condition of run's loop.                                            *)
GoesRound == active /\ cycles < cycles_limit /\ ~stop_requested

Bug_CyclesNotCounted ==
  /\ phase = "running" /\ todo = {}
  /\ GoesRound
  /\ todo' = calls
  /\ active' = FALSE
  /\ UNCHANGED <<setup, nodes, io, test, phase, score, stop_requested>>

(* The end of one pass of run's loop, when it goes round again.            *)
NextCycle ==
  /\ phase = "running" /\ todo = {}
  /\ GoesRound
  /\ cycles' = cycles + 1
  /\ todo' = calls
  /\ active' = FALSE
  /\ UNCHANGED <<setup, nodes, io, test, phase, validated, stop_requested>>

NumericValid(o) == numeric[o].complete /\ ~numeric[o].wrong

(* ... and when it does not: every output votes, simulated or not.         *)
EndRun ==
  /\ phase = "running" /\ todo = {}
  /\ ~GoesRound
  /\ phase' = "ended"
  /\ validated' = /\ \A o \in Numerics : NumericValid(o)
                  /\ \A o \in Images : ImageValid(image[o])
  /\ UNCHANGED <<setup, nodes, io, test, todo, active, cycles, stop_requested>>

OutReset ==
  [n \in Regular \cup Inputs |->
     [word |-> word_empty,
      port |-> CASE n \in Inputs -> "down"
                 [] n \in Regular /\ save.type[n] = "T30" -> "any"
                 [] OTHER -> "nil"]]

T21Reset ==
  [acc |-> 0, bak |-> 0, pc |-> 0, last |-> "nil", s |-> "idle"]

Bug_Forgets(st) == [data |-> <<>>, prev_end |-> 1, used |-> FALSE]

Bug_WordsKept(st) == [st EXCEPT !.prev_end = 1]

T30Reset(st) == [st EXCEPT !.data = <<>>, !.prev_end = 1]

NumericReset(t, o) ==
  [received |-> <<>>, wrong |-> FALSE, complete |-> t.n_outputs[o] = <<>>]

(* set_expected puts the next test into the field and run() starts on it.  *)
SetExpected(t) ==
  /\ phase = "ended"
  /\ out' = OutReset
  /\ t21' = [n \in Regular |-> T21Reset]
  /\ t30' = [n \in Regular |-> T30Reset(t30[n])]
  /\ idx' = [i \in Inputs |-> 0]
  /\ numeric' = [o \in Numerics |-> NumericReset(t, o)]
  /\ image' = [o \in Images |-> ImageReset(t.i_outputs[o])]
  /\ test' = t
  /\ phase' = "running" /\ todo' = calls /\ active' = FALSE
  /\ cycles' = 1 /\ validated' = FALSE
  /\ UNCHANGED <<setup, stop_requested>>

(* sigterm_handler                                                         *)
Signal ==
  /\ ~stop_requested
  /\ stop_requested' = TRUE
  /\ UNCHANGED <<setup, nodes, io, test, phase, todo, active, score>>

-----------------------------------------------------------------------------
(* The state in which run() is first entered: the field constructed and    *)
(* loaded, the first test set.                                             *)
Loaded(f, t) ==
  /\ save = f
  /\ out = OutReset
  /\ t21 = [n \in Regular |-> T21Reset]
  /\ t30 = [n \in Regular |-> [data |-> <<>>, prev_end |-> 1, used |-> FALSE]]
  /\ idx = [i \in Inputs |-> 0]
  /\ numeric = [o \in Numerics |-> NumericReset(t, o)]
  /\ image = [o \in Images |-> ImageReset(t.i_outputs[o])]
  /\ test = t
  /\ phase = "running" /\ todo = calls /\ active = FALSE
  /\ cycles = 1 /\ validated = FALSE /\ stop_requested = FALSE

(* finalize_nodes                                                          *)
Finalized(f) == links = Links(f) /\ linked = Linked(f) /\ calls = Calls(f)

Init == \E f \in Saves, t \in Tests : Finalized(f) /\ Loaded(f, t)

Handler ==
  \/ \E n \in Regular :
       \/ T21_StalledOnWrite(n) \/ T21_StalledOnRead(n)
       \/ T21_Compute(n) \/ T21_StartWrite(n) \/ T21_Hcf(n)
       \/ T21_Finalize(n)
       \/ T30_Step(n) \/ T30_Finalize(n)
  \/ \E i \in Inputs : Input_Finalize(i)
  \/ \E o \in Numerics : Numeric_Step(o)
  \/ \E o \in Images : Image_Step(o)

Next == Handler \/ NextCycle \/ EndRun \/ (\E t \in Tests : SetExpected(t)) \/ Signal

(* The thread that runs a test keeps running; nothing makes a new test or  *)
(* a signal come.                                                          *)
Spec == Init /\ [][Next]_vars /\ WF_vars(Handler \/ NextCycle \/ EndRun)

-----------------------------------------------------------------------------
(* Invariants                                                              *)

Activity == {"idle", "run", "read", "write"}

(* Every member of every node holds a value of its type; in particular a   *)
(* register, a stack cell or a received value is always within the word    *)
(* range, so that word_empty can never be mistaken for a value.            *)
TypeOK ==
  /\ IsSave(save)
  /\ links \subseteq Slots
  /\ linked \subseteq Numerics \cup Images
  /\ out \in [Regular \cup Inputs -> [word : optional_word, port : Port]]
  /\ t21 \in [Regular -> [acc : Word, bak : Word, pc : Nat,
                          last : Dir \cup {"nil"}, s : Activity]]
  /\ t30 \in [Regular -> [data : Seq(Word), prev_end : Nat, used : BOOLEAN]]
  /\ idx \in [Inputs -> Nat]
  /\ numeric \in [Numerics -> [received : Seq(Word), wrong : BOOLEAN,
                               complete : BOOLEAN]]
  /\ image \in [Images -> [image_received : Picture, wrong_pixels : Int,
                           c_x : Int, c_y : Int]]
  /\ IsTest(test)
  /\ phase \in {"running", "ended"}
  /\ todo \subseteq calls
  /\ active \in BOOLEAN
  /\ cycles \in Nat
  /\ validated \in BOOLEAN
  /\ stop_requested \in BOOLEAN

(* A simulated T21 always has a current instruction (LAST, JRO and labels  *)
(* past the end included), and while it waits for a reader that            *)
(* instruction is the MOV whose word it offers (T21::step, finalize).      *)
T21Consistent ==
  \A n \in Regular : useful(save, n) /\ save.type[n] = "T21" =>
    /\ t21[n].pc < Len(save.code[n])
    /\ t21[n].s = "write" => WritesPort(Current(n), t21[n])
    /\ out[n].word # word_empty => t21[n].s = "write"
    /\ out[n].port # "nil" => t21[n].s = "write"

(* The stack never exceeds its capacity, the word it offers is the one     *)
(* prev_end points at, and prev_end still points at it when finalize       *)
(* erases it, whatever has been pushed on top in the same cycle            *)
(* (T30::step, T30::finalize).                                             *)
StackOffersTop ==
  \A n \in Regular : save.type[n] = "T30" =>
    LET st == t30[n] IN
    /\ Len(st.data) <= T30_size
    /\ out[n].word # word_empty =>
         /\ out[n].port = "any"
         /\ st.prev_end \in DOMAIN st.data
         /\ st.data[st.prev_end] = out[n].word
    /\ out[n].port # "any" =>
         out[n].word = word_empty /\ st.prev_end \in DOMAIN st.data
    /\ <<"step", n>> \in todo /\ st.data # <<>> =>
         /\ st.prev_end = Len(st.data)
         /\ out[n].word # word_empty \/ out[n].port # "any"

(* A program that only moves words from port to port.                      *)
MovesOnly ==
  \A n \in Regular : \A k \in DOMAIN save.code[n] :
    LET i == save.code[n][k] IN
    /\ i.op = "mov"
    /\ i.src \in Dir \cup {"any"}
    /\ i.dst \in Dir \cup {"any"}

(* How often w is among the cells of a family of streams.                  *)
Copies(w, S, stream) ==
  Cardinality({c \in UNION {{s} \X DOMAIN stream[s] : s \in S} :
                 stream[c[1]][c[2]] = w})

(* The words still to be loaded by the inputs, resp. on the stacks and not *)
(* yet taken from them.                                                    *)
Ahead == [i \in Inputs |-> SubSeq(test.inputs[i], idx[i] + 1, Len(test.inputs[i]))]
Kept == [n \in Regular |->
           IF save.type[n] = "T30" /\ out[n].port # "any"
           THEN Erase(t30[n].data, t30[n].prev_end) ELSE t30[n].data]
Got == [o \in Numerics |-> numeric[o].received]

(* Exactly-once delivery: in a network that only moves words (through ANY  *)
(* and through stacks too), every input word is at any moment in exactly   *)
(* one place, whichever of several readers or writers won (node::emit,     *)
(* T21::step and finalize, T30::step and finalize, input_node::finalize).  *)
WordsConserved ==
  MovesOnly /\ Images = {} =>
    \A w \in Word :
      Copies(w, Inputs, test.inputs) =
        Copies(w, Inputs, Ahead) + Copies(w, Regular, Kept)
        + Copies(w, Numerics, Got)
        + Cardinality({m \in DOMAIN out : out[m].word = w
                          /\ (m \in Regular => save.type[m] = "T21")})

(* The counter an image output keeps is the number of pixels that differ   *)
(* from the expected picture, however often a pixel is repainted and       *)
(* wherever the cursor runs (image_output::poke).                          *)
WrongPixelsExact ==
  \A o \in Images :
    image[o].wrong_pixels =
      Cardinality(Differing(image[o].image_received, test.i_outputs[o]))

Burnt == phase = "ended" /\ todo # {}

(* The verdict: a test is validated exactly when no node caught fire and   *)
(* every output, simulated or dropped, received what it expected (run, the *)
(* incremental wrong/complete flags and wrong_pixels, early exit).         *)
VerdictExact ==
  phase = "ended" =>
    (validated <=>
       /\ ~Burnt
       /\ \A o \in Numerics : numeric[o].received = test.n_outputs[o]
       /\ \A o \in Images : image[o].image_received = test.i_outputs[o])

(* A run that gives up before its limit has a reason that more cycles      *)
(* could not have changed: a wrong word was received, or a dropped output  *)
(* still wants something (run's loop, RELEASE's early failure).            *)
GivesUpForCause ==
  phase = "ended" /\ ~Burnt /\ ~validated /\ ~stop_requested
  /\ cycles < cycles_limit =>
    \/ \E o \in Numerics : numeric[o].wrong
    \/ \E o \in (Numerics \cup Images) \ linked :
         IF o \in Numerics THEN ~NumericValid(o) ELSE ~ImageValid(image[o])

-----------------------------------------------------------------------------
(* Action and temporal properties                                          *)

(* "a consistent propagation delay" (do_step): a word that becomes         *)
(* readable during a cycle is not readable by any call left in that cycle. *)
OneCycleDelay ==
  [][/\ \A l \in links :
          Offers(l[1], l[2])' /\ ~Offers(l[1], l[2]) =>
            <<"step", l[1]>> \notin todo'
     /\ \A o \in linked :
          CanEmit(Feed(o), "down")' /\ ~CanEmit(Feed(o), "down") =>
            {<<"numeric", o>>, <<"image", o>>} \cap todo' = {}]_vars

(* Every test ends: by its outputs, by HCF, by the limit or by a signal.   *)
EveryRunEnds == phase = "running" ~> phase = "ended"
=============================================================================
