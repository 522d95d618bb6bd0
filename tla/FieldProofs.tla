----------------------------- MODULE FieldProofs ----------------------------
(***************************************************************************)
(* Proofs about Field for every layout, program, test and size: the type   *)
(* invariant and T21Consistent, both from the inductive invariant IInv;    *)
(* what its outputs and its verdict promise (WrongPixelsExact,             *)
(* VerdictExact, GivesUpForCause); that no word is read in the cycle in    *)
(* which it was written (OneCycleDelay); and that every write follows      *)
(* PortProtocol.                                                           *)
(***************************************************************************)
EXTENDS FieldProtocol, SharedLemmas, TLAPS, SequenceTheorems, FiniteSetTheorems

-----------------------------------------------------------------------------
(* Words and ports                                                         *)

(* The sentinel is no word; the words are the integers around zero.        *)
LEMMA WordFacts ==
  /\ Word \subseteq Int /\ optional_word \subseteq Int
  /\ word_empty \in optional_word /\ word_empty \notin Word
  /\ 0 \in Word
  /\ \A w \in optional_word : w # word_empty => w \in Word
BY WordAssumption DEF Word, optional_word, word_empty, word_min

(* Arithmetic never leaves the word range (sat_add, sat_sub, neg).         *)
LEMMA Saturated ==
  ASSUME NEW a \in Word, NEW b \in Word
  PROVE  sat_add(a, b) \in Word /\ sat_sub(a, b) \in Word /\ -a \in Word
BY WordAssumption DEF Word, word_min, sat_add, sat_sub, clamp

(* A jump relative to pc stays inside the program (JRO).                   *)
LEMMA ClampedPc ==
  ASSUME NEW pc \in Nat, NEW r \in Int, NEW size \in Nat \ {0}
  PROVE  clamp(pc + r, 0, size - 1) \in 0 .. size - 1
BY DEF clamp

(* ... and so does stepping past the last instruction.                     *)
LEMMA NextPc ==
  ASSUME NEW pc \in Nat, NEW size \in Nat \ {0}, pc < size
  PROVE  next(pc, size) \in 0 .. size - 1
BY DEF next

LEMMA InvertDir == \A d \in Dir : invert[d] \in Dir
BY DEF invert, Dir

(* An emptied node's port names a neighbour or nobody, never ANY.          *)
LEMMA EmittedType ==
  ASSUME NEW m, NEW p \in Dir
  PROVE  /\ Emitted(m, p) \in [word : optional_word, port : Port]
         /\ Emitted(m, p).word = word_empty
         /\ Emitted(m, p).port \in Dir \cup {"nil"}
BY WordFacts DEF Emitted, Port, Dir

-----------------------------------------------------------------------------
(* What finalize_nodes leaves, for as long as the field lives              *)

Setup ==
  /\ save \in Saves
  /\ links = Links(save) /\ linked = Linked(save) /\ calls = Calls(save)

(* Only useful nodes are simulated, and the io handlers have their nodes.  *)
LEMMA CalledNodes ==
  ASSUME Setup
  PROVE  /\ \A n : <<"step", n>> \in calls => n \in Regular /\ useful(save, n)
         /\ \A n : <<"finalize", n>> \in calls => n \in Regular /\ useful(save, n)
         /\ \A i : <<"input", i>> \in calls => i \in Inputs
         /\ \A o : <<"numeric", o>> \in calls => o \in Numerics /\ Feed(o) \in Regular
         /\ \A o : <<"image", o>> \in calls => o \in Images /\ Feed(o) \in Regular
<1> DEFINE sim == regulars_to_sim(save)
           ins == {j \in Inputs : /\ <<Neighbour(j, "down"), "up">> \in Links(save)
                                  /\ Neighbour(j, "down") \in sim}
<1>1. sim \subseteq {n \in Regular : useful(save, n)} /\ ins \subseteq Inputs
  BY DEF regulars_to_sim
<1>2. \A o \in Linked(save) : Feed(o) \in Regular
  BY DEF Linked, useful, Feed
<1>3. calls = {<<loop, n>> : loop \in {"step", "finalize"}, n \in sim}
                \cup {<<"input", i>> : i \in ins}
                \cup {<<"numeric", o>> : o \in Numerics \cap Linked(save)}
                \cup {<<"image", o>> : o \in Images \cap Linked(save)}
  BY DEF Setup, Calls
<1> HIDE DEF sim, ins
<1>4. \A n : <<"step", n>> \in calls => n \in sim
  BY <1>3
<1>5. \A n : <<"finalize", n>> \in calls => n \in sim
  BY <1>3
<1>6. \A i : <<"input", i>> \in calls => i \in ins
  BY <1>3
<1>7. \A o : <<"numeric", o>> \in calls => o \in Numerics \cap Linked(save)
  BY <1>3
<1>8. \A o : <<"image", o>> \in calls => o \in Images \cap Linked(save)
  BY <1>3
<1>9. QED
  BY <1>1, <1>2, <1>4, <1>5, <1>6, <1>7, <1>8, Zenon

(* A node is either simulated in both loops or in neither.                 *)
LEMMA BothLoops ==
  ASSUME Setup, NEW n, <<"step", n>> \in calls
  PROVE  <<"finalize", n>> \in calls
<1> DEFINE sim == regulars_to_sim(save)
           ins == {j \in Inputs : /\ <<Neighbour(j, "down"), "up">> \in Links(save)
                                  /\ Neighbour(j, "down") \in sim}
<1>1. calls = {<<loop, m>> : loop \in {"step", "finalize"}, m \in sim}
                \cup {<<"input", i>> : i \in ins}
                \cup {<<"numeric", o>> : o \in Numerics \cap Linked(save)}
                \cup {<<"image", o>> : o \in Images \cap Linked(save)}
  BY DEF Setup, Calls
<1> HIDE DEF sim, ins
<1>2. n \in sim
  BY <1>1
<1>3. QED
  BY <1>1, <1>2

(* A link leads to a node that has a word and a port.                      *)
LEMMA LinkTarget ==
  ASSUME Setup, NEW n, NEW d, <<n, d>> \in links
  PROVE  d \in Dir /\ Neighbour(n, d) \in Regular \cup Inputs
BY DEF Setup, Links, Slots, useful

-----------------------------------------------------------------------------
(* The order of the calls                                                  *)

(* A node of the level: its row is -1 for an input, Height for an output.  *)
Place(n) ==
  /\ n[1] \in Int /\ 0 <= n[1] /\ n[1] < Width
  /\ n[2] \in Int /\ -1 <= n[2] /\ n[2] <= Height

LEMMA RegularPlace == \A n \in Regular : Place(n)
BY LayoutAssumption DEF Regular, Place

LEMMA IoPlace == \A n \in Inputs \cup Numerics \cup Images : Place(n)
BY LayoutAssumption DEF Inputs, Numerics, Images, Place

LEMMA ProductMonotone ==
  ASSUME NEW a \in Nat, NEW b \in Nat, NEW c \in Nat, a <= b
  PROVE  a * c \in Nat /\ b * c \in Nat /\ a * c <= b * c
OBVIOUS

LEMMA ProductSuccessor ==
  ASSUME NEW a \in Nat, NEW c \in Nat
  PROVE  (a + 1) * c = a * c + c
OBVIOUS

LEMMA ProductAssociates ==
  ASSUME NEW a \in Nat, NEW b \in Nat, NEW c \in Nat
  PROVE  a * b * c = a * (b * c)
OBVIOUS

(* do_step's loops run one after the other: whatever the nodes, a call of  *)
(* an earlier loop comes before a call of a later one.                     *)
LEMMA LoopsInOrder ==
  ASSUME NEW k \in DOMAIN LoopOrder, NEW l \in DOMAIN LoopOrder,
         LoopOrder[k] < LoopOrder[l],
         NEW n, NEW m, Place(n), Place(m)
  PROVE  /\ CallOrder(<<k, n>>) \in Int /\ CallOrder(<<l, m>>) \in Int
         /\ CallOrder(<<k, n>>) < CallOrder(<<l, m>>)
<1> DEFINE area   == (Height + 2) * Width
           pos(p) == (p[2] + 1) * Width + p[1]
           a      == LoopOrder[k]
           b      == LoopOrder[l]
<1>1. Width \in Nat \ {0} /\ Height \in Nat \ {0}
  BY LayoutAssumption
<1>2. a \in Nat /\ b \in Nat /\ a + 1 <= b
  BY DEF LoopOrder
<1>3. ASSUME NEW p, Place(p) PROVE pos(p) \in Nat /\ pos(p) < area
  <2>1. p[2] + 1 \in Nat /\ p[2] + 1 <= Height + 1 /\ p[1] \in Nat /\ p[1] < Width
    BY <1>1, <1>3 DEF Place
  <2>2. (p[2] + 1) * Width \in Nat /\ (p[2] + 1) * Width <= (Height + 1) * Width
    BY <1>1, <2>1, ProductMonotone
  <2>3. area = (Height + 1) * Width + Width /\ (Height + 1) * Width \in Nat
    BY <1>1, <2>1, ProductMonotone
  <2>4. QED
    BY <1>1, <2>1, <2>2, <2>3
<1>4. area \in Nat
  BY <1>1
<1>5. /\ CallOrder(<<k, n>>) = a * area + pos(n)
      /\ CallOrder(<<l, m>>) = b * area + pos(m)
  <2>1. Width * (Height + 2) = area
    BY <1>1
  <2>2. ASSUME NEW c \in Nat PROVE c * Width * (Height + 2) = c * area
    BY <1>1, <2>1, ProductAssociates
  <2>3. ASSUME NEW p, Place(p), NEW j \in DOMAIN LoopOrder
        PROVE  CallOrder(<<j, p>>) = LoopOrder[j] * area + pos(p)
    <3> DEFINE u == LoopOrder[j] * Width * (Height + 2)
               v == (p[2] + 1) * Width
    <3>1. LoopOrder[j] \in Nat
      BY DEF LoopOrder
    <3>2. u = LoopOrder[j] * area /\ u \in Int
      BY <1>4, <2>2, <3>1
    <3>3. v \in Int /\ p[1] \in Int
      BY <1>1, <2>3 DEF Place
    <3>4. CallOrder(<<j, p>>) = u + v + p[1] /\ pos(p) = v + p[1]
      BY DEF CallOrder
    <3> HIDE DEF u, v
    <3>5. QED
      BY <3>2, <3>3, <3>4
  <2>4. QED
    BY <2>3
<1>6. pos(n) \in Nat /\ pos(n) < area /\ pos(m) \in Nat
  BY <1>3
<1> HIDE DEF area, pos, a, b
<1>7. /\ (a + 1) * area = a * area + area
      /\ (a + 1) * area <= b * area /\ a * area \in Nat /\ b * area \in Nat
  BY <1>2, <1>4, ProductMonotone, ProductSuccessor
<1>8. QED
  BY <1>4, <1>5, <1>6, <1>7

-----------------------------------------------------------------------------
(* The inductive invariant                                                 *)

(* A T21 that writes to ANY has its word out: an ANY that stood alone would*)
(* be taken for the direction of the reader.                               *)
AnyHasWord ==
  \A n \in Regular :
    save.type[n] = "T21" /\ out[n].port = "any" => out[n].word # word_empty

(* A stack that offers a word, or has just lost one, knows where it lies.  *)
StackKnowsTop ==
  \A n \in Regular : save.type[n] = "T30" =>
    /\ out[n].port # "any" => out[n].word = word_empty
    /\ out[n].port # "any" \/ out[n].word # word_empty =>
         t30[n].prev_end \in DOMAIN t30[n].data

InputsInRange == \A i \in Inputs : idx[i] <= Len(test.inputs[i])

IInv ==
  /\ TypeOK /\ Setup
  /\ T21Consistent /\ AnyHasWord /\ StackKnowsTop /\ InputsInRange

OutType == [Regular \cup Inputs -> [word : optional_word, port : Port]]
T21Type == [acc : Word, bak : Word, pc : Nat, last : Dir \cup {"nil"}, s : Activity]
T30Type == [data : Seq(Word), prev_end : Nat, used : BOOLEAN]

-----------------------------------------------------------------------------
(* What a call does to the nodes it reads from: they keep what they have,  *)
(* or lose their word to the reader in a direction they offered it to; a   *)
(* writer to ANY learns which.                                             *)

Emptied(before, after) ==
  /\ before.word # word_empty /\ after.word = word_empty
  /\ \E d \in Dir :
       /\ before.port \in {d, "any"}
       /\ after.port = IF before.port = "any" THEN d ELSE "nil"

LEMMA ReadFromEffect ==
  ASSUME IInv, NEW n, NEW D \in SUBSET Dir, \A d \in D : Offers(n, d)
  PROVE  /\ ReadFrom(n, D) \in OutType
         /\ \A m \in Regular \cup Inputs :
              ReadFrom(n, D)[m] = out[m] \/ Emptied(out[m], ReadFrom(n, D)[m])
<1>1. out \in OutType
  BY DEF IInv, TypeOK, OutType
<1>2. ASSUME NEW m \in Regular \cup Inputs
      PROVE  /\ ReadFrom(n, D)[m] \in [word : optional_word, port : Port]
             /\ ReadFrom(n, D)[m] = out[m] \/ Emptied(out[m], ReadFrom(n, D)[m])
  <2>1. CASE \E d \in D : m = Neighbour(n, d)
    <3> DEFINE e == CHOOSE d \in D : m = Neighbour(n, d)
    <3>1. e \in D /\ m = Neighbour(n, e)
      BY <2>1
    <3> HIDE DEF e
    <3>2. ReadFrom(n, D)[m] = Emitted(m, invert[e])
      BY <1>1, <2>1 DEF ReadFrom, e, OutType
    <3>3. out[m].word # word_empty /\ out[m].port \in {invert[e], "any"}
      BY <3>1 DEF Offers, CanEmit
    <3>4. Emptied(out[m], Emitted(m, invert[e]))
      BY <3>1, <3>3, InvertDir DEF Emptied, Emitted
    <3>5. QED
      BY <3>1, <3>2, <3>4, InvertDir, EmittedType
  <2>2. CASE ~\E d \in D : m = Neighbour(n, d)
    BY <1>1, <2>2 DEF ReadFrom, OutType
  <2>3. QED
    BY <2>1, <2>2
<1>3. QED
  <2>1. ReadFrom(n, D) = [m \in Regular \cup Inputs |-> ReadFrom(n, D)[m]]
    BY <1>1 DEF ReadFrom, OutType
  <2>2. QED
    BY <1>2, <2>1 DEF OutType

(* The word somebody else offers is a word.                                *)
LEMMA OfferedWord ==
  ASSUME IInv, NEW n, NEW d, Offers(n, d)
  PROVE  out[Neighbour(n, d)].word \in Word
<1>1. Neighbour(n, d) \in Regular \cup Inputs
  BY LinkTarget DEF IInv, Offers
<1>2. QED
  BY <1>1, WordFacts DEF IInv, TypeOK, Offers, CanEmit

(* A node whose own members a call leaves alone stays consistent, whether  *)
(* or not its word is taken.                                               *)
LEMMA Untouched ==
  ASSUME IInv, save' = save, NEW n \in Regular,
         out'[n] = out[n] \/ Emptied(out[n], out'[n])
  PROVE  /\ save.type[n] = "T21" /\ t21'[n] = t21[n] =>
              /\ out'[n].port = "any" => out'[n].word # word_empty
              /\ useful(save, n) =>
                   /\ t21'[n].pc < Len(save.code[n])
                   /\ t21'[n].s = "write" => WritesPort(Current(n), t21[n])
                   /\ out'[n].word # word_empty => t21'[n].s = "write"
                   /\ out'[n].port # "nil" => t21'[n].s = "write"
         /\ save.type[n] = "T30" /\ t30'[n] = t30[n] =>
              /\ out'[n].port # "any" => out'[n].word = word_empty
              /\ out'[n].port # "any" \/ out'[n].word # word_empty =>
                   t30'[n].prev_end \in DOMAIN t30'[n].data
BY DEF IInv, T21Consistent, AnyHasWord, StackKnowsTop, Emptied, Dir

-----------------------------------------------------------------------------
(* The T21                                                                 *)

(* A T21 in the simulation has an instruction, as assemble() left it.      *)
LEMMA CurrentInstruction ==
  ASSUME IInv, NEW n \in Regular, useful(save, n), save.type[n] = "T21"
  PROVE  /\ Current(n) \in Instr
         /\ Len(save.code[n]) \in Nat \ {0}
         /\ t21[n].pc \in 0 .. Len(save.code[n]) - 1
         /\ Current(n).op \in Jumps =>
              Current(n).val \in 0 .. Len(save.code[n]) - 1
         /\ Current(n).op \notin Jumps => Current(n).val \in Word
<1>1. save.code[n] \in Seq(Instr) /\ Assembled(save.code[n])
  BY DEF IInv, TypeOK, IsSave
<1>2. t21[n].pc \in Nat /\ t21[n].pc < Len(save.code[n])
  BY DEF IInv, TypeOK, T21Consistent
<1>3. Len(save.code[n]) \in Nat /\ DOMAIN save.code[n] = 1 .. Len(save.code[n])
  BY <1>1, LenProperties
<1>4. t21[n].pc + 1 \in DOMAIN save.code[n]
  BY <1>2, <1>3
<1>5. Current(n) \in Instr
  BY <1>1, <1>3, <1>4, ElementOfSeq DEF Current
<1>6. QED
  BY <1>1, <1>2, <1>3, <1>4, <1>5 DEF Current, Assembled

(* An ANY read that is not blocked finds a first direction.                *)
LEMMA AnyFindsSource ==
  ASSUME NEW n, Current(n).src = "any", ~Blocked(n)
  PROVE  Source(n) # {}
<1>1. Answers(n) # {} /\ Answers(n) \subseteq Dir
  BY DEF Blocked, Answers, Asked, Dir
<1>2. CASE "left" \in Answers(n)
  BY <1>1, <1>2 DEF Source, DirRank, Dir
<1>3. CASE "left" \notin Answers(n) /\ "right" \in Answers(n)
  BY <1>1, <1>3 DEF Source, DirRank, Dir
<1>4. CASE Answers(n) \cap {"left", "right"} = {} /\ "up" \in Answers(n)
  BY <1>1, <1>4 DEF Source, DirRank, Dir
<1>5. CASE Answers(n) \cap {"left", "right", "up"} = {}
  BY <1>1, <1>5 DEF Source, DirRank, Dir
<1>6. QED
  BY <1>2, <1>3, <1>4, <1>5

(* A completed read leaves a well-formed node and yields a word.           *)
LEMMA ReadCompletes ==
  ASSUME IInv, NEW n \in Regular, StepT21(n), t21[n].s # "write", ~Blocked(n)
  PROVE  /\ useful(save, n)
         /\ Fetched(n) \in T21Type
         /\ Fetched(n).acc = t21[n].acc /\ Fetched(n).bak = t21[n].bak
         /\ Fetched(n).pc = t21[n].pc /\ Fetched(n).s = "run"
         /\ Source(n) \subseteq Dir /\ \A d \in Source(n) : Offers(n, d)
         /\ Current(n).op \notin Jumps => Operand(n) \in Word
<1>1. useful(save, n) /\ save.type[n] = "T21"
  BY CalledNodes DEF IInv, TypeOK, StepT21, Turn
<1>2. t21[n] \in T21Type
  BY DEF IInv, TypeOK, T21Type
<1>3. Source(n) \subseteq Dir /\ \A d \in Source(n) : Offers(n, d)
  <2>1. \A p : Asked(n, p) \subseteq Dir
    BY DEF Asked, Dir
  <2>2. QED
    BY <2>1 DEF Source, Answers
<1>4. Current(n).src = "any" => (CHOOSE d \in Source(n) : TRUE) \in Dir
  BY <1>3, AnyFindsSource
<1>5. /\ Fetched(n) \in T21Type
      /\ Fetched(n).acc = t21[n].acc /\ Fetched(n).bak = t21[n].bak
      /\ Fetched(n).pc = t21[n].pc /\ Fetched(n).s = "run"
  BY <1>2, <1>4 DEF Fetched, T21Type, Activity
<1>6. Current(n).op \notin Jumps => Operand(n) \in Word
  <2>1. CASE Source(n) = {}
    BY <1>1, <1>2, <2>1, CurrentInstruction, WordFacts DEF Operand, Register, T21Type
  <2>2. CASE Source(n) # {}
    BY <1>3, <2>2, OfferedWord DEF Operand
  <2>3. QED
    BY <2>1, <2>2
<1>7. QED
  BY <1>1, <1>3, <1>5, <1>6

-----------------------------------------------------------------------------
(* The calls, one by one                                                   *)

NumericType == [received : Seq(Word), wrong : BOOLEAN, complete : BOOLEAN]

(* The members a call writes are all that its types depend on.             *)
LEMMA CallTypes ==
  ASSUME IInv, NEW loop, NEW n, Returned(loop, n),
         out' \in OutType, t21' \in [Regular -> T21Type],
         t30' \in [Regular -> T30Type], idx' \in [Inputs -> Nat],
         numeric' \in [Numerics -> NumericType],
         image' \in [Images -> ImageType], active' \in BOOLEAN
  PROVE  TypeOK' /\ Setup'
<1>1. Setup' /\ todo' \subseteq calls'
  BY DEF IInv, TypeOK, Setup, Returned, setup
<1>2. QED
  BY <1>1 DEF IInv, TypeOK, Returned, setup, score, OutType, T21Type, T30Type,
              NumericType, ImageType

(* A step of a T21 that runs an instruction: what is read is emptied, and  *)
(* the node itself is as t says.                                           *)
LEMMA T21Runs ==
  ASSUME IInv, NEW n \in Regular, StepT21(n), t21[n].s # "write", ~Blocked(n),
         Returned("step", n), UNCHANGED <<t30, io, active>>,
         NEW t \in T21Type, t21' = [t21 EXCEPT ![n] = t],
         t.pc < Len(save.code[n]),
         \/ t.s # "write" /\ out' = ReadFrom(n, Source(n))
         \/ /\ t.s = "write" /\ t.pc = t21[n].pc /\ WritesPort(Current(n), t)
            /\ Operand(n) \in Word
            /\ out' = [ReadFrom(n, Source(n)) EXCEPT ![n] = WordSet(n)]
  PROVE  IInv'
<1> DEFINE after == ReadFrom(n, Source(n))
<1>1. /\ useful(save, n) /\ save.type[n] = "T21"
      /\ out[n].word = word_empty /\ out[n].port = "nil"
      /\ save' = save /\ t21 \in [Regular -> T21Type]
  BY ReadCompletes DEF IInv, TypeOK, T21Consistent, StepT21, Returned, setup, T21Type
<1>2. /\ after \in OutType
      /\ \A m \in Regular \cup Inputs : after[m] = out[m] \/ Emptied(out[m], after[m])
  BY ReadCompletes, ReadFromEffect
<1>3. after[n] = out[n]
  BY <1>1, <1>2 DEF Emptied
<1> HIDE DEF after
<1>4. WordSet(n).port = "nil" /\ WordSet(n).word = Operand(n)
  BY <1>1 DEF IInv, TypeOK, WordSet
<1>5. Operand(n) \in Word => WordSet(n) \in [word : optional_word, port : Port]
  <2>1. out[n] \in [word : optional_word, port : Port]
    BY DEF IInv, TypeOK
  <2>2. QED
    BY <2>1 DEF WordSet, optional_word
<1>6. /\ out' \in OutType
      /\ \A m \in Regular \ {n} : out'[m] = out[m] \/ Emptied(out[m], out'[m])
  BY <1>2, <1>5 DEF OutType, after
<1>7. t21' \in [Regular -> T21Type] /\ t21'[n] = t
      /\ \A m \in Regular \ {n} : t21'[m] = t21[m]
  BY <1>1
<1>8. TypeOK' /\ Setup'
  BY <1>6, <1>7, CallTypes DEF IInv, TypeOK, io, T30Type, NumericType, ImageType
<1>9. /\ out'[n].port = "nil"
      /\ out'[n].word = word_empty \/ t.s = "write"
      /\ t.s = "write" => WritesPort(Current(n), t21[n])'
  BY <1>1, <1>2, <1>3, <1>4, <1>7 DEF after, OutType, Current
<1>10. T21Consistent' /\ AnyHasWord'
  <2> SUFFICES ASSUME NEW m \in Regular, save.type[m] = "T21"
      PROVE /\ out'[m].port = "any" => out'[m].word # word_empty
            /\ useful(save, m) =>
                   /\ t21'[m].pc < Len(save.code[m])
                   /\ t21'[m].s = "write" => WritesPort(Current(m), t21[m])'
                   /\ out'[m].word # word_empty => t21'[m].s = "write"
                   /\ out'[m].port # "nil" => t21'[m].s = "write"
    BY <1>1 DEF T21Consistent, AnyHasWord
  <2>1. CASE m = n
    BY <1>7, <1>9, <2>1
  <2>2. CASE m # n
    <3>1. WritesPort(Current(m), t21[m]) => WritesPort(Current(m), t21[m])'
      BY <1>1, <1>7, <2>2 DEF Current
    <3>2. QED
      BY <1>1, <1>6, <1>7, <2>2, <3>1, Untouched
  <2>3. QED
    BY <2>1, <2>2
<1>11. StackKnowsTop' /\ InputsInRange'
  BY <1>1, <1>6, Untouched DEF IInv, InputsInRange, StackKnowsTop, Returned, io
<1>12. QED
  BY <1>8, <1>10, <1>11 DEF IInv

(* A T21 that only changes its activity, to one that offers nothing.       *)
LEMMA ActivityOnly ==
  ASSUME IInv, NEW n \in Regular, t21[n].s # "write", NEW a \in {"read", "run"},
         t21' = [t21 EXCEPT ![n].s = a],
         UNCHANGED <<save, test, out, t30, idx>>
  PROVE  /\ t21' \in [Regular -> T21Type]
         /\ T21Consistent' /\ AnyHasWord' /\ StackKnowsTop' /\ InputsInRange'
<1>1. t21 \in [Regular -> T21Type]
  BY DEF IInv, TypeOK, T21Type
<1>2. /\ t21' \in [Regular -> T21Type]
      /\ \A m \in Regular \ {n} : t21'[m] = t21[m]
      /\ t21'[n].pc = t21[n].pc /\ t21'[n].s # "write"
  BY <1>1 DEF T21Type, Activity
<1>3. T21Consistent'
  <2> SUFFICES ASSUME NEW m \in Regular, useful(save, m), save.type[m] = "T21"
      PROVE /\ t21'[m].pc < Len(save.code[m])
            /\ t21'[m].s = "write" => WritesPort(Current(m), t21[m])'
            /\ out[m].word # word_empty => t21'[m].s = "write"
            /\ out[m].port # "nil" => t21'[m].s = "write"
    BY DEF T21Consistent
  <2>1. CASE m = n
    BY <1>2, <2>1 DEF IInv, T21Consistent
  <2>2. CASE m # n
    BY <1>2, <2>2 DEF IInv, T21Consistent, Current
  <2>3. QED
    BY <2>1, <2>2
<1>4. QED
  BY <1>2, <1>3 DEF IInv, AnyHasWord, StackKnowsTop, InputsInRange

LEMMA StalledOnWrite ==
  ASSUME IInv, NEW n \in Regular, T21_StalledOnWrite(n)
  PROVE  IInv'
<1>1. TypeOK' /\ Setup'
  BY CallTypes DEF IInv, TypeOK, T21_StalledOnWrite, nodes, io, OutType, T21Type,
                   T30Type, NumericType, ImageType
<1>2. T21Consistent'
  BY DEF IInv, T21Consistent, T21_StalledOnWrite, Returned, setup, nodes, Current
<1>3. QED
  BY <1>1, <1>2 DEF IInv, T21_StalledOnWrite, AnyHasWord, StackKnowsTop,
                    InputsInRange, Returned, setup, nodes, io

LEMMA StalledOnRead ==
  ASSUME IInv, NEW n \in Regular, T21_StalledOnRead(n)
  PROVE  IInv'
<1>1. /\ t21' \in [Regular -> T21Type]
      /\ T21Consistent' /\ AnyHasWord' /\ StackKnowsTop' /\ InputsInRange'
  BY ActivityOnly DEF T21_StalledOnRead, Returned, setup, io
<1>2. TypeOK' /\ Setup'
  BY <1>1, CallTypes DEF IInv, TypeOK, T21_StalledOnRead, io, OutType, T30Type,
                         NumericType, ImageType
<1>3. QED
  BY <1>1, <1>2 DEF IInv

LEMMA Hcf ==
  ASSUME IInv, NEW n \in Regular, T21_Hcf(n)
  PROVE  IInv'
<1>1. /\ t21' \in [Regular -> T21Type]
      /\ T21Consistent' /\ AnyHasWord' /\ StackKnowsTop' /\ InputsInRange'
  BY ActivityOnly DEF T21_Hcf, setup, io
<1>2. TypeOK' /\ Setup'
  BY <1>1 DEF IInv, TypeOK, Setup, T21_Hcf, setup, io, T21Type
<1>3. QED
  BY <1>1, <1>2 DEF IInv

LEMMA Compute ==
  ASSUME IInv, NEW n \in Regular, T21_Compute(n)
  PROVE  IInv'
<1> DEFINE i == Current(n)
           t == Fetched(n)
           r == Operand(n)
           u == [t EXCEPT !.acc = NewAcc(t, i, r), !.bak = NewBak(t, i),
                          !.pc = NewPc(t, i, r, Len(save.code[n]))]
<1>1. /\ StepT21(n) /\ t21[n].s # "write" /\ ~Blocked(n)
      /\ t21' = [t21 EXCEPT ![n] = u] /\ out' = ReadFrom(n, Source(n))
      /\ Returned("step", n) /\ UNCHANGED <<t30, io, active>>
  BY DEF T21_Compute
<1>2. /\ useful(save, n) /\ save.type[n] = "T21"
      /\ t \in T21Type /\ t.pc = t21[n].pc /\ t.s = "run"
      /\ i.op \notin Jumps => r \in Word
  BY <1>1, ReadCompletes DEF StepT21
<1>3. /\ Len(save.code[n]) \in Nat \ {0}
      /\ t.pc \in 0 .. Len(save.code[n]) - 1
      /\ i.op \in Jumps => i.val \in 0 .. Len(save.code[n]) - 1
  BY <1>2, CurrentInstruction
<1> HIDE DEF i, t, r
<1>4. t.acc \in Word /\ t.bak \in Word
  BY <1>2 DEF T21Type
<1>5. NewAcc(t, i, r) \in Word
  BY <1>2, <1>4, Saturated DEF NewAcc, Jumps
<1>6. NewBak(t, i) \in Word
  BY <1>4 DEF NewBak
<1>7. NewPc(t, i, r, Len(save.code[n])) \in 0 .. Len(save.code[n]) - 1
  <2>1. CASE Taken(i, t.acc)
    BY <1>3, <2>1 DEF NewPc, Taken, Jumps
  <2>2. CASE ~Taken(i, t.acc) /\ i.op = "jro"
    <3>1. i.op \notin Jumps
      BY <2>2 DEF Jumps
    <3>2. r \in Word
      BY <1>2, <3>1
    <3>3. r \in Int
      BY <3>2, WordFacts
    <3>4. t.pc \in Nat
      BY <1>3
    <3>5. clamp(t.pc + r, 0, Len(save.code[n]) - 1) \in 0 .. Len(save.code[n]) - 1
      BY <1>3, <3>3, <3>4, ClampedPc
    <3>6. QED
      BY <2>2, <3>5 DEF NewPc
  <2>3. CASE ~Taken(i, t.acc) /\ i.op # "jro"
    BY <1>3, <2>3, NextPc DEF NewPc
  <2>4. QED
    BY <2>1, <2>2, <2>3
<1>8. u \in T21Type /\ u.s # "write" /\ u.pc < Len(save.code[n])
  <2> DEFINE acc == NewAcc(t, i, r)
             bak == NewBak(t, i)
             pc  == NewPc(t, i, r, Len(save.code[n]))
  <2>1. /\ acc \in Word /\ bak \in Word /\ pc \in Nat /\ pc < Len(save.code[n])
        /\ u = [t EXCEPT !.acc = acc, !.bak = bak, !.pc = pc]
    BY <1>3, <1>5, <1>6, <1>7
  <2> HIDE DEF acc, bak, pc, u
  <2>2. QED
    BY <1>2, <2>1 DEF T21Type
<1> HIDE DEF u
<1>9. QED
  BY <1>1, <1>8, T21Runs

LEMMA StartWrite ==
  ASSUME IInv, NEW n \in Regular, T21_StartWrite(n)
  PROVE  IInv'
<1> DEFINE u == [Fetched(n) EXCEPT !.s = "write"]
<1>1. /\ StepT21(n) /\ t21[n].s # "write" /\ ~Blocked(n)
      /\ WritesPort(Current(n), Fetched(n))
      /\ t21' = [t21 EXCEPT ![n] = u]
      /\ out' = [ReadFrom(n, Source(n)) EXCEPT ![n] = WordSet(n)]
      /\ Returned("step", n) /\ UNCHANGED <<t30, io, active>>
  BY DEF T21_StartWrite
<1>2. /\ useful(save, n) /\ save.type[n] = "T21"
      /\ Fetched(n) \in T21Type /\ Fetched(n).pc = t21[n].pc
      /\ Operand(n) \in Word
  BY <1>1, ReadCompletes DEF StepT21, WritesPort, Jumps
<1>3. /\ u \in T21Type /\ u.s = "write" /\ u.pc = t21[n].pc
      /\ WritesPort(Current(n), u)
  BY <1>1, <1>2 DEF T21Type, Activity, WritesPort
<1>4. u.pc < Len(save.code[n])
  BY <1>2, <1>3 DEF IInv, T21Consistent
<1> HIDE DEF u
<1>5. QED
  BY <1>1, <1>2, <1>3, <1>4, T21Runs

LEMMA FinalizeT21 ==
  ASSUME IInv, NEW n \in Regular, T21_Finalize(n)
  PROVE  IInv'
<1>1. /\ useful(save, n) /\ save.type[n] = "T21" /\ save' = save
      /\ t21 \in [Regular -> T21Type] /\ out \in OutType
      /\ Returned("finalize", n) /\ UNCHANGED <<t30, io, active>>
  BY CalledNodes DEF IInv, TypeOK, T21_Finalize, Turn, Returned, setup, OutType, T21Type
<1>2. /\ t21[n] \in T21Type /\ out[n] \in [word : optional_word, port : Port]
      /\ t21[n].pc < Len(save.code[n])
      /\ t21[n].s = "write" => WritesPort(Current(n), t21[n])
      /\ out[n].word # word_empty => t21[n].s = "write"
      /\ out[n].port # "nil" => t21[n].s = "write"
      /\ out[n].port = "any" => out[n].word # word_empty
  BY <1>1 DEF OutType, IInv, T21Consistent, AnyHasWord
<1> DEFINE Stays(m) == t21'[m] = t21[m] /\ out'[m] = out[m]
<1>3. /\ t21' \in [Regular -> T21Type] /\ out' \in OutType
      /\ \A m \in Regular \ {n} : Stays(m)
      /\ out'[n].port = "any" => out'[n].word # word_empty
      /\ t21'[n].pc < Len(save.code[n])
      /\ t21'[n].s = "write" => WritesPort(Current(n), t21[n])'
      /\ out'[n].word # word_empty => t21'[n].s = "write"
      /\ out'[n].port # "nil" => t21'[n].s = "write"
  <2>1. CASE t21[n].s # "write" /\ UNCHANGED <<out, t21>>
    BY <1>1, <1>2, <2>1
  <2>2. CASE /\ t21[n].s = "write" /\ out[n].word = word_empty
             /\ t21' = [t21 EXCEPT
                          ![n].last = IF out[n].port # "nil" THEN out[n].port ELSE @,
                          ![n].s = "run",
                          ![n].pc = next(@, Len(save.code[n]))]
             /\ out' = [out EXCEPT ![n].port = "nil"]
    <3> DEFINE pc   == next(t21[n].pc, Len(save.code[n]))
               last == IF out[n].port # "nil" THEN out[n].port ELSE t21[n].last
               u    == [t21[n] EXCEPT !.last = last, !.s = "run", !.pc = pc]
               v    == [out[n] EXCEPT !.port = "nil"]
    <3>1. Len(save.code[n]) \in Nat \ {0} /\ t21[n].pc \in Nat
      BY <1>1, CurrentInstruction
    <3>2. pc \in Nat /\ pc < Len(save.code[n])
      BY <1>2, <3>1, NextPc
    <3>3. last \in Dir \cup {"nil"}
      BY <1>2, <2>2 DEF Port, T21Type
    <3>4. t21' = [t21 EXCEPT ![n] = u] /\ out' = [out EXCEPT ![n] = v]
      BY <1>1, <2>2 DEF T21Type, OutType
    <3> HIDE DEF pc, last
    <3>5. u \in T21Type /\ u.s = "run" /\ u.pc = pc
      BY <1>2, <3>2, <3>3 DEF T21Type, Activity
    <3>6. /\ v \in [word : optional_word, port : Port]
          /\ v.port = "nil" /\ v.word = word_empty
      BY <1>2, <2>2 DEF Port
    <3> HIDE DEF u, v
    <3>7. QED
      BY <1>1, <3>2, <3>4, <3>5, <3>6 DEF OutType
  <2>3. CASE /\ t21[n].s = "write" /\ out[n].word # word_empty
             /\ out' = IF out[n].port # "nil" THEN out
                       ELSE [out EXCEPT ![n].port =
                               IF Current(n).dst = "last" THEN t21[n].last
                               ELSE Current(n).dst]
             /\ UNCHANGED t21
    <3> DEFINE p == IF Current(n).dst = "last" THEN t21[n].last ELSE Current(n).dst
               v == [out[n] EXCEPT !.port = p]
    <3>1. p \in Port
      BY <1>2, <2>3 DEF WritesPort, Port, T21Type
    <3>2. out' = out \/ out' = [out EXCEPT ![n] = v]
      BY <1>1, <2>3 DEF OutType
    <3> HIDE DEF p
    <3>3. /\ v \in [word : optional_word, port : Port] /\ v.word = out[n].word
      BY <1>2, <3>1
    <3> HIDE DEF v
    <3>4. /\ out' \in OutType /\ out'[n].word = out[n].word
          /\ \A m \in Regular \ {n} : out'[m] = out[m]
      BY <1>1, <3>2, <3>3 DEF OutType
    <3>5. QED
      BY <1>1, <1>2, <2>3, <3>4 DEF Current
  <2>4. QED
    BY <2>1, <2>2, <2>3 DEF T21_Finalize
<1>4. TypeOK' /\ Setup'
  BY <1>1, <1>3, CallTypes DEF IInv, TypeOK, io, T30Type, NumericType, ImageType
<1>5. T21Consistent' /\ AnyHasWord'
  <2> SUFFICES ASSUME NEW m \in Regular, save.type[m] = "T21"
      PROVE /\ out'[m].port = "any" => out'[m].word # word_empty
            /\ useful(save, m) =>
                   /\ t21'[m].pc < Len(save.code[m])
                   /\ t21'[m].s = "write" => WritesPort(Current(m), t21[m])'
                   /\ out'[m].word # word_empty => t21'[m].s = "write"
                   /\ out'[m].port # "nil" => t21'[m].s = "write"
    BY <1>1 DEF T21Consistent, AnyHasWord
  <2>1. CASE m = n
    BY <1>3, <2>1
  <2>2. CASE m # n
    <3>1. WritesPort(Current(m), t21[m]) => WritesPort(Current(m), t21[m])'
      BY <1>1, <1>3, <2>2 DEF Current
    <3>2. QED
      BY <1>1, <1>3, <2>2, <3>1 DEF IInv, T21Consistent, AnyHasWord
  <2>3. QED
    BY <2>1, <2>2
<1>6. StackKnowsTop' /\ InputsInRange'
  BY <1>1, <1>3 DEF IInv, InputsInRange, StackKnowsTop, Returned, io
<1>7. QED
  BY <1>4, <1>5, <1>6 DEF IInv

-----------------------------------------------------------------------------
(* The T30                                                                 *)

(* A stack only grows while it takes words in.                             *)
LEMMA PushGrows ==
  ASSUME IInv, NEW n, NEW data \in Seq(Word), NEW d \in Dir
  PROVE  Push(n, data, d) \in Seq(Word) /\ Len(data) <= Len(Push(n, data, d))
<1>1. Len(data) \in Nat
  BY LenProperties
<1>2. CASE Len(data) < T30_size /\ Offers(n, d)
  <2>1. out[Neighbour(n, d)].word \in Word
    BY <1>2, OfferedWord
  <2>2. QED
    BY <1>1, <1>2, <2>1, AppendProperties DEF Push
<1>3. CASE ~(Len(data) < T30_size /\ Offers(n, d))
  BY <1>1, <1>3 DEF Push
<1>4. QED
  BY <1>2, <1>3

LEMMA FillingGrows ==
  ASSUME IInv, NEW n \in Regular
  PROVE  /\ Filling(n).after \in Seq(Word)
         /\ Len(t30[n].data) <= Len(Filling(n).after)
<1> DEFINE l == t30[n].data
           r == Push(n, l, "left")
           u == Push(n, r, "right")
           d == Push(n, u, "up")
           e == Push(n, d, "down")
<1>1. l \in Seq(Word)
  BY DEF IInv, TypeOK
<1>2. Filling(n).after = e
  BY DEF Filling
<1> HIDE DEF l
<1>3. r \in Seq(Word) /\ Len(l) <= Len(r)
  BY <1>1, PushGrows DEF Dir
<1> HIDE DEF r
<1>4. u \in Seq(Word) /\ Len(r) <= Len(u)
  BY <1>3, PushGrows DEF Dir
<1> HIDE DEF u
<1>5. d \in Seq(Word) /\ Len(u) <= Len(d)
  BY <1>4, PushGrows DEF Dir
<1> HIDE DEF d
<1>6. e \in Seq(Word) /\ Len(d) <= Len(e)
  BY <1>5, PushGrows DEF Dir
<1> HIDE DEF e
<1>7. /\ Len(l) \in Nat /\ Len(r) \in Nat /\ Len(u) \in Nat /\ Len(d) \in Nat
      /\ Len(e) \in Nat
  BY <1>1, <1>3, <1>4, <1>5, <1>6, LenProperties
<1>8. Len(l) <= Len(e)
  BY <1>3, <1>4, <1>5, <1>6, <1>7
<1>9. QED
  BY <1>2, <1>6, <1>8 DEF l

(* Taking one word out of a stack.                                         *)
LEMMA EraseProperties ==
  ASSUME NEW S, NEW s \in Seq(S), NEW k \in DOMAIN s
  PROVE  Erase(s, k) \in Seq(S) /\ Len(Erase(s, k)) = Len(s) - 1
<1> DEFINE a == SubSeq(s, 1, k - 1)
           b == SubSeq(s, k + 1, Len(s))
<1>1. Len(s) \in Nat /\ k \in 1 .. Len(s)
  BY LenProperties
<1>2. \A i \in 1 .. Len(s) : s[i] \in S
  BY ElementOfSeq
<1>3. a \in Seq(S) /\ Len(a) = k - 1
  BY <1>1, <1>2, SubSeqProperties
<1>4. b \in Seq(S) /\ Len(b) = Len(s) - k
  BY <1>1, <1>2, SubSeqProperties
<1> HIDE DEF a, b
<1>5. a \o b \in Seq(S) /\ Len(a \o b) = Len(s) - 1
  BY <1>1, <1>3, <1>4, ConcatProperties
<1>6. QED
  BY <1>5 DEF Erase, a, b

LEMMA StepT30 ==
  ASSUME IInv, NEW n \in Regular, T30_Step(n)
  PROVE  IInv'
<1>1. /\ save.type[n] = "T30" /\ save' = save /\ Returned("step", n)
      /\ UNCHANGED <<t21, io, active>>
      /\ t30 \in [Regular -> T30Type]
  BY DEF IInv, TypeOK, T30_Step, Returned, setup, T30Type
<1>2. Pushes(n) \in SUBSET Dir /\ \A d \in Pushes(n) : Offers(n, d)
  BY DEF Pushes
<1>3. /\ out' \in OutType
      /\ \A m \in Regular \cup Inputs : out'[m] = out[m] \/ Emptied(out[m], out'[m])
  BY <1>2, ReadFromEffect DEF T30_Step
<1> DEFINE data == Filling(n).after
           used == t30[n].used \/ Pushes(n) # {}
           st   == [t30[n] EXCEPT !.data = data, !.used = used]
<1>4. data \in Seq(Word) /\ Len(t30[n].data) <= Len(data) /\ used \in BOOLEAN
  BY <1>1, FillingGrows DEF T30Type
<1>5. t30' = [t30 EXCEPT ![n] = st]
  BY <1>1 DEF T30_Step, T30Type
<1> HIDE DEF data, used
<1>6. st \in T30Type /\ st.data = data /\ st.prev_end = t30[n].prev_end
  BY <1>1, <1>4 DEF T30Type
<1> HIDE DEF st
<1>7. t30' \in [Regular -> T30Type] /\ t30'[n] = st
      /\ \A m \in Regular \ {n} : t30'[m] = t30[m]
  BY <1>1, <1>5, <1>6
<1>8. TypeOK' /\ Setup'
  BY <1>1, <1>3, <1>7, CallTypes DEF IInv, TypeOK, io, T21Type, NumericType, ImageType
<1>9. T21Consistent' /\ AnyHasWord'
  <2> SUFFICES ASSUME NEW m \in Regular, save.type[m] = "T21"
      PROVE /\ out'[m].port = "any" => out'[m].word # word_empty
            /\ useful(save, m) =>
                   /\ t21'[m].pc < Len(save.code[m])
                   /\ t21'[m].s = "write" => WritesPort(Current(m), t21[m])'
                   /\ out'[m].word # word_empty => t21'[m].s = "write"
                   /\ out'[m].port # "nil" => t21'[m].s = "write"
    BY <1>1 DEF T21Consistent, AnyHasWord
  <2>1. WritesPort(Current(m), t21[m]) => WritesPort(Current(m), t21[m])'
    BY <1>1 DEF Current
  <2>2. QED
    BY <1>1, <1>3, <2>1, Untouched
<1>10. StackKnowsTop'
  <2> SUFFICES ASSUME NEW m \in Regular, save.type[m] = "T30"
      PROVE  /\ out'[m].port # "any" => out'[m].word = word_empty
             /\ out'[m].port # "any" \/ out'[m].word # word_empty =>
                  t30'[m].prev_end \in DOMAIN t30'[m].data
    BY <1>1 DEF StackKnowsTop
  <2>1. CASE m # n
    <3>1. t30'[m] = t30[m]
      BY <1>7, <2>1
    <3>2. out'[m] = out[m] \/ Emptied(out[m], out'[m])
      BY <1>3
    <3>3. QED
      BY <1>1, <3>1, <3>2, Untouched
  <2>2. CASE m = n
    <3>1. out'[n].port # "any" \/ out'[n].word # word_empty =>
             t30[n].prev_end \in DOMAIN t30[n].data
      BY <1>1, <1>3 DEF IInv, StackKnowsTop, Emptied
    <3>2. t30[n].data \in Seq(Word)
      BY <1>1 DEF T30Type
    <3>3. /\ DOMAIN t30[n].data = 1 .. Len(t30[n].data)
          /\ DOMAIN data = 1 .. Len(data)
          /\ Len(t30[n].data) \in Nat /\ Len(data) \in Nat
      BY <1>4, <3>2, LenProperties
    <3>4. t30[n].prev_end \in DOMAIN t30[n].data => t30'[n].prev_end \in DOMAIN t30'[n].data
      BY <1>4, <1>6, <1>7, <3>3
    <3>5. out'[n].port # "any" => out'[n].word = word_empty
      BY <1>1, <1>3 DEF IInv, StackKnowsTop, Emptied
    <3>6. QED
      BY <2>2, <3>1, <3>4, <3>5
  <2>3. QED
    BY <2>1, <2>2
<1>11. InputsInRange'
  BY <1>1 DEF IInv, InputsInRange, Returned, io
<1>12. QED
  BY <1>8, <1>9, <1>10, <1>11 DEF IInv

LEMMA FinalizeT30 ==
  ASSUME IInv, NEW n \in Regular, T30_Finalize(n)
  PROVE  IInv'
<1> DEFINE popped == out[n].port # "any"
           data   == IF popped THEN Erase(t30[n].data, t30[n].prev_end)
                     ELSE t30[n].data
           top    == PrevEnd(t30[n].prev_end, data)
           word   == IF data = <<>> THEN out[n].word ELSE data[Len(data)]
           st     == [t30[n] EXCEPT !.data = data, !.prev_end = top]
           v      == [word |-> word, port |-> "any"]
<1>1. /\ save.type[n] = "T30" /\ save' = save /\ Returned("finalize", n)
      /\ UNCHANGED <<t21, io, active>>
      /\ t30 \in [Regular -> T30Type] /\ out \in OutType
  BY DEF IInv, TypeOK, T30_Finalize, Returned, setup, T30Type, OutType
<1>2. /\ t30[n].data \in Seq(Word) /\ t30[n].prev_end \in Nat
      /\ out[n].word \in optional_word
      /\ popped => out[n].word = word_empty
      /\ popped \/ out[n].word # word_empty => t30[n].prev_end \in DOMAIN t30[n].data
  BY <1>1 DEF T30Type, OutType, IInv, StackKnowsTop
<1>3. data \in Seq(Word)
  BY <1>2, EraseProperties
<1>4. t30' = [t30 EXCEPT ![n] = st] /\ out' = [out EXCEPT ![n] = v]
  BY <1>1 DEF T30_Finalize, T30Type, OutType
<1>5. data = <<>> => word = word_empty
  BY <1>2
<1> HIDE DEF data
<1>6. Len(data) \in Nat /\ DOMAIN data = 1 .. Len(data)
  BY <1>3, LenProperties
<1>7. data # <<>> => top \in DOMAIN data /\ word \in Word
  <2>1. data # <<>> => Len(data) \in 1 .. Len(data)
    BY <1>3, <1>6, EmptySeq
  <2>2. QED
    BY <1>3, <1>6, <2>1, ElementOfSeq DEF PrevEnd
<1>8. top \in Nat /\ word \in optional_word
  BY <1>2, <1>5, <1>6, <1>7, WordFacts DEF PrevEnd, optional_word
<1> HIDE DEF top, word
<1>9. /\ st \in T30Type /\ st.data = data /\ st.prev_end = top
      /\ v \in [word : optional_word, port : Port] /\ v.word = word /\ v.port = "any"
  BY <1>1, <1>3, <1>8 DEF T30Type, Port
<1> HIDE DEF st, v
<1>10. /\ t30' \in [Regular -> T30Type] /\ out' \in OutType
       /\ t30'[n] = st /\ out'[n] = v
       /\ \A m \in Regular \ {n} : t30'[m] = t30[m] /\ out'[m] = out[m]
  BY <1>1, <1>4, <1>9 DEF OutType
<1>11. TypeOK' /\ Setup'
  BY <1>1, <1>10, CallTypes DEF IInv, TypeOK, io, T21Type, NumericType, ImageType
<1>12. T21Consistent' /\ AnyHasWord'
  <2> SUFFICES ASSUME NEW m \in Regular, save.type[m] = "T21"
      PROVE /\ out'[m].port = "any" => out'[m].word # word_empty
            /\ useful(save, m) =>
                   /\ t21'[m].pc < Len(save.code[m])
                   /\ t21'[m].s = "write" => WritesPort(Current(m), t21[m])'
                   /\ out'[m].word # word_empty => t21'[m].s = "write"
                   /\ out'[m].port # "nil" => t21'[m].s = "write"
    BY <1>1 DEF T21Consistent, AnyHasWord
  <2>1. t21'[m] = t21[m] /\ out'[m] = out[m]
    BY <1>1, <1>10
  <2>2. WritesPort(Current(m), t21[m]) => WritesPort(Current(m), t21[m])'
    BY <1>1 DEF Current
  <2>3. QED
    BY <1>1, <2>1, <2>2, Untouched
<1>13. StackKnowsTop'
  <2> SUFFICES ASSUME NEW m \in Regular, save.type[m] = "T30"
      PROVE  /\ out'[m].port # "any" => out'[m].word = word_empty
             /\ out'[m].port # "any" \/ out'[m].word # word_empty =>
                  t30'[m].prev_end \in DOMAIN t30'[m].data
    BY <1>1 DEF StackKnowsTop
  <2>1. CASE m # n
    BY <1>10, <2>1 DEF IInv, StackKnowsTop
  <2>2. CASE m = n
    BY <1>5, <1>7, <1>9, <1>10, <2>2
  <2>3. QED
    BY <2>1, <2>2
<1>14. InputsInRange'
  BY <1>1 DEF IInv, InputsInRange, Returned, io
<1>15. QED
  BY <1>11, <1>12, <1>13, <1>14 DEF IInv

-----------------------------------------------------------------------------
(* Inputs and outputs                                                      *)

(* What an input or an output does to the other nodes, if anything, is to  *)
(* empty some of them.                                                     *)
LEMMA NodesUntouched ==
  ASSUME IInv, save' = save, UNCHANGED <<t21, t30>>,
         \A m \in Regular : out'[m] = out[m] \/ Emptied(out[m], out'[m])
  PROVE  T21Consistent' /\ AnyHasWord' /\ StackKnowsTop'
<1>1. ASSUME NEW m \in Regular, save.type[m] = "T21"
      PROVE /\ out'[m].port = "any" => out'[m].word # word_empty
            /\ useful(save, m) =>
                   /\ t21'[m].pc < Len(save.code[m])
                   /\ t21'[m].s = "write" => WritesPort(Current(m), t21[m])'
                   /\ out'[m].word # word_empty => t21'[m].s = "write"
                   /\ out'[m].port # "nil" => t21'[m].s = "write"
  <2>1. WritesPort(Current(m), t21[m]) => WritesPort(Current(m), t21[m])'
    BY DEF Current
  <2>2. QED
    BY <1>1, <2>1, Untouched
<1>2. ASSUME NEW m \in Regular, save.type[m] = "T30"
      PROVE  /\ out'[m].port # "any" => out'[m].word = word_empty
             /\ out'[m].port # "any" \/ out'[m].word # word_empty =>
                  t30'[m].prev_end \in DOMAIN t30'[m].data
  BY <1>2, Untouched
<1>3. QED
  BY <1>1, <1>2 DEF T21Consistent, AnyHasWord, StackKnowsTop

(* An output reads from the node above it.                                 *)
LEMMA FeedEmptied ==
  ASSUME IInv, NEW o, Feed(o) \in Regular, CanEmit(Feed(o), "down"),
         out' = [out EXCEPT ![Feed(o)] = Emitted(Feed(o), "down")]
  PROVE  /\ out' \in OutType /\ out[Feed(o)].word \in Word
         /\ \A m \in Regular : out'[m] = out[m] \/ Emptied(out[m], out'[m])
<1>1. out \in OutType /\ "down" \in Dir
  BY DEF IInv, TypeOK, OutType, Dir
<1>2. out[Feed(o)].word \in Word /\ out[Feed(o)].word # word_empty
  BY <1>1, WordFacts DEF OutType, CanEmit
<1>3. /\ Emitted(Feed(o), "down") \in [word : optional_word, port : Port]
      /\ Emptied(out[Feed(o)], Emitted(Feed(o), "down"))
  BY <1>1, <1>2, EmittedType DEF Emptied, Emitted, CanEmit
<1>4. QED
  BY <1>1, <1>2, <1>3 DEF OutType

LEMMA FinalizeInput ==
  ASSUME IInv, NEW i \in Inputs, Input_Finalize(i)
  PROVE  IInv'
<1>1. /\ save' = save /\ test' = test /\ Returned("input", i)
      /\ UNCHANGED <<t21, t30, numeric, image, active>>
      /\ out \in OutType /\ idx \in [Inputs -> Nat]
      /\ test.inputs[i] \in Seq(Word) /\ idx[i] <= Len(test.inputs[i])
  BY DEF IInv, TypeOK, Input_Finalize, Returned, setup, OutType, IsTest, InputsInRange
<1>2. i \notin Regular
  BY DEF Inputs, Regular
<1>3. /\ out' \in OutType /\ idx' \in [Inputs -> Nat]
      /\ idx'[i] <= Len(test.inputs[i])
      /\ \A m \in Regular : out'[m] = out[m]
      /\ \A j \in Inputs \ {i} : idx'[j] = idx[j]
  <2>1. CASE out' = [out EXCEPT ![i].port = "down"] /\ UNCHANGED idx
    <3>1. [out[i] EXCEPT !.port = "down"] \in [word : optional_word, port : Port]
      BY <1>1 DEF OutType, Port, Dir
    <3>2. QED
      BY <1>1, <1>2, <2>1, <3>1 DEF OutType
  <2>2. CASE /\ out' = [out EXCEPT ![i].word = test.inputs[i][idx[i] + 1]]
             /\ idx' = [idx EXCEPT ![i] = @ + 1]
             /\ idx[i] # Len(test.inputs[i])
    <3> DEFINE w == test.inputs[i][idx[i] + 1]
    <3>1. idx[i] + 1 \in 1 .. Len(test.inputs[i])
      BY <1>1, <2>2, LenProperties
    <3>2. w \in optional_word
      BY <1>1, <3>1, ElementOfSeq DEF optional_word
    <3> HIDE DEF w
    <3>3. [out[i] EXCEPT !.word = w] \in [word : optional_word, port : Port]
      <4>1. out[i] \in [word : optional_word, port : Port]
        BY <1>1 DEF OutType
      <4>2. QED
        BY <3>2, <4>1
    <3>4. out' = [out EXCEPT ![i] = [out[i] EXCEPT !.word = w]]
      BY <1>1, <2>2 DEF OutType, w
    <3>5. out' \in OutType /\ \A m \in Regular : out'[m] = out[m]
      BY <1>1, <1>2, <3>3, <3>4 DEF OutType
    <3>6. /\ idx' \in [Inputs -> Nat] /\ idx'[i] = idx[i] + 1
          /\ \A j \in Inputs \ {i} : idx'[j] = idx[j]
      BY <1>1, <2>2
    <3>7. Len(test.inputs[i]) \in Nat
      BY <1>1, LenProperties
    <3>8. QED
      BY <3>1, <3>5, <3>6, <3>7
  <2>3. CASE UNCHANGED <<out, idx>>
    BY <1>1, <2>3
  <2>4. QED
    BY <2>1, <2>2, <2>3 DEF Input_Finalize
<1>4. TypeOK' /\ Setup'
  BY <1>1, <1>3, CallTypes DEF IInv, TypeOK, T21Type, T30Type, NumericType, ImageType
<1>5. T21Consistent' /\ AnyHasWord' /\ StackKnowsTop'
  BY <1>1, <1>3, NodesUntouched
<1>6. InputsInRange'
  BY <1>1, <1>3 DEF IInv, InputsInRange
<1>7. QED
  BY <1>4, <1>5, <1>6 DEF IInv

LEMMA StepNumeric ==
  ASSUME IInv, NEW o \in Numerics, Numeric_Step(o)
  PROVE  IInv'
<1>1. /\ save' = save /\ test' = test /\ Returned("numeric", o)
      /\ UNCHANGED <<t21, t30, idx, image>>
      /\ out \in OutType /\ numeric \in [Numerics -> NumericType]
      /\ Feed(o) \in Regular
  BY CalledNodes DEF IInv, TypeOK, Numeric_Step, Turn, Returned, setup, OutType,
                     NumericType
<1>2. active' \in BOOLEAN
  BY DEF IInv, TypeOK, Numeric_Step, Vote
<1>3. /\ out' \in OutType /\ numeric' \in [Numerics -> NumericType]
      /\ \A m \in Regular : out'[m] = out[m] \/ Emptied(out[m], out'[m])
  <2>1. CASE UNCHANGED <<out, numeric>>
    BY <1>1, <2>1
  <2>2. CASE /\ CanEmit(Feed(o), "down")
             /\ numeric' = [numeric EXCEPT ![o] = Received(o, out[Feed(o)].word)]
             /\ out' = [out EXCEPT ![Feed(o)] = Emitted(Feed(o), "down")]
    <3> DEFINE r == out[Feed(o)].word
               recv == Append(numeric[o].received, r)
    <3>1. /\ out' \in OutType /\ r \in Word
          /\ \A m \in Regular : out'[m] = out[m] \/ Emptied(out[m], out'[m])
      BY <1>1, <2>2, FeedEmptied
    <3>2. recv \in Seq(Word)
      BY <1>1, <3>1, AppendProperties DEF NumericType
    <3>3. numeric[o].wrong \/ Unexpected(o, r) \in BOOLEAN
      BY <1>1 DEF NumericType, Unexpected
    <3>4. Received(o, r) \in NumericType
      BY <3>2, <3>3 DEF Received, NumericType
    <3>5. QED
      BY <1>1, <2>2, <3>1, <3>4
  <2>3. QED
    BY <2>1, <2>2 DEF Numeric_Step
<1>4. TypeOK' /\ Setup'
  BY <1>1, <1>2, <1>3, CallTypes DEF IInv, TypeOK, T21Type, T30Type, ImageType
<1>5. T21Consistent' /\ AnyHasWord' /\ StackKnowsTop'
  BY <1>1, <1>3, NodesUntouched
<1>6. QED
  BY <1>1, <1>4, <1>5 DEF IInv, InputsInRange

(* A word of any value leaves the node well-formed (normalize, poke).      *)
LEMMA StepImage ==
  ASSUME IInv, NEW o \in Images, Image_Step(o)
  PROVE  IInv'
<1>1. /\ save' = save /\ test' = test /\ Returned("image", o)
      /\ UNCHANGED <<t21, t30, idx, numeric>>
      /\ out \in OutType /\ image \in [Images -> ImageType]
      /\ Feed(o) \in Regular
  BY CalledNodes DEF IInv, TypeOK, Image_Step, Turn, Returned, setup, OutType, ImageType
<1> DEFINE reads == CanEmit(Feed(o), "down")
           seen  == IF reads THEN ImageRead(image[o], test.i_outputs[o],
                                            out[Feed(o)].word)
                    ELSE image[o]
<1>2. /\ image' = [image EXCEPT ![o] = seen]
      /\ out' = IF reads THEN [out EXCEPT ![Feed(o)] = Emitted(Feed(o), "down")]
                ELSE out
      /\ active' = (active \/ ~ImageValid(seen))
  BY DEF Image_Step, Vote
<1>3. active' \in BOOLEAN
  BY <1>2 DEF IInv, TypeOK, ImageValid
<1>4. /\ out' \in OutType /\ seen \in ImageType
      /\ \A m \in Regular : out'[m] = out[m] \/ Emptied(out[m], out'[m])
  <2>1. CASE reads
    BY <1>1, <1>2, <2>1, FeedEmptied, ImageReadType, WordFacts
  <2>2. CASE ~reads
    BY <1>1, <1>2, <2>2
  <2>3. QED
    BY <2>1, <2>2
<1>5. image' \in [Images -> ImageType]
  BY <1>1, <1>2, <1>4
<1>6. TypeOK' /\ Setup'
  BY <1>1, <1>3, <1>4, <1>5, CallTypes DEF IInv, TypeOK, T21Type, T30Type, NumericType
<1>7. T21Consistent' /\ AnyHasWord' /\ StackKnowsTop'
  BY <1>1, <1>4, NodesUntouched
<1>8. QED
  BY <1>1, <1>6, <1>7 DEF IInv, InputsInRange

-----------------------------------------------------------------------------
(* A field that has just been given a test                                 *)

(* set_expected makes every member a fresh one.                            *)
LEMMA Fresh ==
  ASSUME NEW f \in Saves, NEW t \in Tests
  PROVE  /\ T21Reset \in T21Type
         /\ \A o \in Numerics : NumericReset(t, o) \in NumericType
         /\ \A o \in Images : ImageReset(t.i_outputs[o]) \in ImageType
         /\ IsSave(f) /\ IsTest(t)
         /\ \A n \in Regular : useful(f, n) /\ f.type[n] = "T21" =>
              0 < Len(f.code[n])
<1>1. IsSave(f) /\ IsTest(t)
  BY FieldAssumption
<1>2. T21Reset \in T21Type
  BY WordFacts DEF T21Reset, T21Type, Activity
<1>3. \A o \in Numerics : NumericReset(t, o) \in NumericType
  BY EmptySeq DEF NumericReset, NumericType
<1>4. \A o \in Images : ImageReset(t.i_outputs[o]) \in ImageType
  BY ImageResetExact
<1>5. \A n \in Regular : useful(f, n) /\ f.type[n] = "T21" => 0 < Len(f.code[n])
  BY <1>1, EmptySeq DEF useful, IsSave
<1>6. QED
  BY <1>1, <1>2, <1>3, <1>4, <1>5

LEMMA ResetNodes ==
  /\ OutReset \in OutType
  /\ \A n \in Regular : OutReset[n].word = word_empty
  /\ \A n \in Regular :
       OutReset[n].port = IF save.type[n] = "T30" THEN "any" ELSE "nil"
<1>1. \A n \in Regular : n \notin Inputs
  BY DEF Regular, Inputs
<1>2. QED
  BY <1>1, WordFacts DEF OutReset, OutType, Port, Dir

LEMMA InitIInv == Init => IInv
<1> SUFFICES ASSUME NEW f \in Saves, NEW t \in Tests, Finalized(f), Loaded(f, t)
    PROVE  IInv
  BY DEF Init
<1>1. /\ save = f /\ test = t /\ out = OutReset
      /\ t21 = [n \in Regular |-> T21Reset]
      /\ Setup
  BY DEF Finalized, Loaded, Setup
<1>2. /\ out \in OutType /\ t21 \in [Regular -> T21Type]
      /\ t30 \in [Regular -> T30Type] /\ idx \in [Inputs -> Nat]
      /\ numeric \in [Numerics -> NumericType] /\ image \in [Images -> ImageType]
  BY <1>1, Fresh, ResetNodes, EmptySeq DEF Loaded, T30Type
<1>3. TypeOK
  BY <1>1, <1>2, Fresh DEF TypeOK, Loaded, Finalized, Links, Linked, OutType, T21Type,
                           T30Type, NumericType, ImageType
<1>4. T21Consistent /\ AnyHasWord /\ StackKnowsTop
  BY <1>1, Fresh, ResetNodes DEF T21Consistent, AnyHasWord, StackKnowsTop, T21Reset
<1>5. InputsInRange
  <2>1. \A i \in Inputs : Len(t.inputs[i]) \in Nat
    BY Fresh, LenProperties DEF IsTest
  <2>2. QED
    BY <1>1, <2>1 DEF InputsInRange, Loaded
<1>6. QED
  BY <1>1, <1>3, <1>4, <1>5 DEF IInv

LEMMA NewTest ==
  ASSUME IInv, NEW t \in Tests, SetExpected(t)
  PROVE  IInv'
<1>1. /\ save' = save /\ test' = t /\ out' = OutReset
      /\ t21' = [n \in Regular |-> T21Reset]
      /\ t30' = [n \in Regular |-> T30Reset(t30[n])]
      /\ Setup' /\ save \in Saves
  BY DEF IInv, SetExpected, Setup, setup
<1>2. \A n \in Regular : T30Reset(t30[n]) \in T30Type
  <2> TAKE n \in Regular
  <2>1. t30[n] \in T30Type
    BY DEF IInv, TypeOK, T30Type
  <2>2. <<>> \in Seq(Word)
    BY EmptySeq
  <2>3. QED
    BY <2>1, <2>2 DEF T30Reset, T30Type
<1>3. /\ out' \in OutType /\ t21' \in [Regular -> T21Type]
      /\ t30' \in [Regular -> T30Type] /\ idx' \in [Inputs -> Nat]
      /\ numeric' \in [Numerics -> NumericType] /\ image' \in [Images -> ImageType]
  BY <1>1, <1>2, Fresh, ResetNodes DEF SetExpected
<1>4. TypeOK'
  BY <1>1, <1>3, Fresh DEF IInv, TypeOK, SetExpected, setup, OutType, T21Type, T30Type,
                           NumericType, ImageType
<1>5. T21Consistent' /\ AnyHasWord' /\ StackKnowsTop'
  BY <1>1, Fresh, ResetNodes DEF T21Consistent, AnyHasWord, StackKnowsTop, T21Reset
<1>6. InputsInRange'
  <2>1. \A i \in Inputs : Len(t.inputs[i]) \in Nat
    BY <1>1, Fresh, LenProperties DEF IsTest
  <2>2. QED
    BY <1>1, <2>1 DEF InputsInRange, SetExpected
<1>7. QED
  BY <1>1, <1>4, <1>5, <1>6 DEF IInv

(* The steps that leave every node alone.                                  *)
LEMMA NodesKept ==
  ASSUME IInv, UNCHANGED <<setup, nodes, io, test>>
  PROVE  /\ Setup' /\ T21Consistent' /\ AnyHasWord' /\ StackKnowsTop' /\ InputsInRange'
<1>1. \A m \in Regular : Current(m)' = Current(m)
  BY DEF Current, setup, nodes
<1>2. T21Consistent'
  BY <1>1 DEF IInv, T21Consistent, setup, nodes
<1>3. QED
  BY <1>2 DEF IInv, Setup, AnyHasWord, StackKnowsTop, InputsInRange, setup, nodes, io

LEMMA Quiet ==
  ASSUME IInv, NextCycle \/ EndRun \/ Signal \/ UNCHANGED vars
  PROVE  IInv'
<1>1. UNCHANGED <<setup, nodes, io, test>>
  BY DEF NextCycle, EndRun, Signal, vars
<1>2. /\ phase' \in {"running", "ended"} /\ todo' \subseteq calls'
      /\ active' \in BOOLEAN /\ cycles' \in Nat /\ validated' \in BOOLEAN
      /\ stop_requested' \in BOOLEAN
  <2> USE DEF IInv, TypeOK, setup, score
  <2>1. CASE NextCycle
    <3>1. cycles' \in Nat
      BY <2>1 DEF NextCycle
    <3>2. active' \in BOOLEAN
      BY <2>1 DEF NextCycle
    <3>3. QED
      BY <2>1, <3>1, <3>2, Zenon DEF NextCycle
  <2>2. CASE EndRun
    <3> DEFINE v == /\ \A o \in Numerics : NumericValid(o)
                    /\ \A o \in Images : ImageValid(image[o])
    <3>1. v \in BOOLEAN
      OBVIOUS
    <3>2. validated' = v
      BY <2>2 DEF EndRun
    <3> HIDE DEF v
    <3>3. QED
      BY <2>2, <3>1, <3>2 DEF EndRun
  <2>3. CASE Signal
    BY <2>3 DEF Signal
  <2>4. CASE UNCHANGED vars
    BY <2>4 DEF vars
  <2>5. QED
    BY <2>1, <2>2, <2>3, <2>4
<1>3. TypeOK'
  BY <1>1, <1>2 DEF IInv, TypeOK, setup, nodes, io
<1>4. QED
  BY <1>1, <1>3, NodesKept DEF IInv

LEMMA NextIInv == IInv /\ [Next]_vars => IInv'
<1> SUFFICES ASSUME IInv, [Next]_vars PROVE IInv'
  OBVIOUS
<1>1. ASSUME NEW n \in Regular, T21_StalledOnWrite(n) PROVE IInv'
  BY <1>1, StalledOnWrite
<1>2. ASSUME NEW n \in Regular, T21_StalledOnRead(n) PROVE IInv'
  BY <1>2, StalledOnRead
<1>3. ASSUME NEW n \in Regular, T21_Compute(n) PROVE IInv'
  BY <1>3, Compute
<1>4. ASSUME NEW n \in Regular, T21_StartWrite(n) PROVE IInv'
  BY <1>4, StartWrite
<1>5. ASSUME NEW n \in Regular, T21_Hcf(n) PROVE IInv'
  BY <1>5, Hcf
<1>6. ASSUME NEW n \in Regular, T21_Finalize(n) PROVE IInv'
  BY <1>6, FinalizeT21
<1>7. ASSUME NEW n \in Regular, T30_Step(n) PROVE IInv'
  BY <1>7, StepT30
<1>8. ASSUME NEW n \in Regular, T30_Finalize(n) PROVE IInv'
  BY <1>8, FinalizeT30
<1>9. ASSUME NEW i \in Inputs, Input_Finalize(i) PROVE IInv'
  BY <1>9, FinalizeInput
<1>10. ASSUME NEW o \in Numerics, Numeric_Step(o) PROVE IInv'
  BY <1>10, StepNumeric
<1>11. ASSUME NEW o \in Images, Image_Step(o) PROVE IInv'
  BY <1>11, StepImage
<1>12. ASSUME NEW t \in Tests, SetExpected(t) PROVE IInv'
  BY <1>12, NewTest
<1>13. ASSUME NextCycle \/ EndRun \/ Signal \/ UNCHANGED vars PROVE IInv'
  BY <1>13, Quiet
<1>14. QED
  BY <1>1, <1>2, <1>3, <1>4, <1>5, <1>6, <1>7, <1>8, <1>9, <1>10, <1>11, <1>12, <1>13
     DEF Next, Handler

-----------------------------------------------------------------------------
(* The inductive invariant holds in every behaviour.                       *)
THEOREM Inductive == Spec => []IInv
BY InitIInv, NextIInv, PTL DEF Spec

(* Type correctness for every layout, program and test: registers, ports,  *)
(* stacks, streams and pictures never leave their ranges, so the sentinel  *)
(* word_empty is never taken for a word (T21, T30 and io handlers).        *)
THEOREM TypeCorrect == Spec => []TypeOK
<1>1. IInv => TypeOK
  BY DEF IInv
<1>2. QED
  BY <1>1, Inductive, PTL

(* A T21 always has a current instruction, and what it offers is the word  *)
(* of the MOV it is waiting in (T21::step, T21::finalize).                 *)
THEOREM T21AlwaysConsistent == Spec => []T21Consistent
<1>1. IInv => T21Consistent
  BY DEF IInv
<1>2. QED
  BY <1>1, Inductive, PTL

-----------------------------------------------------------------------------
(* The inductive invariant of the outputs                                  *)

(* The flags of a numeric output tell what has been received so far.       *)
Tally(s, expected) ==
  /\ Len(s.received) <= Len(expected)
  /\ s.complete <=> Len(s.received) = Len(expected)
  /\ s.wrong <=> \E k \in 1 .. Len(s.received) : s.received[k] # expected[k]

Tallies == \A o \in Numerics : Tally(numeric[o], test.n_outputs[o])

(* An output that has not asked for another cycle has no use for one.      *)
Voted ==
  ~active =>
    /\ \A o \in Numerics \cap linked :
         <<"numeric", o>> \notin todo => numeric[o].complete \/ numeric[o].wrong
    /\ \A o \in Images \cap linked :
         <<"image", o>> \notin todo => ImageValid(image[o])

AllValid ==
  /\ \A o \in Numerics : NumericValid(o)
  /\ \A o \in Images : ImageValid(image[o])

(* How a run that has ended came to its end.                               *)
Concluded ==
  phase = "ended" =>
    /\ validated <=> todo = {} /\ AllValid
    /\ todo = {} /\ ~stop_requested /\ cycles < cycles_limit => ~active

Outputs == WrongPixelsExact /\ Tallies /\ Voted /\ Concluded

VerdictInv == IInv /\ Outputs

-----------------------------------------------------------------------------
(* The outputs' operators                                                  *)

(* Received keeps the tally.                                               *)
LEMMA ReceivedTally ==
  ASSUME IInv, NEW o \in Numerics, Tally(numeric[o], test.n_outputs[o]),
         ~numeric[o].complete, NEW r \in Word
  PROVE  /\ Tally(Received(o, r), test.n_outputs[o])
         /\ Unexpected(o, r) => Received(o, r).wrong
<1> DEFINE s == numeric[o]
           recv == Append(s.received, r)
           e == test.n_outputs[o]
           n == Len(s.received)
<1>1. s.received \in Seq(Word) /\ e \in Seq(Word) /\ s.wrong \in BOOLEAN
  BY DEF IInv, TypeOK, IsTest
<1>2. n \in Nat /\ Len(e) \in Nat /\ n < Len(e)
  BY <1>1, LenProperties DEF Tally
<1>3. /\ Len(recv) = n + 1 /\ recv[n + 1] = r
      /\ \A k \in 1 .. n : recv[k] = s.received[k]
  BY <1>1, AppendProperties
<1>4. /\ Received(o, r).received = recv
      /\ Received(o, r).complete <=> Len(recv) = Len(e)
      /\ Received(o, r).wrong <=> s.wrong \/ r # e[n + 1]
  BY DEF Received, Unexpected
<1>5. s.wrong <=> \E k \in 1 .. n : s.received[k] # e[k]
  BY DEF Tally
<1> HIDE DEF s, recv, e, n
<1>6. (\E k \in 1 .. n + 1 : recv[k] # e[k])
        <=> (\E k \in 1 .. n : recv[k] # e[k]) \/ recv[n + 1] # e[n + 1]
  BY <1>2
<1>7. (\E k \in 1 .. n : recv[k] # e[k]) <=> \E k \in 1 .. n : s.received[k] # e[k]
  BY <1>3
<1>8. Received(o, r).wrong <=> \E k \in 1 .. Len(recv) : recv[k] # e[k]
  BY <1>3, <1>4, <1>5, <1>6, <1>7
<1>9. Tally(Received(o, r), e)
  BY <1>2, <1>3, <1>4, <1>8 DEF Tally
<1>10. Unexpected(o, r) <=> r # e[n + 1]
  BY DEF Unexpected, e, n, s
<1>11. QED
  BY <1>4, <1>9, <1>10 DEF e

LEMMA ResetTally ==
  ASSUME NEW t \in Tests, NEW o \in Numerics
  PROVE  Tally(NumericReset(t, o), t.n_outputs[o])
<1>1. t.n_outputs[o] \in Seq(Word)
  BY FieldAssumption DEF IsTest
<1>2. Len(t.n_outputs[o]) \in Nat /\ (t.n_outputs[o] = <<>> <=> Len(t.n_outputs[o]) = 0)
  BY <1>1, EmptySeq, LenProperties
<1>3. Len(<<>>) = 0
  OBVIOUS
<1>4. /\ NumericReset(t, o).received = <<>> /\ ~NumericReset(t, o).wrong
      /\ NumericReset(t, o).complete <=> t.n_outputs[o] = <<>>
  BY DEF NumericReset
<1>5. QED
  BY <1>2, <1>3, <1>4 DEF Tally

(* The flags are right: valid means everything and nothing else came.      *)
LEMMA ValidMeansReceived ==
  ASSUME VerdictInv
  PROVE  /\ \A o \in Numerics :
              NumericValid(o) <=> numeric[o].received = test.n_outputs[o]
         /\ \A o \in Images :
              ImageValid(image[o]) <=> image[o].image_received = test.i_outputs[o]
<1>1. ASSUME NEW o \in Numerics
      PROVE  NumericValid(o) <=> numeric[o].received = test.n_outputs[o]
  <2> DEFINE s == numeric[o].received
             e == test.n_outputs[o]
  <2>1. s \in Seq(Word) /\ e \in Seq(Word) /\ Tally(numeric[o], e)
    BY DEF VerdictInv, IInv, TypeOK, IsTest, Outputs, Tallies
  <2> HIDE DEF s, e
  <2>2. s = e <=> Len(s) = Len(e) /\ \A k \in 1 .. Len(s) : s[k] = e[k]
    BY <2>1, SeqEqual
  <2>3. NumericValid(o) <=> Len(s) = Len(e) /\ \A k \in 1 .. Len(s) : s[k] = e[k]
    BY <2>1 DEF NumericValid, Tally, s
  <2>4. QED
    BY <2>2, <2>3 DEF s, e
<1>2. ASSUME NEW o \in Images
      PROVE  ImageValid(image[o]) <=> image[o].image_received = test.i_outputs[o]
  <2>1. image[o].image_received \in Picture /\ test.i_outputs[o] \in Picture
    BY DEF VerdictInv, IInv, TypeOK, IsTest
  <2>2. image[o].wrong_pixels =
          Cardinality(Differing(image[o].image_received, test.i_outputs[o]))
    BY DEF VerdictInv, Outputs, WrongPixelsExact
  <2>3. QED
    BY <2>1, <2>2, NoneDiffers DEF ImageValid
<1>3. QED
  BY <1>1, <1>2

(* Every linked output is called in every cycle.                           *)
LEMMA LinkedAreCalled ==
  ASSUME Setup
  PROVE  /\ \A o \in Numerics \cap linked : <<"numeric", o>> \in calls
         /\ \A o \in Images \cap linked : <<"image", o>> \in calls
BY DEF Setup, Calls

-----------------------------------------------------------------------------
(* The steps                                                               *)

(* A call that is no output's leaves all of them as they are.              *)
LEMMA OtherCalls ==
  ASSUME VerdictInv, NEW loop \in {"step", "finalize", "input"}, NEW n,
         Returned(loop, n), phase = "running",
         UNCHANGED <<numeric, image, active>>
  PROVE  Outputs'
<1>1. /\ UNCHANGED <<numeric, image, active, linked, test, phase>>
      /\ todo' = todo \ {<<loop, n>>}
  BY DEF Returned, setup
<1>2. \A o : /\ <<"numeric", o>> \notin todo' => <<"numeric", o>> \notin todo
             /\ <<"image", o>> \notin todo' => <<"image", o>> \notin todo
  BY <1>1
<1>3. WrongPixelsExact' /\ Tallies'
  BY <1>1 DEF VerdictInv, Outputs, WrongPixelsExact, Tallies
<1>4. Voted'
  BY <1>1, <1>2 DEF VerdictInv, Outputs, Voted
<1>5. Concluded'
  BY <1>1 DEF Concluded
<1>6. QED
  BY <1>3, <1>4, <1>5 DEF Outputs

LEMMA NodeCalls ==
  ASSUME VerdictInv, NEW n,
         \/ /\ n \in Regular
            /\ \/ T21_StalledOnWrite(n) \/ T21_StalledOnRead(n)
               \/ T21_Compute(n) \/ T21_StartWrite(n) \/ T21_Finalize(n)
               \/ T30_Step(n) \/ T30_Finalize(n)
         \/ n \in Inputs /\ Input_Finalize(n)
  PROVE  Outputs'
<1>1. /\ phase = "running" /\ UNCHANGED <<numeric, image, active>>
      /\ Returned("step", n) \/ Returned("finalize", n) \/ Returned("input", n)
  BY DEF T21_StalledOnWrite, T21_StalledOnRead, T21_Compute, T21_StartWrite,
         T21_Finalize, T30_Step, T30_Finalize, Input_Finalize, StepT21, Turn, io
<1>2. QED
  BY <1>1, OtherCalls

LEMMA NumericCall ==
  ASSUME VerdictInv, NEW o \in Numerics, Numeric_Step(o)
  PROVE  Outputs'
<1> DEFINE r == out[Feed(o)].word
<1>1. /\ UNCHANGED <<image, linked, test, phase>> /\ phase = "running"
      /\ todo' = todo \ {<<"numeric", o>>}
      /\ numeric \in [Numerics -> NumericType] /\ active \in BOOLEAN
  BY DEF Numeric_Step, Returned, Turn, setup, VerdictInv, IInv, TypeOK, NumericType
<1>2. WrongPixelsExact' /\ Concluded'
  BY <1>1 DEF VerdictInv, Outputs, WrongPixelsExact, Concluded
<1>3. /\ \A p \in Numerics \ {o} : numeric'[p] = numeric[p]
      /\ Tally(numeric'[o], test.n_outputs[o])
      /\ ~active' => ~active /\ (numeric'[o].complete \/ numeric'[o].wrong)
  <2>1. CASE numeric[o].complete /\ Vote(FALSE) /\ numeric' = numeric
    BY <1>1, <2>1 DEF Vote, VerdictInv, Outputs, Tallies
  <2>2. CASE Vote(TRUE) /\ numeric' = numeric
    BY <1>1, <2>2 DEF Vote, VerdictInv, Outputs, Tallies
  <2>3. CASE /\ ~numeric[o].complete /\ CanEmit(Feed(o), "down")
             /\ numeric' = [numeric EXCEPT ![o] = Received(o, r)]
             /\ Vote(~Received(o, r).complete /\ ~(RELEASE /\ Unexpected(o, r)))
    <3>1. r \in Word
      <4>1. Feed(o) \in Regular
        BY CalledNodes DEF VerdictInv, IInv, TypeOK, Numeric_Step, Turn
      <4>2. QED
        BY <2>3, <4>1, WordFacts DEF VerdictInv, IInv, TypeOK, CanEmit
    <3>2. /\ Tally(Received(o, r), test.n_outputs[o])
          /\ Unexpected(o, r) => Received(o, r).wrong
      BY <2>3, <3>1, ReceivedTally DEF VerdictInv, Outputs, Tallies
    <3>3. numeric'[o] = Received(o, r) /\ \A p \in Numerics \ {o} : numeric'[p] = numeric[p]
      BY <1>1, <2>3
    <3>4. QED
      BY <1>1, <2>3, <3>2, <3>3 DEF Vote
  <2>4. QED
    BY <2>1, <2>2, <2>3 DEF Numeric_Step
<1>4. Tallies'
  BY <1>1, <1>3 DEF VerdictInv, Outputs, Tallies
<1>5. Voted'
  <2> SUFFICES ASSUME ~active' PROVE Voted'
    BY DEF Voted
  <2>1. \A p \in Numerics \cap linked :
          <<"numeric", p>> \notin todo' => numeric'[p].complete \/ numeric'[p].wrong
    <3> SUFFICES ASSUME NEW p \in Numerics \cap linked, p # o,
                        <<"numeric", p>> \notin todo'
                 PROVE  numeric'[p].complete \/ numeric'[p].wrong
      BY <1>3
    <3>1. <<"numeric", p>> \notin todo
      BY <1>1
    <3>2. QED
      BY <1>3, <3>1 DEF VerdictInv, Outputs, Voted
  <2>2. \A p \in Images \cap linked :
          <<"image", p>> \notin todo' => ImageValid(image'[p])
    BY <1>1, <1>3 DEF VerdictInv, Outputs, Voted
  <2>3. QED
    BY <1>1, <2>1, <2>2 DEF Voted
<1>6. QED
  BY <1>2, <1>4, <1>5 DEF Outputs

LEMMA ImageCall ==
  ASSUME VerdictInv, NEW o \in Images, Image_Step(o)
  PROVE  Outputs'
<1> DEFINE reads == CanEmit(Feed(o), "down")
           e     == test.i_outputs[o]
           seen  == IF reads THEN ImageRead(image[o], e, out[Feed(o)].word)
                    ELSE image[o]
<1>1. /\ UNCHANGED <<numeric, linked, test, phase>> /\ phase = "running"
      /\ todo' = todo \ {<<"image", o>>}
      /\ image \in [Images -> ImageType] /\ active \in BOOLEAN
      /\ image' = [image EXCEPT ![o] = seen]
      /\ active' = (active \/ ~ImageValid(seen))
  BY DEF Image_Step, Returned, Turn, Vote, setup, VerdictInv, IInv, TypeOK, ImageType
<1>2. Exact(seen, e)
  <2>1. Exact(image[o], e) /\ image[o] \in ImageType
    BY <1>1 DEF VerdictInv, Outputs, WrongPixelsExact, Exact
  <2>2. QED
    BY <2>1, ImageReadExact
<1> HIDE DEF seen, e
<1>3. image'[o] = seen /\ \A p \in Images \ {o} : image'[p] = image[p]
  BY <1>1
<1>4. WrongPixelsExact'
  BY <1>1, <1>2, <1>3 DEF VerdictInv, Outputs, WrongPixelsExact, Exact, e
<1>5. Tallies' /\ Concluded'
  BY <1>1 DEF VerdictInv, Outputs, Tallies, Concluded
<1>6. Voted'
  <2> SUFFICES ASSUME ~active' PROVE Voted'
    BY DEF Voted
  <2>1. ~active /\ ImageValid(seen)
    BY <1>1
  <2>2. \A p \in Images \cap linked :
          <<"image", p>> \notin todo' => ImageValid(image'[p])
    <3> SUFFICES ASSUME NEW p \in Images \cap linked, p # o,
                        <<"image", p>> \notin todo'
                 PROVE  ImageValid(image'[p])
      BY <1>3, <2>1
    <3>1. <<"image", p>> \notin todo
      BY <1>1
    <3>2. QED
      BY <1>3, <2>1, <3>1 DEF VerdictInv, Outputs, Voted
  <2>3. \A p \in Numerics \cap linked :
          <<"numeric", p>> \notin todo' => numeric'[p].complete \/ numeric'[p].wrong
    BY <1>1, <2>1 DEF VerdictInv, Outputs, Voted
  <2>4. QED
    BY <1>1, <2>2, <2>3 DEF Voted
<1>7. QED
  BY <1>4, <1>5, <1>6 DEF Outputs

(* A fresh test: nothing received, everything still to be called.          *)
LEMMA FreshOutputs ==
  ASSUME Setup, NEW t \in Tests,
         numeric = [o \in Numerics |-> NumericReset(t, o)],
         image = [o \in Images |-> ImageReset(t.i_outputs[o])],
         test = t, phase = "running", todo = calls
  PROVE  Outputs
<1>1. WrongPixelsExact
  BY ImageResetExact DEF WrongPixelsExact, Exact
<1>2. Tallies
  BY ResetTally DEF Tallies
<1>3. Voted /\ Concluded
  BY LinkedAreCalled DEF Voted, Concluded
<1>4. QED
  BY <1>1, <1>2, <1>3 DEF Outputs

LEMMA NewTestOutputs ==
  ASSUME VerdictInv, NEW t \in Tests, SetExpected(t)
  PROVE  Outputs'
<1>1. /\ numeric' = [o \in Numerics |-> NumericReset(t, o)]
      /\ image' = [o \in Images |-> ImageReset(t.i_outputs[o])]
      /\ test' = t /\ phase' = "running" /\ todo' = calls
      /\ UNCHANGED <<save, links, linked, calls>>
  BY DEF SetExpected, setup
<1>2. WrongPixelsExact'
  BY <1>1, ImageResetExact DEF WrongPixelsExact, Exact
<1>3. Tallies'
  BY <1>1, ResetTally DEF Tallies
<1>4. Voted' /\ Concluded'
  BY <1>1, LinkedAreCalled DEF Voted, Concluded, VerdictInv, IInv
<1>5. QED
  BY <1>2, <1>3, <1>4 DEF Outputs

(* HCF leaves its own call in todo.                                        *)
LEMMA HcfOutputs ==
  ASSUME VerdictInv, NEW n, T21_Hcf(n)
  PROVE  Outputs'
<1>1. /\ UNCHANGED <<numeric, image, active, linked, test, todo>>
      /\ phase' = "ended" /\ ~validated' /\ todo # {}
  BY DEF T21_Hcf, StepT21, Turn, setup, io
<1>2. QED
  BY <1>1 DEF VerdictInv, Outputs, WrongPixelsExact, Tallies, Voted, Concluded

LEMMA NextCycleOutputs ==
  ASSUME VerdictInv, NextCycle
  PROVE  Outputs'
<1>1. /\ UNCHANGED <<numeric, image, linked, test, phase>>
      /\ phase = "running" /\ todo' = calls
  BY DEF NextCycle, setup, io
<1>2. WrongPixelsExact' /\ Tallies' /\ Concluded'
  BY <1>1 DEF VerdictInv, Outputs, WrongPixelsExact, Tallies, Concluded
<1>3. Voted'
  BY <1>1, LinkedAreCalled DEF Voted, VerdictInv, IInv
<1>4. QED
  BY <1>2, <1>3 DEF Outputs

LEMMA EndRunOutputs ==
  ASSUME VerdictInv, EndRun
  PROVE  Outputs'
<1>1. /\ UNCHANGED <<numeric, image, linked, test, todo, active, cycles,
                     stop_requested>>
      /\ todo = {} /\ ~GoesRound /\ validated' = AllValid
  BY DEF EndRun, setup, io, AllValid
<1>2. WrongPixelsExact' /\ Tallies' /\ Voted'
  BY <1>1 DEF VerdictInv, Outputs, WrongPixelsExact, Tallies, Voted
<1>3. AllValid' <=> AllValid
  BY <1>1 DEF AllValid, NumericValid
<1>4. Concluded'
  BY <1>1, <1>3 DEF Concluded, GoesRound
<1>5. QED
  BY <1>2, <1>4 DEF Outputs

LEMMA SignalOutputs ==
  ASSUME VerdictInv, Signal \/ UNCHANGED vars
  PROVE  Outputs'
<1>1. /\ UNCHANGED <<numeric, image, linked, test, todo, active, cycles,
                     phase, validated>>
      /\ stop_requested => stop_requested'
  BY DEF Signal, vars, setup, io, score
<1>2. WrongPixelsExact' /\ Tallies' /\ Voted'
  BY <1>1 DEF VerdictInv, Outputs, WrongPixelsExact, Tallies, Voted
<1>3. AllValid' <=> AllValid
  BY <1>1 DEF AllValid, NumericValid
<1>4. Concluded'
  BY <1>1, <1>3 DEF VerdictInv, Outputs, Concluded
<1>5. QED
  BY <1>2, <1>4 DEF Outputs

-----------------------------------------------------------------------------
(* The results                                                             *)

LEMMA VerdictInvariant == Spec => []VerdictInv
<1>1. Init => VerdictInv
  <2> SUFFICES ASSUME Init PROVE VerdictInv
    OBVIOUS
  <2>1. IInv
    BY InitIInv
  <2>2. Outputs
    BY <2>1, FreshOutputs DEF Init, Loaded, IInv
  <2>3. QED
    BY <2>1, <2>2 DEF VerdictInv
<1>2. VerdictInv /\ [Next]_vars => VerdictInv'
  <2> SUFFICES ASSUME VerdictInv, [Next]_vars PROVE VerdictInv'
    OBVIOUS
  <2>1. IInv'
    BY NextIInv DEF VerdictInv
  <2>2. ASSUME Handler PROVE Outputs'
    <3>1. ASSUME NEW n \in Regular, T21_Hcf(n) PROVE Outputs'
      BY <3>1, HcfOutputs
    <3>2. ASSUME NEW n \in Regular,
                 \/ T21_StalledOnWrite(n) \/ T21_StalledOnRead(n)
                 \/ T21_Compute(n) \/ T21_StartWrite(n) \/ T21_Finalize(n)
                 \/ T30_Step(n) \/ T30_Finalize(n)
          PROVE  Outputs'
      BY <3>2, NodeCalls
    <3>3. ASSUME NEW i \in Inputs, Input_Finalize(i) PROVE Outputs'
      BY <3>3, NodeCalls
    <3>4. ASSUME NEW o \in Numerics, Numeric_Step(o) PROVE Outputs'
      BY <3>4, NumericCall
    <3>5. ASSUME NEW o \in Images, Image_Step(o) PROVE Outputs'
      BY <3>5, ImageCall
    <3>6. QED
      BY <2>2, <3>1, <3>2, <3>3, <3>4, <3>5 DEF Handler
  <2>3. CASE NextCycle
    BY <2>1, <2>3, NextCycleOutputs DEF VerdictInv
  <2>4. CASE EndRun
    BY <2>1, <2>4, EndRunOutputs DEF VerdictInv
  <2>5. ASSUME NEW t \in Tests, SetExpected(t) PROVE VerdictInv'
    BY <2>1, <2>5, NewTestOutputs DEF VerdictInv
  <2>6. CASE Signal \/ UNCHANGED vars
    BY <2>1, <2>6, SignalOutputs DEF VerdictInv
  <2>7. QED
    BY <2>1, <2>2, <2>3, <2>4, <2>5, <2>6 DEF Next, VerdictInv
<1>3. QED
  BY <1>1, <1>2, PTL DEF Spec

(* The counter of an image output in a field is the number of pixels that  *)
(* differ, for every canvas, program and test (image_output::poke).        *)
THEOREM WrongPixelsAlwaysExact == Spec => []WrongPixelsExact
<1>1. VerdictInv => WrongPixelsExact
  BY DEF VerdictInv, Outputs
<1>2. QED
  BY <1>1, VerdictInvariant, PTL

(* A test is validated exactly when no node caught fire and every output,  *)
(* simulated or dropped, received what it expected: the flags and counters *)
(* that run() consults are a faithful summary of the streams (run, io.hpp).*)
THEOREM VerdictAlwaysExact == Spec => []VerdictExact
<1>1. ASSUME VerdictInv PROVE VerdictExact
  <2>1. phase = "ended" => (validated <=> todo = {} /\ AllValid)
    BY <1>1 DEF VerdictInv, Outputs, Concluded
  <2>2. AllValid <=>
          /\ \A o \in Numerics : numeric[o].received = test.n_outputs[o]
          /\ \A o \in Images : image[o].image_received = test.i_outputs[o]
    BY <1>1, ValidMeansReceived DEF AllValid
  <2>3. QED
    BY <2>1, <2>2 DEF VerdictExact, Burnt
<1>2. QED
  BY <1>1, VerdictInvariant, PTL

(* A run below its limit that was neither stopped nor burnt gives up only  *)
(* when more cycles could not have changed the verdict (run, io.hpp).      *)
THEOREM AlwaysGivesUpForCause == Spec => []GivesUpForCause
<1>1. ASSUME VerdictInv PROVE GivesUpForCause
  <2> SUFFICES ASSUME phase = "ended", todo = {}, ~validated, ~stop_requested,
                      cycles < cycles_limit,
                      \A o \in Numerics : ~numeric[o].wrong
               PROVE  \E o \in (Numerics \cup Images) \ linked :
                        IF o \in Numerics THEN ~NumericValid(o) ELSE ~ImageValid(image[o])
    BY DEF GivesUpForCause, Burnt
  <2>1. ~AllValid /\ ~active
    BY <1>1 DEF VerdictInv, Outputs, Concluded
  <2>2. /\ \A o \in Numerics \cap linked : NumericValid(o)
        /\ \A o \in Images \cap linked : ImageValid(image[o])
    BY <1>1, <2>1 DEF VerdictInv, Outputs, Voted, NumericValid
  <2>3. Numerics \cap Images = {}
    BY LayoutAssumption DEF Numerics, Images
  <2>4. CASE \E o \in Numerics : ~NumericValid(o)
    BY <2>2, <2>4
  <2>5. CASE \E o \in Images : ~ImageValid(image[o])
    BY <2>2, <2>3, <2>5
  <2>6. QED
    BY <2>1, <2>4, <2>5 DEF AllValid
<1>2. QED
  BY <1>1, VerdictInvariant, PTL

-----------------------------------------------------------------------------
(* The inductive invariant of the protocol                                 *)

(* Only a node that is simulated ever waits for a reader.                  *)
WritersCalled ==
  \A n \in Regular : t21[n].s = "write" =>
    save.type[n] = "T21" /\ <<"finalize", n>> \in calls

(* No finalize is over before the last call that may read.                 *)
FinalizeLast ==
  (\E c \in todo : c[1] \in ReadingLoops) =>
    \A n : <<"finalize", n>> \in calls => <<"finalize", n>> \in todo

(* A word that outlives the finalize of its node is open to readers.       *)
OpenAfterFinalize ==
  \A n \in Regular : t21[n].s = "write" /\ <<"finalize", n>> \notin todo =>
    out[n].word # word_empty /\ out[n].port # "nil"

PInv == IInv /\ WritersCalled /\ FinalizeLast /\ OpenAfterFinalize

-----------------------------------------------------------------------------
(* Whose turn it is                                                        *)

LEMMA CallShape ==
  ASSUME Setup, NEW c \in calls
  PROVE  \E loop \in DOMAIN LoopOrder : \E n : c = <<loop, n>> /\ Place(n)
<1> DEFINE sim == regulars_to_sim(save)
           ins == {j \in Inputs : /\ <<Neighbour(j, "down"), "up">> \in Links(save)
                                  /\ Neighbour(j, "down") \in sim}
           nums == Numerics \cap Linked(save)
           imgs == Images \cap Linked(save)
<1>1. calls = {<<loop, n>> : loop \in {"step", "finalize"}, n \in sim}
                \cup {<<"input", i>> : i \in ins}
                \cup {<<"numeric", o>> : o \in nums}
                \cup {<<"image", o>> : o \in imgs}
  BY DEF Setup, Calls
<1>2. sim \subseteq Regular /\ ins \subseteq Inputs
      /\ nums \subseteq Numerics /\ imgs \subseteq Images
  BY DEF regulars_to_sim
<1>3. /\ \A n \in sim \cup ins \cup nums \cup imgs : Place(n)
      /\ {"step", "finalize", "input", "numeric", "image"} \subseteq DOMAIN LoopOrder
  BY <1>2, RegularPlace, IoPlace DEF LoopOrder
<1> HIDE DEF sim, ins, nums, imgs
<1>4. QED
  BY <1>1, <1>3

(* When a node finalizes, nobody will read any more in this cycle.         *)
LEMMA NobodyReads ==
  ASSUME IInv, NEW n \in Regular, Turn("finalize", n)
  PROVE  \A c \in todo : c[1] \notin ReadingLoops
<1> SUFFICES ASSUME NEW c \in todo, c[1] \in ReadingLoops PROVE FALSE
  OBVIOUS
<1>1. PICK loop \in DOMAIN LoopOrder : \E m : c = <<loop, m>> /\ Place(m)
  BY CallShape DEF IInv, TypeOK
<1>2. PICK m : c = <<loop, m>> /\ Place(m)
  BY <1>1
<1>3. loop \in ReadingLoops
  BY <1>2
<1>4. LoopOrder[loop] < LoopOrder["finalize"] /\ "finalize" \in DOMAIN LoopOrder
  BY <1>3 DEF ReadingLoops, LoopOrder
<1>5. /\ CallOrder(c) < CallOrder(<<"finalize", n>>)
      /\ CallOrder(c) \in Int /\ CallOrder(<<"finalize", n>>) \in Int
  BY <1>2, <1>4, RegularPlace, LoopsInOrder
<1>6. CallOrder(<<"finalize", n>>) <= CallOrder(c)
  BY DEF Turn
<1>7. QED
  BY <1>5, <1>6

(* When an input's turn comes, every node has stepped.                     *)
LEMMA NobodySteps ==
  ASSUME IInv, NEW i \in Inputs, Turn("input", i), NEW n \in Regular
  PROVE  <<"step", n>> \notin todo
<1> SUFFICES ASSUME <<"step", n>> \in todo PROVE FALSE
  OBVIOUS
<1>1. LoopOrder["step"] < LoopOrder["input"] /\ {"step", "input"} \subseteq DOMAIN LoopOrder
  BY DEF LoopOrder
<1>2. /\ CallOrder(<<"step", n>>) < CallOrder(<<"input", i>>)
      /\ CallOrder(<<"step", n>>) \in Int /\ CallOrder(<<"input", i>>) \in Int
  BY <1>1, RegularPlace, IoPlace, LoopsInOrder
<1>3. CallOrder(<<"input", i>>) <= CallOrder(<<"step", n>>)
  BY DEF Turn
<1>4. QED
  BY <1>2, <1>3

(* A call that may read comes before all the finalizes, and leaves them.   *)
LEMMA FinalizesAhead ==
  ASSUME PInv, NEW loop \in ReadingLoops, NEW n, Turn(loop, n),
         calls' = calls, todo' = todo \/ todo' = todo \ {<<loop, n>>}
  PROVE  /\ FinalizeLast'
         /\ \A m : <<"finalize", m>> \in calls =>
              <<"finalize", m>> \in todo /\ <<"finalize", m>> \in todo'
         /\ halfBar = "step"
<1>1. <<loop, n>> \in todo /\ <<loop, n>>[1] \in ReadingLoops
  BY DEF Turn
<1>2. \A m : <<"finalize", m>> \in calls => <<"finalize", m>> \in todo
  BY <1>1 DEF PInv, FinalizeLast
<1>3. \A m : <<"finalize", m>> # <<loop, n>>
  BY DEF ReadingLoops
<1>4. \A m : <<"finalize", m>> \in calls => <<"finalize", m>> \in todo'
  BY <1>2, <1>3
<1>5. FinalizeLast'
  BY <1>4 DEF FinalizeLast
<1>6. halfBar = "step"
  BY <1>1 DEF halfBar
<1>7. QED
  BY <1>2, <1>4, <1>5, <1>6

-----------------------------------------------------------------------------
(* What a call does to a node                                              *)

(* Nothing that its neighbours could notice.                               *)
Undisturbed(m) ==
  /\ out'[m] = out[m] /\ t21'[m].last = t21[m].last
  /\ t21'[m].s = "write" <=> t21[m].s = "write"

(* Its word is taken.                                                      *)
LosesWord(m) == Emptied(out[m], out'[m]) /\ t21'[m] = t21[m]

(* It runs an instruction, which may leave a word without a port.          *)
Runs(m) ==
  /\ t21[m].s # "write" /\ out'[m].port = "nil"
  /\ t21'[m].last \in Dir \cup {t21[m].last}
  /\ t21'[m].s = "write" =>
       /\ out'[m].word \in Word
       /\ save.type[m] = "T21" /\ <<"finalize", m>> \in calls

Affected(m) == Undisturbed(m) \/ LosesWord(m) \/ Runs(m)

(* The instructions: what is read loses its word, the reader runs.         *)
LEMMA RunEffect ==
  ASSUME PInv, NEW n \in Regular, T21_Compute(n) \/ T21_StartWrite(n)
  PROVE  /\ \A m \in Regular : Affected(m)
         /\ \A m \in Inputs : out'[m] = out[m] \/ Emptied(out[m], out'[m])
<1> DEFINE after == ReadFrom(n, Source(n))
           w == T21_StartWrite(n)
<1>1. /\ StepT21(n) /\ t21[n].s # "write" /\ ~Blocked(n) /\ IInv
      /\ t21 \in [Regular -> T21Type]
  BY DEF PInv, IInv, TypeOK, T21_Compute, T21_StartWrite, T21Type
<1>2. /\ after \in OutType
      /\ \A m \in Regular \cup Inputs : after[m] = out[m] \/ Emptied(out[m], after[m])
  BY <1>1, ReadCompletes, ReadFromEffect
<1>3. /\ save.type[n] = "T21" /\ useful(save, n)
      /\ out[n].word = word_empty /\ out[n].port = "nil"
      /\ <<"finalize", n>> \in calls
  BY <1>1, ReadCompletes, BothLoops DEF IInv, TypeOK, T21Consistent, StepT21, Turn
<1>4. after[n] = out[n]
  BY <1>2, <1>3 DEF Emptied
<1>5. /\ \A m \in Regular \ {n} : t21'[m] = t21[m]
      /\ t21'[n].last \in Dir \cup {t21[n].last}
      /\ t21'[n].s = "write" => w
  <2>1. Fetched(n).last \in Dir \cup {t21[n].last} /\ Fetched(n).s = "run"
    <3>1. Current(n).src = "any" => (CHOOSE d \in Source(n) : TRUE) \in Dir
      BY <1>1, AnyFindsSource, ReadCompletes
    <3>2. QED
      BY <1>1, <3>1 DEF Fetched, T21Type
  <2>2. Fetched(n) \in T21Type
    BY <1>1, ReadCompletes
  <2>3. CASE T21_Compute(n)
    BY <1>1, <2>1, <2>2, <2>3 DEF T21_Compute, T21Type
  <2>4. CASE T21_StartWrite(n)
    BY <1>1, <2>1, <2>2, <2>4 DEF T21_StartWrite, T21Type
  <2>5. QED
    BY <2>3, <2>4
<1> HIDE DEF after
<1>6. /\ \A m \in (Regular \cup Inputs) \ {n} : out'[m] = after[m]
      /\ out'[n].port = "nil"
      /\ w => out'[n].word \in Word
  <2>1. CASE T21_Compute(n)
    <3>1. out' = after
      BY <2>1 DEF T21_Compute, after
    <3>2. ~w
      BY <2>1 DEF T21_Compute, T21_StartWrite
    <3>3. QED
      BY <1>3, <1>4, <3>1, <3>2
  <2>2. CASE T21_StartWrite(n)
    <3>1. out' = [after EXCEPT ![n] = WordSet(n)]
      BY <2>2 DEF T21_StartWrite, after
    <3>2. WordSet(n).port = "nil" /\ WordSet(n).word = Operand(n)
      BY <1>1, <1>3 DEF WordSet, IInv, TypeOK
    <3>3. Operand(n) \in Word
      BY <1>1, <2>2, ReadCompletes DEF T21_StartWrite, WritesPort, Jumps
    <3>4. QED
      BY <1>2, <3>1, <3>2, <3>3 DEF OutType
  <2>3. QED
    BY <2>1, <2>2
<1> HIDE DEF w
<1>7. Runs(n)
  BY <1>1, <1>3, <1>5, <1>6 DEF Runs
<1>8. \A m \in Regular \ {n} : Undisturbed(m) \/ LosesWord(m)
  BY <1>2, <1>5, <1>6 DEF Undisturbed, LosesWord
<1>9. \A m \in Inputs : m # n
  BY DEF Inputs, Regular
<1>10. QED
  BY <1>2, <1>6, <1>7, <1>8, <1>9 DEF Affected

(* The other calls of the step loop.                                       *)
LEMMA StallEffect ==
  ASSUME PInv, NEW n \in Regular,
         T21_StalledOnWrite(n) \/ T21_StalledOnRead(n) \/ T21_Hcf(n)
  PROVE  /\ \A m \in Regular : Undisturbed(m)
         /\ out' = out
<1>1. t21 \in [Regular -> T21Type]
  BY DEF PInv, IInv, TypeOK, T21Type
<1>2. out' = out /\ \A m \in Regular \ {n} : t21'[m] = t21[m]
  BY <1>1 DEF T21_StalledOnWrite, T21_StalledOnRead, T21_Hcf, nodes
<1>3. t21'[n].last = t21[n].last /\ (t21'[n].s = "write" <=> t21[n].s = "write")
  <2>1. CASE T21_StalledOnWrite(n)
    BY <2>1 DEF T21_StalledOnWrite, nodes
  <2>2. CASE T21_StalledOnRead(n)
    BY <1>1, <2>2 DEF T21_StalledOnRead, T21Type
  <2>3. CASE T21_Hcf(n)
    BY <1>1, <2>3 DEF T21_Hcf, T21Type
  <2>4. QED
    BY <2>1, <2>2, <2>3
<1>4. QED
  BY <1>2, <1>3 DEF Undisturbed

LEMMA PushEffect ==
  ASSUME PInv, NEW n \in Regular, T30_Step(n)
  PROVE  /\ \A m \in Regular : Affected(m)
         /\ \A m \in Inputs : out'[m] = out[m] \/ Emptied(out[m], out'[m])
<1>1. out' = ReadFrom(n, Pushes(n)) /\ t21' = t21
  BY DEF T30_Step
<1>2. Pushes(n) \in SUBSET Dir /\ \A d \in Pushes(n) : Offers(n, d)
  BY DEF Pushes
<1>3. \A m \in Regular \cup Inputs : out'[m] = out[m] \/ Emptied(out[m], out'[m])
  BY <1>1, <1>2, ReadFromEffect DEF PInv
<1>4. QED
  BY <1>1, <1>3 DEF Affected, Undisturbed, LosesWord

(* The calls of the input and output loops.                                *)
LEMMA InputEffect ==
  ASSUME PInv, NEW i \in Inputs, Input_Finalize(i)
  PROVE  \A m \in Regular : Undisturbed(m)
<1>1. \A m \in Regular : m # i
  BY DEF Inputs, Regular
<1>2. out \in OutType
  BY DEF PInv, IInv, TypeOK, OutType
<1>3. t21' = t21 /\ \A m \in Regular : out'[m] = out[m]
  BY <1>1, <1>2 DEF Input_Finalize, OutType
<1>4. QED
  BY <1>3 DEF Undisturbed

LEMMA OutputEffect ==
  ASSUME PInv, NEW o,
         (o \in Numerics /\ Numeric_Step(o)) \/ (o \in Images /\ Image_Step(o))
  PROVE  /\ \A m \in Regular : Affected(m)
         /\ \A m \in Inputs : out'[m] = out[m]
<1>1. Feed(o) \in Regular
  BY CalledNodes DEF PInv, IInv, TypeOK, Numeric_Step, Image_Step, Turn
<1>2. /\ t21' = t21
      /\ \/ out' = out
         \/ /\ CanEmit(Feed(o), "down")
            /\ out' = [out EXCEPT ![Feed(o)] = Emitted(Feed(o), "down")]
  BY DEF Numeric_Step, Image_Step
<1>3. \A m \in Regular : out'[m] = out[m] \/ Emptied(out[m], out'[m])
  BY <1>1, <1>2, FeedEmptied DEF PInv
<1>4. \A m \in Inputs : out'[m] = out[m]
  <2>1. Feed(o) \notin Inputs
    BY <1>1 DEF Inputs, Regular
  <2>2. out \in OutType
    BY DEF PInv, IInv, TypeOK, OutType
  <2>3. QED
    BY <1>2, <2>1, <2>2 DEF OutType
<1>5. QED
  BY <1>2, <1>3, <1>4 DEF Affected, Undisturbed, LosesWord

(* The finalize of a programmable node publishes its word, or lets it go   *)
(* on once the word is gone.                                               *)
LEMMA FinalizeEffect ==
  ASSUME PInv, NEW n \in Regular, T21_Finalize(n)
  PROVE  /\ \A m \in (Regular \cup Inputs) \ {n} : out'[m] = out[m]
         /\ \A m \in Regular \ {n} : t21'[m] = t21[m]
         /\ \/ /\ out'[n] = out[n] /\ t21'[n] = t21[n]
               /\ t21[n].s = "write" =>
                    out[n].word # word_empty /\ out[n].port # "nil"
            \/ /\ t21[n].s = "write" /\ t21'[n].s = "write"
               /\ out[n].word # word_empty /\ out[n].port = "nil"
               /\ out'[n].word = out[n].word /\ out'[n].port \in Dir \cup {"any"}
               /\ t21'[n].last = t21[n].last
            \/ /\ t21[n].s = "write" /\ t21'[n].s # "write"
               /\ out[n].word = word_empty
               /\ t21'[n].last = IF out[n].port = "nil" THEN t21[n].last
                                 ELSE out[n].port
<1>1. t21 \in [Regular -> T21Type] /\ out \in OutType
  BY DEF PInv, IInv, TypeOK, T21Type, OutType
<1>2. save.type[n] = "T21" /\ useful(save, n)
  BY CalledNodes DEF PInv, IInv, TypeOK, T21_Finalize, Turn
<1>3. CASE t21[n].s # "write" /\ UNCHANGED <<out, t21>>
  BY <1>3
<1>4. CASE /\ t21[n].s = "write" /\ out[n].word = word_empty
           /\ t21' = [t21 EXCEPT
                        ![n].last = IF out[n].port # "nil" THEN out[n].port ELSE @,
                        ![n].s = "run",
                        ![n].pc = next(@, Len(save.code[n]))]
           /\ out' = [out EXCEPT ![n].port = "nil"]
  BY <1>1, <1>4 DEF T21Type, OutType
<1>5. CASE /\ t21[n].s = "write" /\ out[n].word # word_empty
           /\ out' = IF out[n].port # "nil" THEN out
                     ELSE [out EXCEPT ![n].port =
                             IF Current(n).dst = "last" THEN t21[n].last
                             ELSE Current(n).dst]
           /\ UNCHANGED t21
  <2>1. CASE out[n].port # "nil"
    BY <1>5, <2>1
  <2>2. CASE out[n].port = "nil"
    <3>1. WritesPort(Current(n), t21[n]) /\ t21[n].last \in Dir \cup {"nil"}
      BY <1>1, <1>2, <1>5 DEF PInv, IInv, T21Consistent, T21Type
    <3>2. (IF Current(n).dst = "last" THEN t21[n].last ELSE Current(n).dst)
            \in Dir \cup {"any"}
      BY <3>1 DEF WritesPort, Dir
    <3>3. QED
      BY <1>1, <1>5, <2>2, <3>2 DEF OutType
  <2>3. QED
    BY <2>1, <2>2
<1>6. QED
  BY <1>3, <1>4, <1>5 DEF T21_Finalize

LEMMA StackFinalizeEffect ==
  ASSUME PInv, NEW n \in Regular, T30_Finalize(n)
  PROVE  /\ t21' = t21 /\ t21[n].s # "write"
         /\ \A m \in Regular \ {n} : out'[m] = out[m]
<1>1. out \in OutType
  BY DEF PInv, IInv, TypeOK, OutType
<1>2. QED
  BY <1>1 DEF PInv, WritersCalled, T30_Finalize, OutType

-----------------------------------------------------------------------------
(* The calls of the first four loops, which may read, and of the last.     *)

ReadingCall ==
  \/ \E n \in Regular :
       \/ T21_StalledOnWrite(n) \/ T21_StalledOnRead(n)
       \/ T21_Compute(n) \/ T21_StartWrite(n) \/ T21_Hcf(n) \/ T30_Step(n)
  \/ \E i \in Inputs : Input_Finalize(i)
  \/ \E o \in Numerics : Numeric_Step(o)
  \/ \E o \in Images : Image_Step(o)

FinalizeCall(n) == T21_Finalize(n) \/ T30_Finalize(n)

LEMMA ReadingEffect ==
  ASSUME PInv, ReadingCall
  PROVE  /\ UNCHANGED setup
         /\ \A m \in Regular : Affected(m)
         /\ FinalizeLast'
         /\ \A m : <<"finalize", m>> \in calls =>
              <<"finalize", m>> \in todo /\ <<"finalize", m>> \in todo'
         /\ halfBar = "step"
<1> DEFINE Goal == /\ UNCHANGED setup
                   /\ \A m \in Regular : Affected(m)
                   /\ \E loop \in ReadingLoops : \E n :
                        /\ Turn(loop, n)
                        /\ todo' = todo \/ todo' = todo \ {<<loop, n>>}
<1>1. ASSUME NEW n \in Regular,
             T21_StalledOnWrite(n) \/ T21_StalledOnRead(n) \/ T21_Hcf(n)
      PROVE  Goal
  <2>1. \A m \in Regular : Affected(m)
    BY <1>1, StallEffect DEF Affected
  <2>2. QED
    BY <1>1, <2>1 DEF T21_StalledOnWrite, T21_StalledOnRead, T21_Hcf, StepT21,
                      Returned, ReadingLoops
<1>2. ASSUME NEW n \in Regular, T21_Compute(n) \/ T21_StartWrite(n) PROVE Goal
  <2>1. \A m \in Regular : Affected(m)
    BY <1>2, RunEffect
  <2>2. QED
    BY <1>2, <2>1 DEF T21_Compute, T21_StartWrite, StepT21, Returned, ReadingLoops
<1>3. ASSUME NEW n \in Regular, T30_Step(n) PROVE Goal
  <2>1. \A m \in Regular : Affected(m)
    BY <1>3, PushEffect
  <2>2. QED
    BY <1>3, <2>1 DEF T30_Step, Returned, ReadingLoops
<1>4. ASSUME NEW i \in Inputs, Input_Finalize(i) PROVE Goal
  <2>1. \A m \in Regular : Affected(m)
    BY <1>4, InputEffect DEF Affected
  <2>2. QED
    BY <1>4, <2>1 DEF Input_Finalize, Returned, ReadingLoops
<1>5. ASSUME NEW o,
             (o \in Numerics /\ Numeric_Step(o)) \/ (o \in Images /\ Image_Step(o))
      PROVE  Goal
  <2>1. \A m \in Regular : Affected(m)
    BY <1>5, OutputEffect
  <2>2. QED
    BY <1>5, <2>1 DEF Numeric_Step, Image_Step, Returned, ReadingLoops
<1>6. Goal
  <2> HIDE DEF Goal
  <2>1. QED
    BY <1>1, <1>2, <1>3, <1>4, <1>5 DEF ReadingCall
<1>7. PICK loop \in ReadingLoops : \E n :
        Turn(loop, n) /\ (todo' = todo \/ todo' = todo \ {<<loop, n>>})
  BY <1>6
<1>8. PICK n : Turn(loop, n) /\ (todo' = todo \/ todo' = todo \ {<<loop, n>>})
  BY <1>7
<1>9. calls' = calls
  BY <1>6 DEF setup
<1>10. QED
  BY <1>6, <1>8, <1>9, FinalizesAhead

LEMMA ReadingKeeps ==
  ASSUME PInv, ReadingCall
  PROVE  WritersCalled' /\ FinalizeLast' /\ OpenAfterFinalize'
<1>1. calls' = calls /\ save' = save /\ FinalizeLast'
  BY ReadingEffect DEF setup
<1>2. WritersCalled'
  <2> SUFFICES ASSUME NEW m \in Regular, t21'[m].s = "write"
               PROVE  save.type[m] = "T21" /\ <<"finalize", m>> \in calls
    BY <1>1 DEF WritersCalled
  <2>1. Undisturbed(m) \/ LosesWord(m) \/ Runs(m)
    BY ReadingEffect DEF Affected
  <2>2. QED
    BY <2>1 DEF Undisturbed, LosesWord, Runs, PInv, WritersCalled
<1>3. OpenAfterFinalize'
  BY <1>1, <1>2, ReadingEffect DEF WritersCalled, OpenAfterFinalize
<1>4. QED
  BY <1>1, <1>2, <1>3

LEMMA FinalizeKeeps ==
  ASSUME PInv, NEW n \in Regular, FinalizeCall(n)
  PROVE  WritersCalled' /\ FinalizeLast' /\ OpenAfterFinalize'
<1>1. /\ Turn("finalize", n) /\ todo' = todo \ {<<"finalize", n>>}
      /\ calls' = calls /\ save' = save
  BY DEF FinalizeCall, T21_Finalize, T30_Finalize, Returned, setup
<1>2. FinalizeLast'
  BY <1>1, NobodyReads DEF FinalizeLast, PInv
<1>3. \A m \in Regular \ {n} : out'[m] = out[m] /\ t21'[m].s = t21[m].s
  BY FinalizeEffect, StackFinalizeEffect DEF FinalizeCall
<1>4. t21'[n].s = "write" =>
        t21[n].s = "write" /\ out'[n].word # word_empty /\ out'[n].port # "nil"
  BY FinalizeEffect, StackFinalizeEffect DEF FinalizeCall, Dir
<1>5. WritersCalled'
  BY <1>1, <1>3, <1>4 DEF PInv, WritersCalled
<1>6. OpenAfterFinalize'
  <2> SUFFICES ASSUME NEW m \in Regular, t21'[m].s = "write",
                      <<"finalize", m>> \notin todo'
               PROVE  out'[m].word # word_empty /\ out'[m].port # "nil"
    BY DEF OpenAfterFinalize
  <2>1. CASE m = n
    BY <1>4, <2>1
  <2>2. CASE m # n
    BY <1>1, <1>3, <2>2 DEF PInv, OpenAfterFinalize
  <2>3. QED
    BY <2>1, <2>2
<1>7. QED
  BY <1>2, <1>5, <1>6

(* Between two cycles every writer will be called again; a new test starts *)
(* with nobody writing.                                                    *)
LEMMA RestKeeps ==
  ASSUME PInv,
         \/ NextCycle \/ EndRun \/ Signal \/ UNCHANGED vars
         \/ \E t \in Tests : SetExpected(t)
  PROVE  WritersCalled' /\ FinalizeLast' /\ OpenAfterFinalize'
<1>1. CASE EndRun \/ Signal \/ UNCHANGED vars
  <2>1. UNCHANGED <<save, calls, todo, out, t21>>
    BY <1>1 DEF EndRun, Signal, vars, setup, nodes
  <2>2. QED
    BY <2>1 DEF PInv, WritersCalled, FinalizeLast, OpenAfterFinalize
<1>2. CASE NextCycle
  <2>1. todo' = calls /\ UNCHANGED <<save, calls, out, t21>>
    BY <1>2 DEF NextCycle, setup, nodes
  <2>2. QED
    BY <2>1 DEF PInv, WritersCalled, FinalizeLast, OpenAfterFinalize
<1>3. CASE \E t \in Tests : SetExpected(t)
  <2>1. /\ todo' = calls /\ calls' = calls
        /\ t21' = [n \in Regular |-> T21Reset]
    BY <1>3 DEF SetExpected, setup
  <2>2. \A n \in Regular : t21'[n].s # "write"
    BY <2>1 DEF T21Reset
  <2>3. QED
    BY <2>1, <2>2 DEF WritersCalled, FinalizeLast, OpenAfterFinalize
<1>4. QED
  BY <1>1, <1>2, <1>3

LEMMA NextSplit ==
  ASSUME [Next]_vars
  PROVE  \/ ReadingCall
         \/ \E n \in Regular : FinalizeCall(n)
         \/ NextCycle \/ EndRun \/ Signal \/ UNCHANGED vars
         \/ \E t \in Tests : SetExpected(t)
BY DEF Next, Handler, ReadingCall, FinalizeCall

LEMMA InitPInv == Init => PInv
<1> SUFFICES ASSUME NEW f \in Saves, NEW t \in Tests, Finalized(f), Loaded(f, t)
             PROVE  PInv
  BY DEF Init
<1>1. IInv
  BY InitIInv DEF Init
<1>2. todo = calls /\ \A n \in Regular : t21[n].s # "write"
  BY DEF Loaded, T21Reset
<1>3. QED
  BY <1>1, <1>2 DEF PInv, WritersCalled, FinalizeLast, OpenAfterFinalize

LEMMA NextPInv == PInv /\ [Next]_vars => PInv'
<1> SUFFICES ASSUME PInv, [Next]_vars PROVE PInv'
  OBVIOUS
<1>1. IInv'
  BY NextIInv DEF PInv
<1>2. WritersCalled' /\ FinalizeLast' /\ OpenAfterFinalize'
  BY NextSplit, ReadingKeeps, FinalizeKeeps, RestKeeps
<1>3. QED
  BY <1>1, <1>2 DEF PInv

LEMMA AlwaysPInv == Spec => []PInv
BY InitPInv, NextPInv, PTL DEF Spec
-----------------------------------------------------------------------------
(* One cycle's delay                                                       *)

(* No word becomes readable by losing it, or before it has its port.       *)
LEMMA NoNewOffer ==
  ASSUME NEW m, NEW p \in Dir, CanEmit(m, p)',
         out'[m] = out[m] \/ Emptied(out[m], out'[m]) \/ out'[m].port = "nil"
  PROVE  CanEmit(m, p)
BY DEF CanEmit, Emptied, Dir

Delayed ==
  /\ \A l \in links :
       Offers(l[1], l[2])' /\ ~Offers(l[1], l[2]) => <<"step", l[1]>> \notin todo'
  /\ \A o \in linked :
       CanEmit(Feed(o), "down")' /\ ~CanEmit(Feed(o), "down") =>
         {<<"numeric", o>>, <<"image", o>>} \cap todo' = {}

(* Links lead to nodes with a word, from nodes that step; outputs are fed  *)
(* by regular nodes.                                                       *)
LEMMA LinkEnds ==
  ASSUME Setup
  PROVE  /\ \A l \in links : /\ l[1] \in Regular /\ invert[l[2]] \in Dir
                             /\ Neighbour(l[1], l[2]) \in Regular \cup Inputs
         /\ \A o \in linked : Feed(o) \in Regular
<1>1. ASSUME NEW l \in links
      PROVE  /\ l[1] \in Regular /\ invert[l[2]] \in Dir
             /\ Neighbour(l[1], l[2]) \in Regular \cup Inputs
  <2>1. PICK n \in Regular, d \in Dir : l = <<n, d>>
    BY DEF Setup, Links, Slots
  <2>2. QED
    BY <2>1, LinkTarget, InvertDir
<1>2. \A o \in linked : Feed(o) \in Regular
  BY DEF Setup, Linked, useful, Feed
<1>3. QED
  BY <1>1, <1>2

(* A step in which nothing becomes readable delays nothing.                *)
LEMMA NothingNew ==
  ASSUME Setup, UNCHANGED links,
         \A m \in Regular \cup Inputs, p \in Dir : CanEmit(m, p)' => CanEmit(m, p)
  PROVE  Delayed
<1>1. \A l \in links : Offers(l[1], l[2])' => Offers(l[1], l[2])
  BY LinkEnds DEF Offers
<1>2. \A o \in linked : CanEmit(Feed(o), "down")' => CanEmit(Feed(o), "down")
  BY LinkEnds DEF Dir
<1>3. QED
  BY <1>1, <1>2 DEF Delayed

LEMMA ReadingDelays ==
  ASSUME PInv, ReadingCall
  PROVE  Delayed
<1>1. Setup /\ UNCHANGED links
  BY ReadingEffect DEF PInv, IInv, setup
<1>2. ASSUME \A m \in Regular : Affected(m),
             \A m \in Inputs : out'[m] = out[m] \/ Emptied(out[m], out'[m])
      PROVE  Delayed
  <2>1. \A m \in Regular \cup Inputs :
          out'[m] = out[m] \/ Emptied(out[m], out'[m]) \/ out'[m].port = "nil"
    BY <1>2 DEF Affected, Undisturbed, LosesWord, Runs
  <2>2. QED
    BY <1>1, <2>1, NoNewOffer, NothingNew
<1>3. CASE \E n \in Regular :
             T21_StalledOnWrite(n) \/ T21_StalledOnRead(n) \/ T21_Hcf(n)
  BY <1>2, <1>3, StallEffect DEF Affected
<1>4. CASE \E n \in Regular : T21_Compute(n) \/ T21_StartWrite(n)
  BY <1>2, <1>4, RunEffect
<1>5. CASE \E n \in Regular : T30_Step(n)
  BY <1>2, <1>5, PushEffect
<1>6. CASE \E o : (o \in Numerics /\ Numeric_Step(o)) \/ (o \in Images /\ Image_Step(o))
  BY <1>2, <1>6, OutputEffect
<1>7. CASE \E i \in Inputs : Input_Finalize(i)
  <2>1. PICK i \in Inputs : Input_Finalize(i)
    BY <1>7
  <2>2. /\ Turn("input", i) /\ todo' = todo \ {<<"input", i>>}
        /\ \A m \in Regular : out'[m] = out[m]
    BY <2>1, InputEffect DEF Input_Finalize, Returned, Undisturbed
  <2>3. \A l \in links : <<"step", l[1]>> \notin todo'
    BY <1>1, <2>2, LinkEnds, NobodySteps DEF PInv
  <2>4. \A o \in linked : CanEmit(Feed(o), "down")' => CanEmit(Feed(o), "down")
    BY <1>1, <2>2, LinkEnds DEF CanEmit
  <2>5. QED
    BY <2>3, <2>4 DEF Delayed
<1>8. QED
  BY <1>3, <1>4, <1>5, <1>6, <1>7 DEF ReadingCall

LEMMA FinalizeDelays ==
  ASSUME PInv, NEW n \in Regular, FinalizeCall(n)
  PROVE  Delayed
<1>1. Turn("finalize", n) /\ todo' = todo \ {<<"finalize", n>>}
  BY DEF FinalizeCall, T21_Finalize, T30_Finalize, Returned
<1>2. \A c \in todo : c[1] \notin ReadingLoops
  BY <1>1, NobodyReads DEF PInv
<1>3. \A m : /\ <<"step", m>> \notin todo'
             /\ <<"numeric", m>> \notin todo' /\ <<"image", m>> \notin todo'
  <2> SUFFICES ASSUME NEW m, NEW k \in {"step", "numeric", "image"},
                      <<k, m>> \in todo
               PROVE  FALSE
    BY <1>1
  <2>1. <<k, m>>[1] = k /\ k \in ReadingLoops
    BY DEF ReadingLoops
  <2>2. QED
    BY <1>2, <2>1
<1>4. QED
  BY <1>3 DEF Delayed

LEMMA RestDelays ==
  ASSUME PInv,
         \/ NextCycle \/ EndRun \/ Signal \/ UNCHANGED vars
         \/ \E t \in Tests : SetExpected(t)
  PROVE  Delayed
<1>1. Setup /\ UNCHANGED links
  BY DEF PInv, IInv, NextCycle, EndRun, Signal, vars, SetExpected, setup
<1>2. CASE NextCycle \/ EndRun \/ Signal \/ UNCHANGED vars
  <2>1. out' = out
    BY <1>2 DEF NextCycle, EndRun, Signal, vars, nodes
  <2>2. QED
    BY <1>1, <2>1, NothingNew DEF CanEmit
<1>3. CASE \E t \in Tests : SetExpected(t)
  <2>1. out' = OutReset
    BY <1>3 DEF SetExpected
  <2>2. \A m \in Regular \cup Inputs : OutReset[m].word = word_empty
    BY DEF OutReset
  <2>3. QED
    BY <1>1, <2>1, <2>2, NothingNew DEF CanEmit
<1>4. QED
  BY <1>2, <1>3

(* For every layout, program and test: a word that becomes readable in a   *)
(* cycle is read by no call left in that cycle (the phases of do_step).    *)
THEOREM DelayIsOneCycle == Spec => OneCycleDelay
<1>1. PInv /\ [Next]_vars => [Delayed]_vars
  BY NextSplit, ReadingDelays, FinalizeDelays, RestDelays
<1>2. QED
  BY <1>1, AlwaysPInv, PTL DEF Spec, OneCycleDelay, Delayed
-----------------------------------------------------------------------------
(* The refinement of PortProtocol                                          *)

(* What a writer has on its ports, as offerBar shows it.                   *)
Offered(n) ==
  IF t21[n].s # "write" THEN Protocol!Idle
  ELSE IF out[n].word = word_empty THEN Protocol!TakenBy(out[n].port)
  ELSE IF out[n].port = "nil" THEN Protocol!Set(out[n].word)
  ELSE Protocol!Open(out[n].word,
                     IF out[n].port = "any" THEN Dir ELSE {out[n].port})

LEMMA BarAt ==
  /\ offerBar = [n \in Regular |-> Offered(n)]
  /\ \A n \in Regular : offerBar[n] = Offered(n) /\ lastBar[n] = t21[n].last
BY DEF offerBar, lastBar, Offered, Protocol!Idle, Protocol!TakenBy, Protocol!Set,
       Protocol!Open

LEMMA BarAtNext ==
  /\ offerBar' = [n \in Regular |-> Offered(n)']
  /\ \A n \in Regular : offerBar'[n] = Offered(n)' /\ lastBar'[n] = t21'[n].last
BY DEF offerBar, lastBar, Offered, Protocol!Idle, Protocol!TakenBy, Protocol!Set,
       Protocol!Open

BarTyped ==
  /\ offerBar \in [Regular -> Protocol!Offers]
  /\ lastBar \in [Regular -> Dir \cup {"nil"}]

LEMMA BarsTyped == PInv => BarTyped
<1> SUFFICES ASSUME PInv PROVE BarTyped
  OBVIOUS
<1>1. /\ t21 \in [Regular -> T21Type]
      /\ out \in OutType
  BY DEF PInv, IInv, TypeOK, T21Type, OutType
<1>2. ASSUME NEW n \in Regular PROVE Offered(n) \in Protocol!Offers
  <2> DEFINE w == out[n].word
             p == out[n].port
  <2>1. w \in optional_word /\ p \in Dir \cup {"nil", "any"}
    BY <1>1 DEF OutType, Port
  <2>2. w # word_empty => w \in Word
    BY <2>1, WordFacts
  <2>3. t21[n].s = "write" /\ w = word_empty => p # "any"
    BY DEF PInv, WritersCalled, IInv, AnyHasWord
  <2>4. /\ Protocol!Idle \in Protocol!Offers
        /\ \A v \in Word : Protocol!Set(v) \in Protocol!Offers
        /\ \A d \in Dir \cup {"nil"} : Protocol!TakenBy(d) \in Protocol!Offers
    BY DEF Protocol!Offers
  <2>5. ASSUME NEW v \in Word, NEW D \in {{d} : d \in Dir} \cup {Dir}
        PROVE  Protocol!Open(v, D) \in Protocol!Offers
    BY DEF Protocol!Offers
  <2> HIDE DEF w, p
  <2>6. CASE t21[n].s # "write"
    BY <2>4, <2>6 DEF Offered
  <2>7. CASE t21[n].s = "write" /\ w = word_empty
    BY <2>1, <2>3, <2>4, <2>7 DEF Offered, w, p
  <2>8. CASE t21[n].s = "write" /\ w # word_empty /\ p = "nil"
    BY <2>2, <2>4, <2>8 DEF Offered, w, p
  <2>9. CASE t21[n].s = "write" /\ w # word_empty /\ p # "nil"
    <3> DEFINE D == IF p = "any" THEN Dir ELSE {p}
    <3>1. D \in {{d} : d \in Dir} \cup {Dir}
      BY <2>1, <2>9
    <3>2. Offered(n) = Protocol!Open(w, D)
      BY <2>9 DEF Offered, w, p
    <3> HIDE DEF D
    <3>3. QED
      BY <2>2, <2>5, <2>9, <3>1, <3>2
  <2>10. QED
    BY <2>6, <2>7, <2>8, <2>9
<1>3. QED
  BY <1>1, <1>2, BarAt DEF BarTyped, lastBar, T21Type

LEMMA BarsTypedNext == PInv' => BarTyped'
BY BarsTyped, PTL

(* What the calls do to a node are the moves of a writer.                  *)
LEMMA UndisturbedStays ==
  ASSUME NEW m \in Regular, Undisturbed(m)
  PROVE  Protocol!Stays(m)
BY BarAt, BarAtNext DEF Undisturbed, Protocol!Stays, Offered

LEMMA LosesWordIsRead ==
  ASSUME NEW m \in Regular, LosesWord(m)
  PROVE  Protocol!IsRead(m) \/ Protocol!Stays(m)
<1>1. t21'[m] = t21[m] /\ Emptied(out[m], out'[m])
  BY DEF LosesWord
<1>2. CASE t21[m].s # "write"
  BY <1>1, <1>2, BarAt, BarAtNext DEF Offered, Protocol!Stays
<1>3. CASE t21[m].s = "write"
  <2>1. PICK d \in Dir : /\ out[m].port \in {d, "any"}
                         /\ out'[m].port = IF out[m].port = "any" THEN d ELSE "nil"
    BY <1>1 DEF Emptied
  <2> DEFINE D == IF out[m].port = "any" THEN Dir ELSE {d}
  <2>2. offerBar[m] = Protocol!Open(out[m].word, D)
    <3>1. out[m].word # word_empty /\ out[m].port # "nil"
      BY <1>1, <2>1 DEF Emptied, Dir
    <3>2. QED
      BY <1>3, <2>1, <3>1, BarAt DEF Offered
  <2>3. offerBar'[m] = Protocol!TakenBy(out'[m].port)
    BY <1>1, <1>3, BarAtNext DEF Offered, Emptied
  <2>4. d \in D /\ (D = Dir <=> out[m].port = "any")
    BY <2>1 DEF Dir
  <2>5. offerBar'[m] = Protocol!TakenBy(IF D = Dir THEN d ELSE "nil")
    BY <2>1, <2>3, <2>4
  <2>6. lastBar'[m] = lastBar[m]
    BY <1>1, BarAt, BarAtNext
  <2> HIDE DEF D
  <2>7. offerBar[m].state = "open" /\ offerBar[m].to = D
    BY <2>2 DEF Protocol!Open
  <2>8. QED
    BY <2>4, <2>5, <2>6, <2>7 DEF Protocol!IsRead
<1>4. QED
  BY <1>2, <1>3

LEMMA RunsWorks ==
  ASSUME NEW m \in Regular, Runs(m)
  PROVE  Protocol!Works(m)
<1>1. offerBar[m] = Protocol!Idle
  BY BarAt DEF Runs, Offered
<1>2. CASE t21'[m].s # "write"
  BY <1>1, <1>2, BarAt, BarAtNext DEF Runs, Offered, Protocol!Works, Protocol!Idle
<1>3. CASE t21'[m].s = "write"
  <2>1. out'[m].word \in Word /\ out'[m].word # word_empty /\ out'[m].port = "nil"
    BY <1>3, WordFacts DEF Runs
  <2>2. offerBar'[m] = Protocol!Set(out'[m].word)
    BY <1>3, <2>1, BarAtNext DEF Offered
  <2>3. QED
    BY <1>1, <2>1, <2>2, BarAt, BarAtNext DEF Runs, Protocol!Works, Protocol!Idle
<1>4. QED
  BY <1>2, <1>3

LEMMA FinalizeMoves ==
  ASSUME PInv, NEW n \in Regular, FinalizeCall(n), NEW m \in Regular
  PROVE  Protocol!Publishes(m) \/ Protocol!GoesOn(m) \/ Protocol!Stays(m)
<1>1. CASE m # n \/ T30_Finalize(n)
  <2>1. \/ out'[m] = out[m] /\ t21'[m] = t21[m]
        \/ t21[m].s # "write" /\ t21'[m] = t21[m]
    BY <1>1, FinalizeEffect, StackFinalizeEffect DEF FinalizeCall
  <2>2. QED
    BY <2>1, BarAt, BarAtNext DEF Offered, Protocol!Stays
<1>2. CASE m = n /\ T21_Finalize(n)
  <2>1. CASE out'[n] = out[n] /\ t21'[n] = t21[n]
    BY <1>2, <2>1, BarAt, BarAtNext DEF Offered, Protocol!Stays
  <2>2. CASE /\ t21[n].s = "write" /\ t21'[n].s = "write"
             /\ out[n].word # word_empty /\ out[n].port = "nil"
             /\ out'[n].word = out[n].word /\ out'[n].port \in Dir \cup {"any"}
             /\ t21'[n].last = t21[n].last
    <3> DEFINE D == IF out'[n].port = "any" THEN Dir ELSE {out'[n].port}
    <3>1. offerBar[n] = Protocol!Set(out[n].word)
      BY <2>2, BarAt DEF Offered
    <3>2. offerBar'[n] = Protocol!Open(out[n].word, D)
      BY <2>2, BarAtNext DEF Offered, Dir
    <3>3. D \in {{d} : d \in Dir} \cup {Dir}
      BY <2>2
    <3>4. lastBar'[n] = lastBar[n]
      BY <2>2, BarAt, BarAtNext
    <3> HIDE DEF D
    <3>5. offerBar[n].state = "set" /\ offerBar[n].word = out[n].word
      BY <3>1 DEF Protocol!Set
    <3>6. QED
      BY <1>2, <3>2, <3>3, <3>4, <3>5 DEF Protocol!Publishes
  <2>3. CASE /\ t21[n].s = "write" /\ t21'[n].s # "write"
             /\ out[n].word = word_empty
             /\ t21'[n].last = IF out[n].port = "nil" THEN t21[n].last
                               ELSE out[n].port
    BY <1>2, <2>3, BarAt, BarAtNext
       DEF Offered, Protocol!GoesOn, Protocol!TakenBy
  <2>4. QED
    BY <1>2, <2>1, <2>2, <2>3, FinalizeEffect
<1>3. QED
  BY <1>1, <1>2 DEF FinalizeCall

(* Every step of a field is a step of the protocol, or none.               *)
LEMMA StepRefines ==
  ASSUME PInv, PInv', [Next]_vars
  PROVE  Protocol!Next \/ UNCHANGED <<halfBar, offerBar, lastBar>>
<1>1. BarTyped'
  BY BarsTypedNext
<1>2. CASE ReadingCall
  <2>1. \A m \in Regular : Protocol!Works(m) \/ Protocol!IsRead(m) \/ Protocol!Stays(m)
    BY <1>2, ReadingEffect, UndisturbedStays, LosesWordIsRead, RunsWorks DEF Affected
  <2>2. halfBar = "step" /\ halfBar' \in {"step", "finalize"}
    BY <1>2, ReadingEffect DEF halfBar
  <2>3. Protocol!StepHalf
    BY <2>1, <2>2 DEF Protocol!StepHalf
  <2>4. QED
    BY <1>1, <2>3 DEF BarTyped, Protocol!Next
<1>3. CASE \E n \in Regular : FinalizeCall(n)
  <2>1. PICK n \in Regular : FinalizeCall(n)
    BY <1>3
  <2>2. Turn("finalize", n) /\ todo' \subseteq todo
    BY <2>1 DEF FinalizeCall, T21_Finalize, T30_Finalize, Returned
  <2>3. halfBar = "finalize" /\ halfBar' = "finalize"
    BY <2>2, NobodyReads DEF halfBar, PInv
  <2>4. Protocol!FinalizeHalf
    BY <2>1, <2>3, FinalizeMoves DEF Protocol!FinalizeHalf
  <2>5. QED
    BY <1>1, <2>4 DEF BarTyped, Protocol!Next
<1>4. CASE NextCycle
  <2>1. todo = {} /\ todo' = calls /\ UNCHANGED <<out, t21>>
    BY <1>4 DEF NextCycle, nodes
  <2>2. UNCHANGED <<offerBar, lastBar>>
    BY <2>1 DEF offerBar, lastBar
  <2>3. halfBar = "finalize" /\ halfBar' \in {"step", "finalize"}
    BY <2>1 DEF halfBar
  <2>4. Protocol!Settled
    BY <2>1, BarAt DEF PInv, OpenAfterFinalize, Offered, Protocol!Settled,
                       Protocol!Idle, Protocol!Open
  <2>5. halfBar' = "step" => Protocol!NewCycle
    BY <2>2, <2>3, <2>4 DEF Protocol!NewCycle, Protocol!Stays
  <2>6. QED
    BY <1>1, <2>2, <2>3, <2>5 DEF BarTyped, Protocol!Next
<1>5. CASE EndRun \/ Signal \/ UNCHANGED vars
  <2>1. UNCHANGED <<todo, out, t21>>
    BY <1>5 DEF EndRun, Signal, vars, nodes
  <2>2. QED
    BY <2>1 DEF halfBar, offerBar, lastBar
<1>6. CASE \E t \in Tests : SetExpected(t)
  <2>1. t21' = [n \in Regular |-> T21Reset]
    BY <1>6 DEF SetExpected
  <2>2. /\ offerBar' = [n \in Regular |-> Protocol!Idle]
        /\ lastBar' = [n \in Regular |-> "nil"]
    BY <2>1 DEF offerBar, lastBar, T21Reset, Protocol!Idle
  <2>3. halfBar' \in {"step", "finalize"}
    BY DEF halfBar
  <2>4. Protocol!Restart
    BY <2>2, <2>3 DEF Protocol!Restart
  <2>5. QED
    BY <1>1, <2>4 DEF BarTyped, Protocol!Next
<1>7. QED
  BY <1>2, <1>3, <1>4, <1>5, <1>6, NextSplit

LEMMA InitRefines == Init => Protocol!Init
<1> SUFFICES ASSUME NEW f \in Saves, NEW t \in Tests, Finalized(f), Loaded(f, t)
             PROVE  Protocol!Init
  BY DEF Init
<1>1. t21 = [n \in Regular |-> T21Reset]
  BY DEF Loaded
<1>2. QED
  BY <1>1 DEF Protocol!Init, Protocol!Idle, halfBar, offerBar, lastBar, T21Reset

(* Every field implements the protocol that a writer may count on.         *)
THEOREM FieldImplementsProtocol == Spec => WritesFollowProtocol
<1>1. PInv /\ PInv' /\ [Next]_vars
        => [Protocol!Next]_<<halfBar, offerBar, lastBar>>
  BY StepRefines
<1>2. QED
  BY <1>1, InitRefines, AlwaysPInv, PTL DEF Spec, WritesFollowProtocol, Protocol!Spec
=============================================================================
