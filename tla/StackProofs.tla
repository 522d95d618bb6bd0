----------------------------- MODULE StackProofs ----------------------------
(***************************************************************************)
(* Proofs about the stacks, for every layout, program and capacity.        *)
(* StackOffersTop takes the order of the calls: between the step and the   *)
(* finalize of a stack, prev_end may lie under words pushed in this cycle; *)
(* before and after, it is the top.  NoMemoryExact is about all the tests  *)
(* a field has run.  WordsConserved, about all the nodes that hold words,  *)
(* is here because the stacks are where it is hard: it needs what StackInv *)
(* says of the word a stack has lost and finalize has yet to erase.        *)
(***************************************************************************)
EXTENDS FieldProofs, FunctionTheorems, Replay

(* A stack whose finalize is over, or whose step is still to come, offers  *)
(* its top or has just lost it.                                            *)
Settled(n) == <<"step", n>> \in todo \/ <<"finalize", n>> \notin todo

StackGood(n) ==
  LET st == t30[n] IN
  /\ Len(st.data) <= T30_size
  /\ out[n].word # word_empty =>
       /\ out[n].port = "any"
       /\ st.prev_end \in DOMAIN st.data
       /\ st.data[st.prev_end] = out[n].word
  /\ out[n].port # "any" =>
       out[n].word = word_empty /\ st.prev_end \in DOMAIN st.data
  /\ Settled(n) /\ st.data # <<>> =>
       /\ st.prev_end = Len(st.data)
       /\ out[n].word # word_empty \/ out[n].port # "any"

(* Whoever is still to step is still to finalize.                          *)
StepsFirst == \A n \in Regular : <<"step", n>> \in todo => <<"finalize", n>> \in todo

StacksGood == \A n \in Regular : save.type[n] = "T30" => StackGood(n)

StackInv == IInv /\ StepsFirst /\ StacksGood

-----------------------------------------------------------------------------
(* The finalize loop comes after the step loop (do_step).                  *)
LEMMA FinalizeIsLater ==
  ASSUME NEW n \in Regular
  PROVE  ~(CallOrder(<<"finalize", n>>) <= CallOrder(<<"step", n>>))
<1>1. Place(n)
  BY RegularPlace
<1>2. CallOrder(<<"step", n>>) < CallOrder(<<"finalize", n>>)
  BY <1>1, LoopsInOrder DEF LoopOrder
<1>3. CallOrder(<<"step", n>>) \in Int /\ CallOrder(<<"finalize", n>>) \in Int
  BY <1>1, LoopsInOrder DEF LoopOrder
<1>4. QED
  BY <1>2, <1>3

(* A call never overtakes the step of its own node.                        *)
LEMMA StepsFirstKept ==
  ASSUME StepsFirst, NEW loop, NEW c, Turn(loop, c), todo' = todo \ {<<loop, c>>}
  PROVE  StepsFirst'
<1> SUFFICES ASSUME NEW n \in Regular, <<"step", n>> \in todo'
    PROVE  <<"finalize", n>> \in todo'
  BY DEF StepsFirst
<1>1. <<"step", n>> \in todo /\ <<"finalize", n>> \in todo
  BY DEF StepsFirst
<1>2. <<loop, c>> # <<"finalize", n>>
  BY <1>1, FinalizeIsLater DEF Turn
<1>3. QED
  BY <1>1, <1>2

(* A stack that no call of its own touches stays good, its word taken or   *)
(* not.                                                                    *)
LEMMA StackUntouched ==
  ASSUME NEW n \in Regular, StackGood(n), t30'[n] = t30[n],
         out'[n] = out[n] \/ Emptied(out[n], out'[n]),
         Settled(n)' => Settled(n)
  PROVE  StackGood(n)'
BY DEF StackGood, Emptied, Dir

(* A call of anybody but a stack, as the stacks see it.                    *)
LEMMA OtherCall ==
  ASSUME StackInv, NEW loop, NEW c, Turn(loop, c), Returned(loop, c),
         UNCHANGED t30,
         \A m \in Regular : save.type[m] = "T30" =>
           /\ out'[m] = out[m] \/ Emptied(out[m], out'[m])
           /\ <<loop, c>> # <<"finalize", m>>
  PROVE  StepsFirst' /\ StacksGood'
<1>1. save' = save /\ todo' = todo \ {<<loop, c>>}
  BY DEF Returned, setup
<1>2. StepsFirst'
  BY <1>1, StepsFirstKept DEF StackInv
<1>3. ASSUME NEW m \in Regular, save.type[m] = "T30" PROVE StackGood(m)'
  <2>1. Settled(m)' => Settled(m)
    BY <1>1, <1>3 DEF Settled
  <2>2. QED
    BY <1>3, <2>1, StackUntouched DEF StackInv, StacksGood
<1>4. QED
  BY <1>1, <1>2, <1>3 DEF StacksGood

LEMMA T21CallsKeepStacks ==
  ASSUME StackInv, NEW n \in Regular,
         \/ T21_StalledOnWrite(n) \/ T21_StalledOnRead(n)
         \/ T21_Compute(n) \/ T21_StartWrite(n) \/ T21_Finalize(n)
  PROVE  StepsFirst' /\ StacksGood'
<1>1. out \in OutType /\ IInv
  BY DEF StackInv, IInv, TypeOK, OutType
<1>2. CASE T21_StalledOnWrite(n) \/ T21_StalledOnRead(n)
  BY <1>2, OtherCall DEF T21_StalledOnWrite, T21_StalledOnRead, StepT21, nodes
<1>3. CASE T21_Compute(n) \/ T21_StartWrite(n)
  <2>1. /\ StepT21(n) /\ Returned("step", n) /\ UNCHANGED t30
        /\ t21[n].s # "write" /\ ~Blocked(n)
        /\ \/ out' = ReadFrom(n, Source(n))
           \/ out' = [ReadFrom(n, Source(n)) EXCEPT ![n] = WordSet(n)]
    BY <1>3 DEF T21_Compute, T21_StartWrite
  <2>2. Source(n) \in SUBSET Dir /\ \A d \in Source(n) : Offers(n, d)
    BY <1>1, <2>1, ReadCompletes
  <2>3. /\ ReadFrom(n, Source(n)) \in OutType
        /\ \A m \in Regular \cup Inputs :
             \/ ReadFrom(n, Source(n))[m] = out[m]
             \/ Emptied(out[m], ReadFrom(n, Source(n))[m])
    BY <1>1, <2>2, ReadFromEffect
  <2>4. \A m \in Regular : m # n => out'[m] = ReadFrom(n, Source(n))[m]
    BY <2>1, <2>3 DEF OutType
  <2>5. save.type[n] = "T21" /\ Turn("step", n)
    BY <2>1 DEF StepT21
  <2>6. \A m \in Regular : save.type[m] = "T30" =>
          /\ out'[m] = out[m] \/ Emptied(out[m], out'[m])
          /\ <<"step", n>> # <<"finalize", m>>
    BY <2>3, <2>4, <2>5
  <2>7. QED
    BY <2>1, <2>5, <2>6, OtherCall
<1>4. CASE T21_Finalize(n)
  <2>1. /\ save.type[n] = "T21" /\ Turn("finalize", n)
        /\ Returned("finalize", n) /\ UNCHANGED t30
    BY <1>4 DEF T21_Finalize
  <2>2. \A m \in Regular : m # n => out'[m] = out[m]
    BY <1>1, <1>4 DEF T21_Finalize, OutType
  <2>3. QED
    BY <2>1, <2>2, OtherCall
<1>5. QED
  BY <1>2, <1>3, <1>4

LEMMA IoCallsKeepStacks ==
  ASSUME StackInv, NEW c,
         \/ c \in Inputs /\ Input_Finalize(c)
         \/ c \in Numerics /\ Numeric_Step(c)
         \/ c \in Images /\ Image_Step(c)
  PROVE  StepsFirst' /\ StacksGood'
<1>1. out \in OutType /\ IInv
  BY DEF StackInv, IInv, TypeOK, OutType
<1>2. CASE c \in Inputs /\ Input_Finalize(c)
  <2>1. \A m \in Regular : m # c
    BY <1>2 DEF Inputs, Regular
  <2>2. \A m \in Regular : out'[m] = out[m]
    BY <1>1, <1>2, <2>1 DEF Input_Finalize, OutType
  <2>3. QED
    BY <1>2, <2>2, OtherCall DEF Input_Finalize
<1>3. CASE c \in Numerics /\ Numeric_Step(c)
  <2>1. Feed(c) \in Regular
    BY <1>1, <1>3, CalledNodes DEF IInv, TypeOK, Numeric_Step, Turn
  <2>2. \A m \in Regular : out'[m] = out[m] \/ Emptied(out[m], out'[m])
    <3>1. CASE UNCHANGED out
      BY <3>1
    <3>2. CASE /\ CanEmit(Feed(c), "down")
               /\ out' = [out EXCEPT ![Feed(c)] = Emitted(Feed(c), "down")]
      BY <1>1, <2>1, <3>2, FeedEmptied
    <3>3. QED
      BY <1>3, <3>1, <3>2 DEF Numeric_Step
  <2>3. QED
    BY <1>3, <2>2, OtherCall DEF Numeric_Step
<1>4. CASE c \in Images /\ Image_Step(c)
  <2>1. Feed(c) \in Regular
    BY <1>1, <1>4, CalledNodes DEF IInv, TypeOK, Image_Step, Turn
  <2>2. \A m \in Regular : out'[m] = out[m] \/ Emptied(out[m], out'[m])
    <3>1. CASE UNCHANGED out
      BY <3>1
    <3>2. CASE /\ CanEmit(Feed(c), "down")
               /\ out' = [out EXCEPT ![Feed(c)] = Emitted(Feed(c), "down")]
      BY <1>1, <2>1, <3>2, FeedEmptied
    <3>3. QED
      BY <1>4, <3>1, <3>2 DEF Image_Step
  <2>3. QED
    BY <1>4, <2>2, OtherCall DEF Image_Step
<1>5. QED
  BY <1>2, <1>3, <1>4

-----------------------------------------------------------------------------
(* The calls of the stack itself                                           *)

(* Pushing keeps what is there, and keeps to the capacity.                 *)
LEMMA PushKeeps ==
  ASSUME IInv, NEW n, NEW data \in Seq(Word), NEW d \in Dir, Len(data) <= T30_size
  PROVE  /\ Push(n, data, d) \in Seq(Word) /\ Len(Push(n, data, d)) <= T30_size
         /\ Len(data) <= Len(Push(n, data, d))
         /\ \A k \in 1 .. Len(data) : Push(n, data, d)[k] = data[k]
<1>1. Len(data) \in Nat /\ T30_size \in Nat
  BY LenProperties, FieldAssumption
<1>2. CASE Len(data) < T30_size /\ Offers(n, d)
  <2>1. out[Neighbour(n, d)].word \in Word
    BY <1>2, OfferedWord
  <2>2. QED
    BY <1>1, <1>2, <2>1, AppendProperties DEF Push
<1>3. CASE ~(Len(data) < T30_size /\ Offers(n, d))
  BY <1>1, <1>3 DEF Push
<1>4. QED
  BY <1>2, <1>3

LEMMA FillingKeeps ==
  ASSUME IInv, NEW n \in Regular, Len(t30[n].data) <= T30_size
  PROVE  /\ Filling(n).after \in Seq(Word) /\ Len(Filling(n).after) <= T30_size
         /\ Len(t30[n].data) <= Len(Filling(n).after)
         /\ \A k \in 1 .. Len(t30[n].data) : Filling(n).after[k] = t30[n].data[k]
<1> DEFINE l == t30[n].data
           r == Push(n, l, "left")
           u == Push(n, r, "right")
           d == Push(n, u, "up")
           e == Push(n, d, "down")
<1>1. l \in Seq(Word) /\ Len(l) <= T30_size
  BY DEF IInv, TypeOK
<1>2. Filling(n).after = e
  BY DEF Filling
<1> HIDE DEF l
<1>3. /\ r \in Seq(Word) /\ Len(r) <= T30_size /\ Len(l) <= Len(r)
      /\ \A k \in 1 .. Len(l) : r[k] = l[k]
  BY <1>1, PushKeeps DEF Dir
<1> HIDE DEF r
<1>4. /\ u \in Seq(Word) /\ Len(u) <= T30_size /\ Len(r) <= Len(u)
      /\ \A k \in 1 .. Len(r) : u[k] = r[k]
  BY <1>3, PushKeeps DEF Dir
<1> HIDE DEF u
<1>5. /\ d \in Seq(Word) /\ Len(d) <= T30_size /\ Len(u) <= Len(d)
      /\ \A k \in 1 .. Len(u) : d[k] = u[k]
  BY <1>4, PushKeeps DEF Dir
<1> HIDE DEF d
<1>6. /\ e \in Seq(Word) /\ Len(e) <= T30_size /\ Len(d) <= Len(e)
      /\ \A k \in 1 .. Len(d) : e[k] = d[k]
  BY <1>5, PushKeeps DEF Dir
<1> HIDE DEF e
<1>7. /\ Len(l) \in Nat /\ Len(r) \in Nat /\ Len(u) \in Nat /\ Len(d) \in Nat
      /\ Len(e) \in Nat
  BY <1>1, <1>3, <1>4, <1>5, <1>6, LenProperties
<1>8. Len(l) <= Len(e)
  BY <1>3, <1>4, <1>5, <1>6, <1>7
<1>9. \A k \in 1 .. Len(l) : e[k] = l[k]
  BY <1>3, <1>4, <1>5, <1>6, <1>7
<1>10. QED
  BY <1>2, <1>6, <1>8, <1>9 DEF l

LEMMA StepKeepsStacks ==
  ASSUME StackInv, NEW n \in Regular, T30_Step(n)
  PROVE  StepsFirst' /\ StacksGood'
<1>1. /\ save.type[n] = "T30" /\ save' = save /\ Turn("step", n)
      /\ todo' = todo \ {<<"step", n>>}
      /\ t30 \in [Regular -> T30Type] /\ IInv
  BY DEF StackInv, IInv, TypeOK, T30_Step, Returned, setup, T30Type
<1>2. StepsFirst'
  BY <1>1, StepsFirstKept DEF StackInv
<1>3. \A m \in Regular \cup Inputs : out'[m] = out[m] \/ Emptied(out[m], out'[m])
  <2>1. Pushes(n) \in SUBSET Dir /\ \A d \in Pushes(n) : Offers(n, d)
    BY DEF Pushes
  <2>2. QED
    BY <1>1, <2>1, ReadFromEffect DEF T30_Step
<1>4. /\ t30'[n].data = Filling(n).after /\ t30'[n].prev_end = t30[n].prev_end
      /\ \A m \in Regular \ {n} : t30'[m] = t30[m]
  BY <1>1 DEF T30_Step, T30Type
<1>5. StackGood(n)
  BY <1>1 DEF StackInv, StacksGood
<1> DEFINE old == t30[n].data
           new == Filling(n).after
<1>6. /\ new \in Seq(Word) /\ Len(new) <= T30_size /\ Len(old) <= Len(new)
      /\ \A k \in 1 .. Len(old) : new[k] = old[k]
  BY <1>1, <1>5, FillingKeeps DEF StackGood
<1>7. /\ DOMAIN old = 1 .. Len(old) /\ DOMAIN new = 1 .. Len(new)
      /\ Len(old) \in Nat /\ Len(new) \in Nat
  <2>1. old \in Seq(Word)
    BY <1>1 DEF T30Type
  <2>2. QED
    BY <1>6, <2>1, LenProperties
<1> HIDE DEF old, new
<1>8. t30[n].prev_end \in DOMAIN old =>
        t30[n].prev_end \in DOMAIN new /\ new[t30[n].prev_end] = old[t30[n].prev_end]
  BY <1>6, <1>7
<1>9. ~Settled(n)'
  <2>1. <<"step", n>> \in todo /\ <<"finalize", n>> \in todo
    BY <1>1 DEF Turn, StackInv, StepsFirst
  <2>2. QED
    BY <1>1, <2>1 DEF Settled
<1>10. /\ out[n].word # word_empty =>
            /\ out[n].port = "any"
            /\ t30[n].prev_end \in DOMAIN old
            /\ old[t30[n].prev_end] = out[n].word
       /\ out[n].port # "any" =>
            out[n].word = word_empty /\ t30[n].prev_end \in DOMAIN old
  BY <1>5 DEF StackGood, old
<1>11. out'[n] = out[n] \/ Emptied(out[n], out'[n])
  BY <1>3
<1>12. /\ Len(t30'[n].data) <= T30_size
       /\ out'[n].word # word_empty =>
            /\ out'[n].port = "any"
            /\ t30'[n].prev_end \in DOMAIN t30'[n].data
            /\ t30'[n].data[t30'[n].prev_end] = out'[n].word
       /\ out'[n].port # "any" =>
            out'[n].word = word_empty /\ t30'[n].prev_end \in DOMAIN t30'[n].data
  <2>1. CASE out'[n] = out[n]
    BY <1>4, <1>6, <1>8, <1>10, <2>1 DEF new
  <2>2. CASE Emptied(out[n], out'[n])
    BY <1>4, <1>6, <1>8, <1>10, <2>2 DEF new, Emptied
  <2>3. QED
    BY <1>11, <2>1, <2>2
<1>13. StackGood(n)'
  BY <1>9, <1>12 DEF StackGood
<1>14. ASSUME NEW m \in Regular, m # n, save.type[m] = "T30" PROVE StackGood(m)'
  <2>1. Settled(m)' => Settled(m)
    BY <1>1, <1>14 DEF Settled
  <2>2. QED
    BY <1>3, <1>4, <1>14, <2>1, StackUntouched DEF StackInv, StacksGood
<1>15. QED
  BY <1>1, <1>2, <1>13, <1>14 DEF StacksGood

LEMMA FinalizeKeepsStacks ==
  ASSUME StackInv, NEW n \in Regular, T30_Finalize(n)
  PROVE  StepsFirst' /\ StacksGood'
<1> DEFINE popped == out[n].port # "any"
           old    == t30[n].data
           data   == IF popped THEN Erase(old, t30[n].prev_end) ELSE old
<1>1. /\ save.type[n] = "T30" /\ save' = save /\ Turn("finalize", n)
      /\ todo' = todo \ {<<"finalize", n>>}
      /\ t30 \in [Regular -> T30Type] /\ out \in OutType
  BY DEF StackInv, IInv, TypeOK, T30_Finalize, Returned, setup, T30Type, OutType
<1>2. StepsFirst'
  BY <1>1, StepsFirstKept DEF StackInv
<1>3. /\ t30'[n].data = data /\ t30'[n].prev_end = PrevEnd(t30[n].prev_end, data)
      /\ out'[n].port = "any"
      /\ out'[n].word = IF data = <<>> THEN out[n].word ELSE data[Len(data)]
      /\ \A m \in Regular \ {n} : t30'[m] = t30[m] /\ out'[m] = out[m]
  BY <1>1 DEF T30_Finalize, T30Type, OutType
<1>4. /\ old \in Seq(Word) /\ Len(old) <= T30_size
      /\ popped => out[n].word = word_empty /\ t30[n].prev_end \in DOMAIN old
      /\ out[n].word # word_empty => t30[n].prev_end \in DOMAIN old
  BY <1>1 DEF StackInv, StacksGood, StackGood, T30Type
<1>5. T30_size \in Nat /\ Len(old) \in Nat
  BY <1>4, FieldAssumption, LenProperties
<1>6. data \in Seq(Word) /\ Len(data) <= T30_size
  BY <1>4, <1>5, EraseProperties
<1>7. data = <<>> => out[n].word = word_empty
  BY <1>4
<1> HIDE DEF data
<1>8. data # <<>> => Len(data) \in DOMAIN data /\ data[Len(data)] \in Word
  <2>1. data # <<>> => Len(data) \in 1 .. Len(data)
    BY <1>6, EmptySeq
  <2>2. QED
    BY <1>6, <2>1, ElementOfSeq, LenProperties
<1>9. StackGood(n)'
  <2>1. CASE data = <<>>
    BY <1>3, <1>6, <1>7, <2>1 DEF StackGood
  <2>2. CASE data # <<>>
    <3>1. PrevEnd(t30[n].prev_end, data) = Len(data)
      BY <2>2 DEF PrevEnd
    <3>2. out'[n].word = data[Len(data)] /\ out'[n].word # word_empty
      BY <1>3, <1>8, <2>2, WordFacts
    <3>3. QED
      BY <1>3, <1>6, <1>8, <2>2, <3>1, <3>2 DEF StackGood
  <2>3. QED
    BY <2>1, <2>2
<1>10. ASSUME NEW m \in Regular, m # n, save.type[m] = "T30" PROVE StackGood(m)'
  <2>1. Settled(m)' => Settled(m)
    BY <1>1, <1>10 DEF Settled
  <2>2. QED
    BY <1>3, <1>10, <2>1, StackUntouched DEF StackInv, StacksGood
<1>11. QED
  BY <1>1, <1>2, <1>9, <1>10 DEF StacksGood

-----------------------------------------------------------------------------
(* Everything else                                                         *)

LEMMA EmptyStack ==
  ASSUME NEW n \in Regular, t30'[n].data = <<>>,
         out'[n].word = word_empty, out'[n].port = "any"
  PROVE  StackGood(n)'
BY FieldAssumption, EmptySeq DEF StackGood

LEMMA InitStackInv == Init => StackInv
<1> SUFFICES ASSUME NEW f \in Saves, NEW t \in Tests, Finalized(f), Loaded(f, t), IInv
    PROVE  StepsFirst /\ StacksGood
  BY InitIInv DEF Init, StackInv
<1>1. StepsFirst
  BY BothLoops DEF StepsFirst, IInv, Loaded
<1>2. StacksGood
  BY ResetNodes, FieldAssumption, EmptySeq DEF StacksGood, StackGood, Loaded
<1>3. QED
  BY <1>1, <1>2

LEMMA RestKeepsStacks ==
  ASSUME StackInv,
         \/ NextCycle \/ EndRun \/ Signal \/ UNCHANGED vars
         \/ \E n \in Regular : T21_Hcf(n)
         \/ \E t \in Tests : SetExpected(t)
  PROVE  StepsFirst' /\ StacksGood'
<1>1. CASE EndRun \/ Signal \/ UNCHANGED vars \/ \E n \in Regular : T21_Hcf(n)
  <2>1. UNCHANGED <<save, out, t30, todo>>
    BY <1>1 DEF EndRun, Signal, vars, T21_Hcf, setup, nodes
  <2>2. QED
    BY <2>1 DEF StackInv, StepsFirst, StacksGood, StackGood, Settled
<1>2. CASE NextCycle
  <2>1. UNCHANGED <<save, calls, out, t30>> /\ todo = {} /\ todo' = calls
    BY <1>2 DEF NextCycle, setup, nodes
  <2>2. StepsFirst'
    BY <2>1, BothLoops DEF StackInv, IInv, StepsFirst
  <2>3. \A n \in Regular : Settled(n)
    BY <2>1 DEF Settled
  <2>4. QED
    BY <2>1, <2>2, <2>3 DEF StackInv, StacksGood, StackGood
<1>3. ASSUME NEW t \in Tests, SetExpected(t) PROVE StepsFirst' /\ StacksGood'
  <2>1. /\ UNCHANGED <<save, calls>> /\ todo' = calls /\ out' = OutReset
        /\ t30' = [n \in Regular |-> T30Reset(t30[n])]
    BY <1>3 DEF SetExpected, setup
  <2>2. StepsFirst'
    BY <2>1, BothLoops DEF StackInv, IInv, StepsFirst
  <2>3. \A n \in Regular : t30'[n].data = <<>>
    BY <2>1 DEF T30Reset, StackInv, IInv, TypeOK
  <2>4. QED
    BY <2>1, <2>2, <2>3, ResetNodes, EmptyStack DEF StacksGood
<1>4. QED
  BY <1>1, <1>2, <1>3

LEMMA NextStackInv == StackInv /\ [Next]_vars => StackInv'
<1> SUFFICES ASSUME StackInv, [Next]_vars PROVE StackInv'
  OBVIOUS
<1>1. IInv'
  BY NextIInv DEF StackInv
<1>2. ASSUME NEW n \in Regular,
             \/ T21_StalledOnWrite(n) \/ T21_StalledOnRead(n)
             \/ T21_Compute(n) \/ T21_StartWrite(n) \/ T21_Finalize(n)
      PROVE  StepsFirst' /\ StacksGood'
  BY <1>2, T21CallsKeepStacks
<1>3. ASSUME NEW n \in Regular, T30_Step(n) PROVE StepsFirst' /\ StacksGood'
  BY <1>3, StepKeepsStacks
<1>4. ASSUME NEW n \in Regular, T30_Finalize(n) PROVE StepsFirst' /\ StacksGood'
  BY <1>4, FinalizeKeepsStacks
<1>5. ASSUME NEW c, \/ c \in Inputs /\ Input_Finalize(c)
                    \/ c \in Numerics /\ Numeric_Step(c)
                    \/ c \in Images /\ Image_Step(c)
      PROVE  StepsFirst' /\ StacksGood'
  BY <1>5, IoCallsKeepStacks
<1>6. ASSUME \/ NextCycle \/ EndRun \/ Signal \/ UNCHANGED vars
             \/ \E n \in Regular : T21_Hcf(n)
             \/ \E t \in Tests : SetExpected(t)
      PROVE  StepsFirst' /\ StacksGood'
  BY <1>6, RestKeepsStacks
<1>7. StepsFirst' /\ StacksGood'
  BY <1>2, <1>3, <1>4, <1>5, <1>6 DEF Next, Handler
<1>8. QED
  BY <1>1, <1>7 DEF StackInv

-----------------------------------------------------------------------------
(* For every layout, program and capacity, the word a stack offers is the  *)
(* one prev_end points at until finalize erases it, however many words are *)
(* pushed on top of it in the same cycle (T30::step, T30::finalize).       *)
THEOREM StackAlwaysOffersTop == Spec => []StackOffersTop
<1>1. StackInv => StackOffersTop
  BY DEF StackInv, StacksGood, StackGood, Settled, StackOffersTop
<1>2. QED
  BY <1>1, InitStackInv, NextStackInv, PTL DEF Spec
-----------------------------------------------------------------------------
(* What `used` remembers                                                   *)

(* A stack grows by the words it takes in and by nothing else.             *)
LEMMA PushCounts ==
  ASSUME IInv, NEW n, NEW data \in Seq(Word), NEW d \in Dir
  PROVE  /\ Push(n, data, d) \in Seq(Word)
         /\ Len(Push(n, data, d)) =
              Len(data) + (IF Len(data) < T30_size /\ Offers(n, d) THEN 1 ELSE 0)
<1>1. Len(data) \in Nat
  BY LenProperties
<1>2. CASE Len(data) < T30_size /\ Offers(n, d)
  <2>1. out[Neighbour(n, d)].word \in Word
    BY <1>2, OfferedWord
  <2>2. QED
    BY <1>2, <2>1, AppendProperties DEF Push
<1>3. CASE ~(Len(data) < T30_size /\ Offers(n, d))
  BY <1>1, <1>3 DEF Push
<1>4. QED
  BY <1>2, <1>3

LEMMA GrowsByPushing ==
  ASSUME IInv, NEW n \in Regular
  PROVE  Len(Filling(n).after) > Len(t30[n].data) <=> Pushes(n) # {}
<1> DEFINE l == t30[n].data
           r == Push(n, l, "left")
           u == Push(n, r, "right")
           d == Push(n, u, "up")
           e == Push(n, d, "down")
           Room(s, p) == IF Len(s) < T30_size /\ Offers(n, p) THEN 1 ELSE 0
<1>1. l \in Seq(Word)
  BY DEF IInv, TypeOK
<1>2. /\ Filling(n).after = e /\ Filling(n).left = l /\ Filling(n).right = r
      /\ Filling(n).up = u /\ Filling(n).down = d
  BY DEF Filling
<1>3. Pushes(n) = {} <=>
        /\ ~(Len(l) < T30_size /\ Offers(n, "left"))
        /\ ~(Len(r) < T30_size /\ Offers(n, "right"))
        /\ ~(Len(u) < T30_size /\ Offers(n, "up"))
        /\ ~(Len(d) < T30_size /\ Offers(n, "down"))
  <2> HIDE DEF l, r, u, d
  <2>1. QED
    BY <1>2 DEF Pushes, Dir
<1> HIDE DEF l
<1>4. r \in Seq(Word) /\ Len(r) = Len(l) + Room(l, "left")
  BY <1>1, PushCounts DEF Dir
<1> HIDE DEF r
<1>5. u \in Seq(Word) /\ Len(u) = Len(r) + Room(r, "right")
  BY <1>4, PushCounts DEF Dir
<1> HIDE DEF u
<1>6. d \in Seq(Word) /\ Len(d) = Len(u) + Room(u, "up")
  BY <1>5, PushCounts DEF Dir
<1> HIDE DEF d
<1>7. Len(e) = Len(d) + Room(d, "down")
  BY <1>6, PushCounts DEF Dir
<1> HIDE DEF e
<1>8. Len(l) \in Nat /\ Len(r) \in Nat /\ Len(u) \in Nat /\ Len(d) \in Nat
  BY <1>1, <1>4, <1>5, <1>6, LenProperties
<1>9. Len(e) > Len(l) <=>
        \/ Room(l, "left") = 1 \/ Room(r, "right") = 1
        \/ Room(u, "up") = 1 \/ Room(d, "down") = 1
  <2>1. \A s, p : Room(s, p) \in {0, 1}
    OBVIOUS
  <2> HIDE DEF Room
  <2>2. QED
    BY <1>4, <1>5, <1>6, <1>7, <1>8, <2>1
<1>10. QED
  BY <1>2, <1>3, <1>9 DEF l

(* Taking the offered word out does not make a stack longer.               *)
LEMMA FinalizeShrinks ==
  ASSUME IInv, NEW n \in Regular, T30_Finalize(n)
  PROVE  ~(Len(t30'[n].data) > Len(t30[n].data)) /\ t30'[n].used = t30[n].used
<1>1. /\ save.type[n] = "T30" /\ t30 \in [Regular -> T30Type]
      /\ t30[n].data \in Seq(Word)
  BY DEF IInv, TypeOK, T30_Finalize, T30Type
<1>2. /\ t30'[n].used = t30[n].used
      /\ t30'[n].data = IF out[n].port # "any"
                        THEN Erase(t30[n].data, t30[n].prev_end)
                        ELSE t30[n].data
  BY <1>1 DEF T30_Finalize, T30Type
<1>3. Len(t30[n].data) \in Nat
  BY <1>1, LenProperties
<1>4. CASE out[n].port # "any"
  <2>1. t30[n].prev_end \in DOMAIN t30[n].data
    BY <1>1, <1>4 DEF IInv, StackKnowsTop
  <2>2. Len(Erase(t30[n].data, t30[n].prev_end)) = Len(t30[n].data) - 1
    BY <1>1, <2>1, EraseProperties
  <2>3. QED
    BY <1>2, <1>3, <1>4, <2>2
<1>5. CASE out[n].port = "any"
  BY <1>2, <1>3, <1>5
<1>6. QED
  BY <1>4, <1>5

Pushed(n) == save.type[n] = "T30" /\ t30[n].used

(* A step marks exactly the stacks it makes grow.                          *)
LEMMA StepMarks ==
  ASSUME IInv, [Next]_vars, NEW m \in Regular
  PROVE  Pushed(m)' <=> Pushed(m) \/ m \in Grown
<1>1. t30 \in [Regular -> T30Type] /\ t30[m].data \in Seq(Word)
  BY DEF IInv, TypeOK, T30Type
<1>2. Len(t30[m].data) \in Nat
  BY <1>1, LenProperties
<1>3. save' = save
  BY DEF Next, Handler, vars, setup, T21_StalledOnWrite, T21_StalledOnRead,
         T21_Compute, T21_StartWrite, T21_Hcf, T21_Finalize, T30_Step, T30_Finalize,
         Input_Finalize, Numeric_Step, Image_Step, NextCycle, EndRun, Signal,
         SetExpected, Returned
<1>4. ASSUME t30'[m] = t30[m] PROVE Pushed(m)' <=> Pushed(m) \/ m \in Grown
  BY <1>2, <1>3, <1>4 DEF Pushed, Grown
<1>5. ASSUME NEW n \in Regular, T30_Step(n)
      PROVE  Pushed(m)' <=> Pushed(m) \/ m \in Grown
  <2>1. /\ save.type[n] = "T30"
        /\ t30' = [t30 EXCEPT ![n].data = Filling(n).after,
                              ![n].used = @ \/ Pushes(n) # {}]
    BY <1>5 DEF T30_Step
  <2>2. CASE m # n
    BY <1>1, <1>4, <2>1, <2>2 DEF T30Type
  <2>3. CASE m = n
    <3>1. t30'[n].data = Filling(n).after
          /\ (t30'[n].used <=> t30[n].used \/ Pushes(n) # {})
      BY <1>1, <2>1 DEF T30Type
    <3>2. n \in Grown <=> Pushes(n) # {}
      BY <3>1, GrowsByPushing DEF Grown
    <3>3. QED
      BY <1>3, <2>1, <2>3, <3>1, <3>2 DEF Pushed
  <2>4. QED
    BY <2>2, <2>3
<1>6. ASSUME NEW n \in Regular, T30_Finalize(n)
      PROVE  Pushed(m)' <=> Pushed(m) \/ m \in Grown
  <2>1. CASE m # n
    <3>1. t30'[m] = t30[m]
      BY <1>1, <1>6, <2>1 DEF T30_Finalize, T30Type
    <3>2. QED
      BY <1>4, <3>1
  <2>2. CASE m = n
    BY <1>3, <1>6, <2>2, FinalizeShrinks DEF Pushed, Grown
  <2>3. QED
    BY <2>1, <2>2
<1>7. ASSUME NEW t \in Tests, SetExpected(t)
      PROVE  Pushed(m)' <=> Pushed(m) \/ m \in Grown
  <2>1. t30'[m].data = <<>> /\ t30'[m].used = t30[m].used
    BY <1>1, <1>7 DEF SetExpected, T30Reset, T30Type
  <2>2. m \notin Grown
    BY <1>2, <2>1, EmptySeq DEF Grown
  <2>3. QED
    BY <1>3, <2>1, <2>2 DEF Pushed
<1>8. \/ t30' = t30
      \/ \E n \in Regular : T30_Step(n) \/ T30_Finalize(n)
      \/ \E t \in Tests : SetExpected(t)
  BY DEF Next, Handler, vars, nodes, T21_StalledOnWrite, T21_StalledOnRead,
         T21_Compute, T21_StartWrite, T21_Hcf, T21_Finalize,
         Input_Finalize, Numeric_Step, Image_Step, NextCycle, EndRun, Signal
<1>9. QED
  BY <1>4, <1>5, <1>6, <1>7, <1>8

MemoryKnown == pushed = {n \in Regular : Pushed(n)}

(* For every solution and any number of tests put through the same field:  *)
(* the achievement goes to those whose stacks never took a word in.        *)
THEOREM NoMemoryAlwaysExact == ReplaySpec => []NoMemoryExact
<1>1. ReplayInit => IInv /\ MemoryKnown
  <2> SUFFICES ASSUME ReplayInit PROVE IInv /\ MemoryKnown
    OBVIOUS
  <2>1. IInv
    BY InitIInv DEF ReplayInit
  <2>2. \A n \in Regular : t30[n].used = FALSE
    BY DEF ReplayInit, Init, Loaded
  <2>3. QED
    BY <2>1, <2>2 DEF ReplayInit, MemoryKnown, Pushed
<1>2. IInv /\ MemoryKnown /\ [ReplayNext]_<<vars, scores, pushed>>
        => (IInv /\ MemoryKnown)'
  <2> SUFFICES ASSUME IInv, MemoryKnown, [ReplayNext]_<<vars, scores, pushed>>
               PROVE  IInv' /\ MemoryKnown'
    OBVIOUS
  <2>1. [Next]_vars
    BY DEF ReplayNext
  <2>2. IInv'
    BY <2>1, NextIInv
  <2>3. CASE ReplayNext
    <3>1. pushed' = pushed \cup Grown /\ Grown \subseteq Regular
      BY <2>3 DEF ReplayNext, Grown
    <3>2. \A m \in Regular : Pushed(m)' <=> Pushed(m) \/ m \in Grown
      BY <2>1, StepMarks
    <3>3. QED
      BY <2>2, <3>1, <3>2 DEF MemoryKnown
  <2>4. CASE UNCHANGED <<vars, scores, pushed>>
    BY <2>2, <2>4 DEF MemoryKnown, Pushed, vars, setup, nodes
  <2>5. QED
    BY <2>3, <2>4
<1>3. MemoryKnown => NoMemoryExact
  BY DEF MemoryKnown, Pushed, NoMemoryExact, NO_MEMORY
<1>4. QED
  BY <1>1, <1>2, <1>3, PTL DEF ReplaySpec

-----------------------------------------------------------------------------
(* Counting the copies of a word                                           *)

(* The cells of a family of streams, and those of them that hold w:        *)
(* Copies counts these.                                                    *)
Cells(S, stream) == UNION {{s} \X DOMAIN stream[s] : s \in S}

Holding(w, S, stream) == {c \in Cells(S, stream) : stream[c[1]][c[2]] = w}

One(P) == IF P THEN 1 ELSE 0

(* A cell is a stream and a position in it.                                *)
LEMMA CellIn ==
  ASSUME NEW S, NEW stream, NEW s, NEW k
  PROVE  <<s, k>> \in Cells(S, stream) <=> s \in S /\ k \in DOMAIN stream[s]
<1>1. ASSUME NEW t, <<s, k>> \in {t} \X DOMAIN stream[t]
      PROVE  s = t /\ k \in DOMAIN stream[s]
  BY <1>1
<1>2. s \in S /\ k \in DOMAIN stream[s] => <<s, k>> \in {s} \X DOMAIN stream[s]
  OBVIOUS
<1>3. QED
  BY <1>1, <1>2 DEF Cells

LEMMA CellShape ==
  ASSUME NEW S, NEW stream, NEW c \in Cells(S, stream)
  PROVE  c = <<c[1], c[2]>>
BY DEF Cells

(* Finitely many streams have finitely many cells.                         *)
LEMMA FiniteHolding ==
  ASSUME NEW S, IsFiniteSet(S), NEW stream \in [S -> Seq(Word)], NEW w
  PROVE  IsFiniteSet(Holding(w, S, stream)) /\ Copies(w, S, stream) \in Nat
<1> DEFINE col == [s \in S |-> {s} \X DOMAIN stream[s]]
           T == {{s} \X DOMAIN stream[s] : s \in S}
<1>1. col \in Surjection(S, T)
  BY DEF Surjection
<1>2. IsFiniteSet(T)
  BY <1>1, FS_Surjection
<1>3. ASSUME NEW s \in S PROVE IsFiniteSet({s} \X DOMAIN stream[s])
  <2>1. DOMAIN stream[s] = 1 .. Len(stream[s]) /\ Len(stream[s]) \in Nat
    BY LenProperties
  <2>2. IsFiniteSet(DOMAIN stream[s])
    BY <2>1, FS_Interval
  <2>3. QED
    BY <2>2, FS_Singleton, FS_Product
<1>4. IsFiniteSet(Cells(S, stream))
  BY <1>2, <1>3, FS_UNION DEF Cells
<1>5. Holding(w, S, stream) \in SUBSET Cells(S, stream)
  BY DEF Holding
<1>6. IsFiniteSet(Holding(w, S, stream))
  BY <1>4, <1>5, FS_Subset
<1>7. QED
  BY <1>6, FS_CardinalityType DEF Copies, Holding, Cells

(* What Copies counts.                                                     *)
LEMMA CopiesOfHolding ==
  ASSUME NEW w, NEW S, NEW stream
  PROVE  Copies(w, S, stream) = Cardinality(Holding(w, S, stream))
BY DEF Copies, Holding, Cells

(* A word joins the end of a stream.                                       *)
Joins(v, q, longer) == longer = Append(q, v)

LEMMA CopiesJoin ==
  ASSUME NEW S, IsFiniteSet(S), NEW stream \in [S -> Seq(Word)],
         NEW s \in S, NEW v \in Word, NEW w,
         NEW longer, Joins(v, stream[s], longer[s]),
         \A t \in S \ {s} : longer[t] = stream[t]
  PROVE  Copies(w, S, longer) = Copies(w, S, stream) + One(v = w)
<1> DEFINE k == Len(stream[s]) + 1
           H == Holding(w, S, stream)
           G == Holding(w, S, longer)
<1>1. longer[s] = Append(stream[s], v) /\ \A t \in S \ {s} : longer[t] = stream[t]
  BY DEF Joins
<1>2. /\ k \in Nat \ {0} /\ DOMAIN stream[s] = 1 .. k - 1
      /\ DOMAIN longer[s] = 1 .. k
      /\ longer[s][k] = v /\ \A j \in 1 .. k - 1 : longer[s][j] = stream[s][j]
  BY <1>1, LenProperties, AppendProperties
<1> HIDE DEF k
<1>3. <<s, k>> \notin H
  BY <1>2, CellIn DEF Holding
<1>4. G = IF v = w THEN H \cup {<<s, k>>} ELSE H
  <2>1. ASSUME NEW t \in S, NEW j
        PROVE  <<t, j>> \in G <=> <<t, j>> \in H \/ (t = s /\ j = k /\ v = w)
    <3>1. CASE t = s
      <4>1. <<t, j>> \in G <=> j \in 1 .. k /\ longer[s][j] = w
        BY <1>2, <3>1, CellIn DEF Holding
      <4>2. <<t, j>> \in H <=> j \in 1 .. k - 1 /\ stream[s][j] = w
        BY <1>2, <3>1, CellIn DEF Holding
      <4>3. j \in 1 .. k <=> j \in 1 .. k - 1 \/ j = k
        BY <1>2
      <4>4. QED
        BY <1>2, <3>1, <4>1, <4>2, <4>3
    <3>2. CASE t # s
      BY <1>1, <3>2, CellIn DEF Holding
    <3>3. QED
      BY <3>1, <3>2
  <2>2. \A c \in G \cup H : c = <<c[1], c[2]>> /\ c[1] \in S
    BY CellIn, CellShape DEF Holding
  <2>3. \A c : c \in G <=> c \in H \/ (c = <<s, k>> /\ v = w)
    <3> HIDE DEF G, H
    <3>1. QED
      BY <2>1, <2>2
  <2>4. QED
    <3> HIDE DEF G, H
    <3>1. QED
      BY <2>3
<1>5. IsFiniteSet(H) /\ Cardinality(H) \in Nat
  BY FiniteHolding, FS_CardinalityType
<1> HIDE DEF G, H
<1>6. Cardinality(G) = Cardinality(H) + One(v = w)
  <2>1. Cardinality(H \cup {<<s, k>>}) = Cardinality(H) + 1
    BY <1>3, <1>5, FS_AddElement
  <2>2. QED
    BY <1>4, <1>5, <2>1 DEF One
<1>7. QED
  BY <1>6, CopiesOfHolding DEF G, H

(* The cells of a stream less its k-th, in order.                          *)
LEMMA ErasedCells ==
  ASSUME NEW q \in Seq(Word), NEW k \in DOMAIN q
  PROVE  /\ Erase(q, k) \in Seq(Word) /\ DOMAIN q = 1 .. Len(q) /\ Len(q) \in Nat \ {0}
         /\ k \in 1 .. Len(q)
         /\ DOMAIN Erase(q, k) = 1 .. Len(q) - 1
         /\ \A j \in 1 .. Len(q) - 1 :
              Erase(q, k)[j] = IF j < k THEN q[j] ELSE q[j + 1]
<1> DEFINE a == SubSeq(q, 1, k - 1)
           b == SubSeq(q, k + 1, Len(q))
<1>1. Len(q) \in Nat \ {0} /\ DOMAIN q = 1 .. Len(q) /\ k \in 1 .. Len(q)
  BY LenProperties
<1>2. \A i \in 1 .. Len(q) : q[i] \in Word
  BY ElementOfSeq
<1>3. /\ a \in Seq(Word) /\ Len(a) = k - 1
      /\ \A i \in 1 .. k - 1 : a[i] = q[i]
  BY <1>1, <1>2, SubSeqProperties
<1>4. /\ b \in Seq(Word) /\ Len(b) = Len(q) - k
      /\ \A i \in 1 .. Len(q) - k : b[i] = q[i + k]
  BY <1>1, <1>2, SubSeqProperties
<1>5. Erase(q, k) = a \o b
  BY DEF Erase
<1> HIDE DEF a, b
<1>6. /\ Erase(q, k) \in Seq(Word) /\ Len(Erase(q, k)) = Len(q) - 1
      /\ \A j \in 1 .. Len(q) - 1 :
           Erase(q, k)[j] = IF j <= k - 1 THEN a[j] ELSE b[j - (k - 1)]
  <2>1. Len(a) + Len(b) = Len(q) - 1
    BY <1>1, <1>3, <1>4
  <2>2. /\ a \o b \in Seq(Word) /\ Len(a \o b) = Len(a) + Len(b)
        /\ \A j \in 1 .. Len(a) + Len(b) :
             (a \o b)[j] = IF j <= Len(a) THEN a[j] ELSE b[j - Len(a)]
    BY <1>3, <1>4, ConcatProperties
  <2>3. QED
    BY <1>3, <1>5, <2>1, <2>2
<1>7. DOMAIN Erase(q, k) = 1 .. Len(q) - 1
  BY <1>6, LenProperties
<1>8. ASSUME NEW j \in 1 .. Len(q) - 1
      PROVE  Erase(q, k)[j] = IF j < k THEN q[j] ELSE q[j + 1]
  <2>1. CASE j < k
    BY <1>1, <1>3, <1>6, <2>1
  <2>2. CASE ~(j < k)
    <3>1. j - (k - 1) \in 1 .. Len(q) - k /\ j - (k - 1) + k = j + 1
      BY <1>1, <2>2
    <3>2. b[j - (k - 1)] = q[j + 1]
      BY <1>4, <3>1
    <3>3. QED
      BY <1>1, <1>6, <2>2, <3>2
  <2>3. QED
    BY <2>1, <2>2
<1>9. QED
  BY <1>1, <1>6, <1>7, <1>8

(* A word leaves a stream, wherever it stands in it.                       *)
LEMMA CopiesLeave ==
  ASSUME NEW S, IsFiniteSet(S), NEW stream \in [S -> Seq(Word)],
         NEW s \in S, NEW k \in DOMAIN stream[s], NEW w,
         NEW shorter, shorter[s] = Erase(stream[s], k),
         \A t \in S \ {s} : shorter[t] = stream[t]
  PROVE  Copies(w, S, shorter) = Copies(w, S, stream) - One(stream[s][k] = w)
<1> DEFINE n == Len(stream[s])
           H == Holding(w, S, stream) \ {<<s, k>>}
           G == Holding(w, S, shorter)
           f == [c \in H |-> IF c[1] = s /\ c[2] > k THEN <<s, c[2] - 1>> ELSE c]
<1>1. /\ n \in Nat \ {0} /\ DOMAIN stream[s] = 1 .. n /\ k \in 1 .. n
      /\ Erase(stream[s], k) \in Seq(Word)
      /\ DOMAIN Erase(stream[s], k) = 1 .. n - 1
      /\ \A j \in 1 .. n - 1 :
           Erase(stream[s], k)[j] = IF j < k THEN stream[s][j] ELSE stream[s][j + 1]
  BY ErasedCells
<1>2. shorter[s] = Erase(stream[s], k) /\ \A t \in S \ {s} : shorter[t] = stream[t]
  OBVIOUS
<1> HIDE DEF n
<1>3. ASSUME NEW t \in S, NEW j
      PROVE  /\ <<t, j>> \in H <=>
                  /\ j \in DOMAIN stream[t] /\ stream[t][j] = w
                  /\ ~(t = s /\ j = k)
             /\ <<t, j>> \in G <=> j \in DOMAIN shorter[t] /\ shorter[t][j] = w
  BY CellIn DEF Holding
<1>4. \A c \in G \cup H : c = <<c[1], c[2]>> /\ c[1] \in S
  BY CellIn, CellShape DEF Holding
<1> HIDE DEF G, H
<1>5. ASSUME NEW c \in H
      PROVE  /\ f[c] \in G /\ f[c][1] = c[1]
             /\ c[1] = s => /\ c[2] \in (1 .. n) \ {k}
                            /\ f[c][2] = IF c[2] > k THEN c[2] - 1 ELSE c[2]
             /\ c[1] # s => f[c] = c
  <2>1. /\ c = <<c[1], c[2]>> /\ c[1] \in S
        /\ f[c] = IF c[1] = s /\ c[2] > k THEN <<s, c[2] - 1>> ELSE c
    BY <1>4
  <2>2. CASE c[1] = s
    <3> DEFINE j == c[2]
    <3>1. j \in (1 .. n) \ {k} /\ stream[s][j] = w
      BY <1>1, <1>3, <2>1, <2>2
    <3> HIDE DEF j
    <3>2. CASE j > k
      <4>1. f[c] = <<s, j - 1>>
        BY <2>1, <2>2, <3>2 DEF j
      <4>2. j - 1 \in 1 .. n - 1 /\ ~(j - 1 < k) /\ j - 1 + 1 = j
        BY <1>1, <3>1, <3>2
      <4>3. shorter[s][j - 1] = w
        BY <1>1, <1>2, <3>1, <4>2
      <4>4. QED
        BY <1>1, <1>2, <1>3, <2>2, <3>1, <3>2, <4>1, <4>2, <4>3 DEF j
    <3>3. CASE ~(j > k)
      <4>1. f[c] = <<s, j>>
        BY <2>1, <2>2, <3>3 DEF j
      <4>2. j \in 1 .. n - 1 /\ j < k
        BY <1>1, <3>1, <3>3
      <4>3. shorter[s][j] = w
        BY <1>1, <1>2, <3>1, <4>2
      <4>4. QED
        <5>1. <<s, j>> \in G
          BY <1>1, <1>2, <1>3, <4>2, <4>3
        <5>2. QED
          BY <2>2, <3>1, <3>3, <4>1, <5>1 DEF j
    <3>4. QED
      BY <3>2, <3>3
  <2>3. CASE c[1] # s
    BY <1>2, <1>3, <2>1, <2>3
  <2>4. QED
    BY <2>2, <2>3
<1>6. ASSUME NEW c \in H, NEW d \in H, f[c] = f[d] PROVE c = d
  <2>1. c[1] = d[1]
    BY <1>5, <1>6
  <2>2. CASE c[1] # s
    BY <1>5, <1>6, <2>1, <2>2
  <2>3. CASE c[1] = s
    <3>1. c[2] \in (1 .. n) \ {k} /\ d[2] \in (1 .. n) \ {k}
          /\ (IF c[2] > k THEN c[2] - 1 ELSE c[2]) = (IF d[2] > k THEN d[2] - 1 ELSE d[2])
      BY <1>5, <1>6, <2>1, <2>3
    <3>2. c[2] = d[2]
      BY <1>1, <3>1
    <3>3. QED
      BY <1>4, <2>1, <3>2
  <2>4. QED
    BY <2>2, <2>3
<1>7. ASSUME NEW e \in G PROVE \E c \in H : f[c] = e
  <2>1. e = <<e[1], e[2]>> /\ e[1] \in S
    BY <1>4
  <2>2. CASE e[1] # s
    <3>1. e \in H
      BY <1>2, <1>3, <2>1, <2>2
    <3>2. QED
      BY <1>5, <2>2, <3>1
  <2>3. CASE e[1] = s
    <3> DEFINE j == e[2]
               i == IF j < k THEN j ELSE j + 1
    <3>1. j \in 1 .. n - 1 /\ shorter[s][j] = w
      BY <1>1, <1>2, <1>3, <2>1, <2>3
    <3> HIDE DEF j
    <3>2. i \in (1 .. n) \ {k} /\ stream[s][i] = w
      BY <1>1, <1>2, <3>1
    <3>3. <<s, i>> \in H
      BY <1>1, <1>3, <3>2
    <3>4. f[<<s, i>>] = <<s, j>>
      BY <1>1, <3>1, <3>3
    <3>5. QED
      BY <2>1, <2>3, <3>3, <3>4 DEF j
  <2>4. QED
    BY <2>2, <2>3
<1>8. f \in Bijection(H, G)
  <2>1. f \in [H -> G]
    BY <1>5
  <2> HIDE DEF f
  <2>2. QED
    BY <1>6, <1>7, <2>1, Fun_IsBij
<1>9. /\ IsFiniteSet(Holding(w, S, stream)) /\ Cardinality(Holding(w, S, stream)) \in Nat
  BY FiniteHolding, FS_CardinalityType
<1>10. /\ IsFiniteSet(H)
       /\ Cardinality(H) = Cardinality(Holding(w, S, stream)) - One(stream[s][k] = w)
  <2>1. <<s, k>> \in Holding(w, S, stream) <=> stream[s][k] = w
    BY CellIn DEF Holding
  <2>2. QED
    BY <1>9, <2>1, FS_RemoveElement DEF H, One
<1>11. Cardinality(G) = Cardinality(H)
  <2>1. ExistsBijection(H, G)
    BY <1>8 DEF ExistsBijection
  <2>2. QED
    BY <1>10, <2>1, FS_Bijection
<1>12. QED
  BY <1>10, <1>11, CopiesOfHolding DEF G

-----------------------------------------------------------------------------
(* What the nodes hold: on a stack and not yet taken, or on a port.  The   *)
(* operators take `out` and the stacks as parameters, so that a step that  *)
(* moves several words can be followed from word to word.                  *)

Unsent(o, data) ==
  [n \in Regular |->
     IF save.type[n] = "T30" /\ o[n].port # "any"
     THEN Erase(data[n], t30[n].prev_end) ELSE data[n]]

OnWire(w, o) ==
  {m \in DOMAIN o : o[m].word = w /\ (m \in Regular => save.type[m] = "T21")}

Stock(w, o, data) ==
  Copies(w, Regular, Unsent(o, data)) + Cardinality(OnWire(w, o))

DataType == [Regular -> Seq(Word)]

(* The stacks offer what prev_end points at, or have just lost it.         *)
Matching(o, data) ==
  \A n \in Regular : save.type[n] = "T30" =>
    /\ o[n].word # word_empty =>
         /\ o[n].port = "any"
         /\ t30[n].prev_end \in DOMAIN data[n]
         /\ data[n][t30[n].prev_end] = o[n].word
    /\ o[n].port # "any" => t30[n].prev_end \in DOMAIN data[n]

(* A level is finite.                                                      *)
LEMMA FinitePlaces ==
  IsFiniteSet(Regular) /\ IsFiniteSet(Inputs) /\ IsFiniteSet(Numerics)
<1>1. /\ IsFiniteSet(0 .. Width - 1) /\ IsFiniteSet(0 .. Height - 1)
  BY FS_Interval, LayoutAssumption
<1>2. IsFiniteSet(InputCols) /\ IsFiniteSet(NumericCols)
  BY <1>1, FS_Subset, LayoutAssumption
<1>3. /\ Regular = (0 .. Width - 1) \X (0 .. Height - 1)
      /\ Inputs = InputCols \X {-1} /\ Numerics = NumericCols \X {Height}
  BY DEF Regular, Inputs, Numerics
<1>4. QED
  BY <1>1, <1>2, <1>3, FS_Product, FS_Singleton

(* What the nodes hold can be counted.                                     *)
LEMMA StockTypes ==
  ASSUME NEW o \in OutType, NEW data \in DataType, Matching(o, data), NEW w
  PROVE  /\ Unsent(o, data) \in DataType
         /\ IsFiniteSet(OnWire(w, o))
         /\ Cardinality(OnWire(w, o)) \in Nat
         /\ Copies(w, Regular, Unsent(o, data)) \in Nat
<1>1. ASSUME NEW n \in Regular PROVE Unsent(o, data)[n] \in Seq(Word)
  BY ErasedCells DEF Unsent, Matching, DataType
<1>2. Unsent(o, data) \in DataType
  BY <1>1 DEF Unsent, DataType
<1>3. OnWire(w, o) \in SUBSET (Regular \cup Inputs)
  BY DEF OnWire, OutType
<1>4. IsFiniteSet(OnWire(w, o))
  BY <1>3, FinitePlaces, FS_Union, FS_Subset
<1>5. QED
  BY <1>2, <1>4, FinitePlaces, FiniteHolding, FS_CardinalityType DEF DataType

(* A node whose word is taken holds a word less.                           *)
LEMMA WordTaken ==
  ASSUME NEW o \in OutType, NEW data \in DataType, Matching(o, data),
         NEW w \in Word, NEW m \in Regular \cup Inputs,
         m \in Regular => save.type[m] \in {"T21", "T30"},
         o[m].word \in Word,
         NEW after \in OutType, after[m].word = word_empty, after[m].port # "any",
         \A n \in (Regular \cup Inputs) \ {m} : after[n] = o[n]
  PROVE  /\ Matching(after, data)
         /\ Stock(w, after, data) = Stock(w, o, data) - One(o[m].word = w)
<1> DEFINE k == t30[m].prev_end
<1>1. /\ after[m].word = word_empty /\ after[m].port # "any"
      /\ \A n \in Regular \cup Inputs : n # m => after[n] = o[n]
  OBVIOUS
<1>2. /\ word_empty \notin Word /\ DOMAIN after = DOMAIN o
      /\ DOMAIN o = Regular \cup Inputs
  BY WordFacts DEF OutType
<1>3. IsFiniteSet(OnWire(w, o)) /\ Cardinality(OnWire(w, o)) \in Nat
      /\ Copies(w, Regular, Unsent(o, data)) \in Nat
  BY StockTypes
<1>4. Matching(after, data)
  <2> SUFFICES ASSUME NEW n \in Regular, save.type[n] = "T30"
      PROVE  /\ after[n].word # word_empty =>
                  /\ after[n].port = "any" /\ t30[n].prev_end \in DOMAIN data[n]
                  /\ data[n][t30[n].prev_end] = after[n].word
             /\ after[n].port # "any" => t30[n].prev_end \in DOMAIN data[n]
    BY DEF Matching
  <2>1. CASE n = m
    BY <1>1, <1>2, <2>1 DEF Matching
  <2>2. CASE n # m
    BY <1>1, <2>2 DEF Matching
  <2>3. QED
    BY <2>1, <2>2
<1>5. CASE m \in Regular /\ save.type[m] = "T30"
  <2>1. o[m].port = "any" /\ k \in DOMAIN data[m] /\ data[m][k] = o[m].word
    BY <1>2, <1>5 DEF Matching
  <2>2. /\ Unsent(after, data)[m] = Erase(data[m], k) /\ Unsent(o, data)[m] = data[m]
        /\ \A n \in Regular \ {m} : Unsent(after, data)[n] = Unsent(o, data)[n]
    BY <1>1, <1>5, <2>1 DEF Unsent
  <2>3. Unsent(o, data) \in [Regular -> Seq(Word)]
    BY StockTypes DEF DataType
  <2>4. Copies(w, Regular, Unsent(after, data)) =
          Copies(w, Regular, Unsent(o, data)) - One(o[m].word = w)
    <3> DEFINE p == Unsent(o, data)
               q == Unsent(after, data)
    <3>1. /\ p \in [Regular -> Seq(Word)] /\ k \in DOMAIN p[m]
          /\ q[m] = Erase(p[m], k) /\ \A n \in Regular \ {m} : q[n] = p[n]
          /\ IsFiniteSet(Regular) /\ m \in Regular
      BY <1>5, <2>1, <2>2, <2>3, FinitePlaces
    <3>2. p[m][k] = o[m].word
      BY <2>1, <2>2
    <3> HIDE DEF p, q, k
    <3>3. Copies(w, Regular, q) = Copies(w, Regular, p) - One(p[m][k] = w)
      BY <3>1, CopiesLeave, Z3 DEF One
    <3>4. QED
      BY <3>2, <3>3 DEF p, q
  <2>5. OnWire(w, after) = OnWire(w, o)
    BY <1>1, <1>2, <1>5 DEF OnWire
  <2>6. QED
    BY <1>1, <1>3, <1>4, <2>4, <2>5 DEF Stock, One
<1>6. CASE m \in Regular => save.type[m] = "T21"
  <2>1. Unsent(after, data) = Unsent(o, data)
    BY <1>1, <1>6 DEF Unsent
  <2>2. OnWire(w, after) = OnWire(w, o) \ {m}
    BY <1>1, <1>2, <1>6 DEF OnWire
  <2>3. m \in OnWire(w, o) <=> o[m].word = w
    BY <1>2, <1>6 DEF OnWire
  <2>4. Cardinality(OnWire(w, after)) =
          Cardinality(OnWire(w, o)) - One(o[m].word = w)
    <3>1. Cardinality(OnWire(w, o) \ {m}) =
            IF m \in OnWire(w, o) THEN Cardinality(OnWire(w, o)) - 1
            ELSE Cardinality(OnWire(w, o))
      BY <1>3, FS_RemoveElement
    <3>2. QED
      BY <1>3, <2>2, <2>3, <3>1 DEF One
  <2>5. QED
    BY <1>1, <1>3, <1>4, <2>1, <2>4 DEF Stock, One
<1>7. QED
  BY <1>5, <1>6

(* A T21 or an input that had no word and gets one holds a word more.      *)
LEMMA WordGiven ==
  ASSUME NEW o \in OutType, NEW data \in DataType, Matching(o, data),
         NEW w \in Word, NEW m \in Regular \cup Inputs, NEW v \in Word,
         m \in Regular => save.type[m] = "T21",
         o[m].word = word_empty,
         NEW after \in OutType, after[m].word = v,
         \A n \in (Regular \cup Inputs) \ {m} : after[n] = o[n]
  PROVE  Stock(w, after, data) = Stock(w, o, data) + One(v = w)
<1>1. /\ after[m].word = v /\ DOMAIN after = DOMAIN o /\ m \in DOMAIN o
      /\ \A n \in DOMAIN o : n # m => after[n] = o[n]
      /\ DOMAIN o = Regular \cup Inputs
  BY DEF OutType
<1>2. word_empty \notin Word
  BY WordFacts
<1>3. IsFiniteSet(OnWire(w, o)) /\ Cardinality(OnWire(w, o)) \in Nat
      /\ Copies(w, Regular, Unsent(o, data)) \in Nat
  BY StockTypes
<1>4. Unsent(after, data) = Unsent(o, data)
  BY <1>1 DEF Unsent
<1>5. m \notin OnWire(w, o)
  BY <1>2 DEF OnWire
<1>6. OnWire(w, after) = IF v = w THEN OnWire(w, o) \cup {m} ELSE OnWire(w, o)
  BY <1>1, <1>2, <1>5 DEF OnWire
<1>7. Cardinality(OnWire(w, after)) = Cardinality(OnWire(w, o)) + One(v = w)
  <2>1. Cardinality(OnWire(w, o) \cup {m}) = Cardinality(OnWire(w, o)) + 1
    BY <1>3, <1>5, FS_AddElement
  <2>2. QED
    BY <1>3, <1>6, <2>1 DEF One
<1>8. QED
  BY <1>3, <1>4, <1>7 DEF Stock, One

(* A stack that takes a word in holds a word more, whether or not it has   *)
(* just lost one that finalize has yet to erase.                           *)
LEMMA WordStacked ==
  ASSUME NEW o \in OutType, NEW data \in DataType, Matching(o, data),
         NEW w \in Word, NEW n \in Regular, save.type[n] = "T30", NEW v \in Word
  PROVE  \A after \in DataType :
           /\ after[n] = Append(data[n], v)
           /\ \A m \in Regular \ {n} : after[m] = data[m]
           => /\ Matching(o, after)
              /\ Stock(w, o, after) = Stock(w, o, data) + One(v = w)
<1> DEFINE k == t30[n].prev_end
<1> SUFFICES ASSUME NEW after \in DataType, after[n] = Append(data[n], v),
                    \A m \in Regular \ {n} : after[m] = data[m]
             PROVE  /\ Matching(o, after)
                    /\ Stock(w, o, after) = Stock(w, o, data) + One(v = w)
  OBVIOUS
<1>1. /\ after[n] = Append(data[n], v)
      /\ \A m \in Regular : m # n => after[m] = data[m]
  OBVIOUS
<1>2. /\ data[n] \in Seq(Word) /\ Len(data[n]) \in Nat
      /\ DOMAIN data[n] = 1 .. Len(data[n])
      /\ after[n] \in Seq(Word) /\ Len(after[n]) = Len(data[n]) + 1
      /\ DOMAIN after[n] = 1 .. Len(data[n]) + 1
      /\ after[n][Len(data[n]) + 1] = v
      /\ \A j \in 1 .. Len(data[n]) : after[n][j] = data[n][j]
  BY <1>1, LenProperties, AppendProperties DEF DataType
<1>3. Matching(o, after)
  <2>1. DOMAIN data[n] \subseteq DOMAIN after[n]
    BY <1>2
  <2>2. \A m \in Regular : /\ DOMAIN data[m] \subseteq DOMAIN after[m]
                           /\ \A j \in DOMAIN data[m] : after[m][j] = data[m][j]
    BY <1>1, <1>2, <2>1
  <2>3. QED
    BY <2>2 DEF Matching
<1>4. Unsent(o, data) \in DataType
  BY StockTypes
<1>5. /\ Unsent(o, after)[n] = Append(Unsent(o, data)[n], v)
      /\ \A m \in Regular \ {n} : Unsent(o, after)[m] = Unsent(o, data)[m]
  <2>1. CASE o[n].port = "any"
    BY <1>1, <2>1 DEF Unsent
  <2>2. CASE o[n].port # "any"
    <3>1. k \in DOMAIN data[n]
      BY <2>2 DEF Matching
    <3>2. Erase(after[n], k) = Append(Erase(data[n], k), v)
      <4> DEFINE a == Erase(after[n], k)
                 b == Append(Erase(data[n], k), v)
                 len == Len(data[n])
      <4>1. /\ len \in Nat \ {0} /\ k \in 1 .. len /\ Erase(data[n], k) \in Seq(Word)
            /\ DOMAIN Erase(data[n], k) = 1 .. len - 1
            /\ \A j \in 1 .. len - 1 : Erase(data[n], k)[j] =
                 IF j < k THEN data[n][j] ELSE data[n][j + 1]
        BY <1>2, <3>1, ErasedCells
      <4>2. Len(Erase(data[n], k)) = len - 1
        BY <4>1, LenProperties
      <4>3. k \in DOMAIN after[n] /\ Len(after[n]) - 1 = len
        BY <1>2, <4>1
      <4>4. /\ a \in Seq(Word) /\ DOMAIN a = 1 .. len
            /\ \A j \in 1 .. len : a[j] = IF j < k THEN after[n][j] ELSE after[n][j + 1]
        <5>1. after[n] \in Seq(Word) /\ k \in DOMAIN after[n]
          BY <1>2, <4>3
        <5>2. /\ a \in Seq(Word) /\ DOMAIN a = 1 .. Len(after[n]) - 1
              /\ \A j \in 1 .. Len(after[n]) - 1 :
                   a[j] = IF j < k THEN after[n][j] ELSE after[n][j + 1]
          BY <5>1, ErasedCells
        <5>3. QED
          BY <4>3, <5>2
      <4>5. /\ b \in Seq(Word) /\ Len(b) = len /\ b[len] = v
            /\ \A j \in 1 .. len - 1 : b[j] = Erase(data[n], k)[j]
        BY <4>1, <4>2, AppendProperties
      <4>6. Len(a) = len
        BY <4>1, <4>4, LenProperties
      <4> HIDE DEF a, b
      <4>7. ASSUME NEW j \in 1 .. len PROVE a[j] = b[j]
        <5>1. CASE j = len
          BY <1>2, <4>1, <4>4, <4>5, <5>1
        <5>2. CASE j < k
          <6>1. j \in 1 .. len - 1 /\ j \in 1 .. Len(data[n])
            BY <4>1, <5>2
          <6>2. QED
            BY <1>2, <4>1, <4>4, <4>5, <5>2, <6>1
        <5>3. CASE j # len /\ ~(j < k)
          <6>1. j \in 1 .. len - 1 /\ j + 1 \in 1 .. Len(data[n])
            BY <4>1, <5>3
          <6>2. QED
            BY <1>2, <4>1, <4>4, <4>5, <5>3, <6>1
        <5>4. QED
          BY <5>1, <5>2, <5>3
      <4>8. a = b
        BY <4>4, <4>5, <4>6, <4>7, SeqEqual
      <4>9. QED
        BY <4>8 DEF a, b
    <3>3. QED
      BY <1>1, <2>2, <3>2 DEF Unsent
  <2>3. QED
    BY <2>1, <2>2
<1>6. Copies(w, Regular, Unsent(o, after)) =
        Copies(w, Regular, Unsent(o, data)) + One(v = w)
  <2> DEFINE p == Unsent(o, data)
             q == Unsent(o, after)
  <2>1. /\ p \in [Regular -> Seq(Word)] /\ Joins(v, p[n], q[n])
        /\ \A m \in Regular \ {n} : q[m] = p[m]
        /\ IsFiniteSet(Regular) /\ n \in Regular /\ v \in Word
    BY <1>4, <1>5, FinitePlaces DEF DataType, Joins
  <2> HIDE DEF p, q
  <2>2. Copies(w, Regular, q) = Copies(w, Regular, p) + One(v = w)
    BY ONLY <2>1, CopiesJoin, Z3 DEF One
  <2>3. QED
    BY <2>2 DEF p, q
<1>7. Cardinality(OnWire(w, o)) \in Nat /\ Copies(w, Regular, Unsent(o, data)) \in Nat
  BY StockTypes
<1>8. QED
  BY <1>1, <1>3, <1>6, <1>7 DEF Stock, One

-----------------------------------------------------------------------------
(* Reading from several neighbours, one after the other                    *)

(* Two directions lead to two nodes.                                       *)
LEMMA NeighboursDiffer ==
  ASSUME NEW n \in Regular, NEW d \in Dir, NEW e \in Dir, d # e
  PROVE  Neighbour(n, d) # Neighbour(n, e)
<1>1. n[1] \in Int /\ n[2] \in Int
  BY LayoutAssumption DEF Regular
<1>2. QED
  BY <1>1 DEF Neighbour, delta_lookup, Dir

(* What reading leaves of each node.                                       *)
LEMMA ReadFromAt ==
  ASSUME IInv, NEW n \in Regular, NEW D \in SUBSET Dir
  PROVE  /\ \A d \in D : Neighbour(n, d) \in Regular \cup Inputs =>
              ReadFrom(n, D)[Neighbour(n, d)] = Emitted(Neighbour(n, d), invert[d])
         /\ \A m \in Regular \cup Inputs : (\A d \in D : m # Neighbour(n, d)) =>
              ReadFrom(n, D)[m] = out[m]
         /\ ReadFrom(n, {}) = out
<1>1. DOMAIN out = Regular \cup Inputs /\ out = [m \in DOMAIN out |-> out[m]]
  BY DEF IInv, TypeOK
<1>2. ASSUME NEW d \in D, Neighbour(n, d) \in Regular \cup Inputs
      PROVE  ReadFrom(n, D)[Neighbour(n, d)] = Emitted(Neighbour(n, d), invert[d])
  <2> DEFINE e == CHOOSE c \in D : Neighbour(n, d) = Neighbour(n, c)
  <2>1. e \in D /\ Neighbour(n, d) = Neighbour(n, e)
    OBVIOUS
  <2>2. e = d
    BY <2>1, NeighboursDiffer
  <2>3. ReadFrom(n, D)[Neighbour(n, d)] = Emitted(Neighbour(n, d), invert[e])
    BY <1>1, <1>2 DEF ReadFrom
  <2>4. QED
    BY <2>2, <2>3
<1>3. \A m \in Regular \cup Inputs : (\A d \in D : m # Neighbour(n, d)) =>
        ReadFrom(n, D)[m] = out[m]
  BY <1>1 DEF ReadFrom
<1>4. ReadFrom(n, {}) = out
  BY <1>1 DEF ReadFrom
<1>5. QED
  BY <1>2, <1>3, <1>4

(* One more neighbour is read from: it alone has lost its word.            *)
LEMMA ReadOneMore ==
  ASSUME IInv, NEW n \in Regular, NEW D \in SUBSET Dir, NEW d \in Dir \ D,
         \A e \in D \cup {d} : Offers(n, e)
  PROVE  LET m == Neighbour(n, d) IN
         /\ m \in Regular \cup Inputs /\ out[m].word \in Word
         /\ m \in Regular => save.type[m] \in {"T21", "T30"}
         /\ ReadFrom(n, D) \in OutType /\ ReadFrom(n, D \cup {d}) \in OutType
         /\ ReadFrom(n, D)[m] = out[m]
         /\ ReadFrom(n, D \cup {d})[m].word = word_empty
         /\ ReadFrom(n, D \cup {d})[m].port # "any"
         /\ \A k \in (Regular \cup Inputs) \ {m} :
              ReadFrom(n, D \cup {d})[k] = ReadFrom(n, D)[k]
<1> DEFINE m == Neighbour(n, d)
<1>1. <<n, d>> \in links /\ Offers(n, d)
  BY DEF Offers
<1>2. m \in Regular \cup Inputs /\ out[m].word \in Word
  BY <1>1, LinkTarget, OfferedWord DEF IInv
<1>3. m \in Regular => save.type[m] \in {"T21", "T30"}
  <2>1. m \in Inputs => m \notin Regular
    BY LayoutAssumption DEF Inputs, Regular
  <2>2. QED
    BY <1>1, <2>1 DEF IInv, Setup, Links, useful
<1>4. ReadFrom(n, D) \in OutType /\ ReadFrom(n, D \cup {d}) \in OutType
  BY ReadFromEffect
<1>5. ReadFrom(n, D)[m] = out[m]
  BY <1>2, ReadFromAt, NeighboursDiffer
<1>6. ReadFrom(n, D \cup {d})[m] = Emitted(m, invert[d])
  BY <1>2, ReadFromAt
<1>7. Emitted(m, invert[d]).word = word_empty /\ Emitted(m, invert[d]).port # "any"
  BY EmittedType, InvertDir DEF Dir
<1>8. ASSUME NEW k \in (Regular \cup Inputs) \ {m}
      PROVE  ReadFrom(n, D \cup {d})[k] = ReadFrom(n, D)[k]
  <2>1. CASE \E e \in D : k = Neighbour(n, e)
    BY <2>1, ReadFromAt
  <2>2. CASE \A e \in D : k # Neighbour(n, e)
    BY <2>2, ReadFromAt
  <2>3. QED
    BY <2>1, <2>2
<1>9. QED
  BY <1>2, <1>3, <1>4, <1>5, <1>6, <1>7, <1>8

-----------------------------------------------------------------------------
(* The balance of a word                                                   *)

(* The stacks as they are, and the balance of a word: what the test gave   *)
(* is still ahead of the inputs, with the nodes, or received.              *)
Held == [n \in Regular |-> t30[n].data]

Balance(w) ==
  Copies(w, Inputs, test.inputs) =
    Copies(w, Inputs, Ahead) + Stock(w, out, Held) + Copies(w, Numerics, Got)

(* Where every number of a balance comes from is a sequence of words.      *)
LEMMA BalanceTypes ==
  ASSUME StackInv, NEW w
  PROVE  /\ out \in OutType /\ Held \in DataType /\ Matching(out, Held)
         /\ test.inputs \in [Inputs -> Seq(Word)]
         /\ Ahead \in [Inputs -> Seq(Word)] /\ Got \in [Numerics -> Seq(Word)]
         /\ Copies(w, Inputs, test.inputs) \in Nat
         /\ Copies(w, Inputs, Ahead) \in Nat
         /\ Copies(w, Numerics, Got) \in Nat
         /\ Stock(w, out, Held) \in Nat
<1>1. /\ out \in OutType /\ Held \in DataType
      /\ test.inputs \in [Inputs -> Seq(Word)] /\ Got \in [Numerics -> Seq(Word)]
      /\ idx \in [Inputs -> Nat]
  BY DEF StackInv, IInv, TypeOK, OutType, Held, DataType, Got, IsTest
<1>2. Matching(out, Held)
  BY DEF StackInv, StacksGood, StackGood, Matching, Held
<1>3. ASSUME NEW i \in Inputs PROVE Ahead[i] \in Seq(Word)
  <2>1. Len(test.inputs[i]) \in Nat /\ idx[i] \in Nat
    BY <1>1, LenProperties
  <2>2. \A j \in idx[i] + 1 .. Len(test.inputs[i]) : test.inputs[i][j] \in Word
    BY <1>1, <2>1, ElementOfSeq
  <2>3. SubSeq(test.inputs[i], idx[i] + 1, Len(test.inputs[i])) \in Seq(Word)
    BY <2>1, <2>2, SubSeqProperties
  <2>4. QED
    BY <2>3 DEF Ahead
<1>4. Ahead \in [Inputs -> Seq(Word)]
  BY <1>3 DEF Ahead
<1>5. Stock(w, out, Held) \in Nat
  BY <1>1, <1>2, StockTypes DEF Stock
<1>6. QED
  BY <1>1, <1>2, <1>4, <1>5, FiniteHolding, FinitePlaces

(* The balance of every word is what WordsConserved says.                  *)
LEMMA BalanceIsConservation ==
  ASSUME StackInv, MovesOnly /\ Images = {} => \A w \in Word : Balance(w)
  PROVE  WordsConserved
<1> DEFINE Wired(w) == {m \in DOMAIN out : out[m].word = w
                          /\ (m \in Regular => save.type[m] = "T21")}
<1> SUFFICES ASSUME NEW w \in Word, Balance(w)
    PROVE  Copies(w, Inputs, test.inputs) =
             Copies(w, Inputs, Ahead) + Copies(w, Regular, Kept)
             + Copies(w, Numerics, Got) + Cardinality(Wired(w))
  BY DEF WordsConserved
<1>1. Kept = Unsent(out, Held)
  BY DEF Kept, Unsent, Held
<1>2. Wired(w) = OnWire(w, out)
  BY Zenon DEF OnWire
<1>3. /\ Copies(w, Inputs, Ahead) \in Nat /\ Copies(w, Numerics, Got) \in Nat
      /\ Copies(w, Regular, Kept) \in Nat /\ Cardinality(OnWire(w, out)) \in Nat
  BY <1>1, BalanceTypes, StockTypes
<1> HIDE DEF Wired
<1>4. QED
  BY <1>1, <1>2, <1>3 DEF Balance, Stock

(* Between two steps that leave prev_end alone, what counts is `out` and   *)
(* what is on the stacks.                                                  *)
LEMMA StockNext ==
  ASSUME NEW w, save' = save,
         \A n \in Regular : t30'[n].prev_end = t30[n].prev_end
  PROVE  Stock(w, out, Held)' = Stock(w, out', Held')
<1>1. Unsent(out, Held)' = Unsent(out', Held')
  BY DEF Unsent
<1>2. OnWire(w, out)' = OnWire(w, out')
  BY DEF OnWire
<1>3. Copies(w, Regular, Unsent(out, Held))' = Copies(w, Regular, Unsent(out', Held'))
  BY <1>1 DEF Copies
<1>4. QED
  BY <1>2, <1>3 DEF Stock

-----------------------------------------------------------------------------
(* What the calls do to the balance                                        *)

(* A word may go from the inputs' streams to the nodes (a), and from the   *)
(* nodes to an output (b).                                                 *)
LEMMA Passes ==
  ASSUME StackInv, NEW w \in Word, Balance(w), NEW a \in Int, NEW b \in Int,
         save' = save, test' = test,
         \A n \in Regular : t30'[n].prev_end = t30[n].prev_end,
         Copies(w, Inputs, Ahead') = Copies(w, Inputs, Ahead) - a,
         Stock(w, out', Held') = Stock(w, out, Held) + a - b,
         Copies(w, Numerics, Got') = Copies(w, Numerics, Got) + b
  PROVE  Balance(w)'
<1>1. Stock(w, out, Held)' = Stock(w, out', Held')
  BY StockNext
<1>2. /\ Copies(w, Inputs, Ahead) \in Nat /\ Stock(w, out, Held) \in Nat
      /\ Copies(w, Numerics, Got) \in Nat
  BY BalanceTypes
<1>3. Copies(w, Inputs, test.inputs)' = Copies(w, Inputs, test.inputs)
  BY DEF Copies
<1>4. /\ Copies(w, Inputs, Ahead)' = Copies(w, Inputs, Ahead')
      /\ Copies(w, Numerics, Got)' = Copies(w, Numerics, Got')
  BY DEF Copies
<1>5. Copies(w, Inputs, test.inputs)' =
        Copies(w, Inputs, Ahead)' + Stock(w, out, Held)' + Copies(w, Numerics, Got)'
  BY <1>1, <1>2, <1>3, <1>4 DEF Balance
<1>6. QED
  BY <1>5 DEF Balance

(* A call that moves words only between nodes, or none at all.             *)
LEMMA MovesInside ==
  ASSUME StackInv, NEW w \in Word, Balance(w), save' = save, test' = test,
         idx' = idx, numeric' = numeric,
         \A n \in Regular : t30'[n].prev_end = t30[n].prev_end,
         Stock(w, out', Held') = Stock(w, out, Held)
  PROVE  Balance(w)'
<1>1. Ahead' = Ahead /\ Got' = Got
  BY DEF Ahead, Got
<1>2. /\ Copies(w, Inputs, Ahead) \in Nat /\ Stock(w, out, Held) \in Nat
      /\ Copies(w, Numerics, Got) \in Nat
  BY BalanceTypes
<1>3. /\ Copies(w, Inputs, Ahead') = Copies(w, Inputs, Ahead) - 0
      /\ Stock(w, out', Held') = Stock(w, out, Held) + 0 - 0
      /\ Copies(w, Numerics, Got') = Copies(w, Numerics, Got) + 0
  BY <1>1, <1>2
<1>4. QED
  BY <1>3, Passes

(* One turn of T30::step's loop: the stack has read from D before, and     *)
(* from E afterwards; it holds a word more exactly when a neighbour has    *)
(* lost it.                                                                *)
LEMMA PushMoves ==
  ASSUME StackInv, NEW w \in Word, NEW n \in Regular, save.type[n] = "T30",
         NEW D \in SUBSET Dir, \A e \in D : Offers(n, e),
         NEW data \in DataType, Matching(ReadFrom(n, D), data),
         NEW d \in Dir \ D, NEW more \in DataType,
         more[n] = Push(n, data[n], d), \A m \in Regular \ {n} : more[m] = data[m],
         NEW E, E = IF Len(data[n]) < T30_size /\ Offers(n, d) THEN D \cup {d} ELSE D
  PROVE  /\ Matching(ReadFrom(n, E), more)
         /\ Stock(w, ReadFrom(n, E), more) = Stock(w, ReadFrom(n, D), data)
<1>1. CASE Len(data[n]) < T30_size /\ Offers(n, d)
  <2> DEFINE m == Neighbour(n, d)
             o == ReadFrom(n, D)
             p == ReadFrom(n, D \cup {d})
             v == out[m].word
  <2>1. E = D \cup {d} /\ more[n] = Append(data[n], v)
    BY <1>1 DEF Push
  <2>2. IInv /\ \A e \in D \cup {d} : Offers(n, e)
    BY <1>1 DEF StackInv
  <2>3. /\ m \in Regular \cup Inputs /\ v \in Word
        /\ m \in Regular => save.type[m] \in {"T21", "T30"}
        /\ o \in OutType /\ p \in OutType /\ o[m] = out[m]
        /\ p[m].word = word_empty /\ p[m].port # "any"
        /\ \A k \in (Regular \cup Inputs) \ {m} : p[k] = o[k]
    BY <2>2, ReadOneMore
  <2>4. Matching(o, data)
    OBVIOUS
  <2> HIDE DEF m, o, p
  <2>5. Matching(p, data) /\ Stock(w, p, data) = Stock(w, o, data) - One(v = w)
    BY <2>3, <2>4, WordTaken, Z3 DEF One, v
  <2> HIDE DEF v
  <2>6. Matching(p, more) /\ Stock(w, p, more) = Stock(w, p, data) + One(v = w)
    BY <2>1, <2>3, <2>5, WordStacked, Z3 DEF One
  <2>7. Stock(w, o, data) \in Nat
    BY <2>3, <2>4, StockTypes DEF Stock
  <2>8. Stock(w, p, more) = Stock(w, o, data)
    BY <2>5, <2>6, <2>7 DEF One
  <2>9. QED
    BY <2>1, <2>6, <2>8 DEF o, p
<1>2. CASE ~(Len(data[n]) < T30_size /\ Offers(n, d))
  <2>1. E = D /\ more[n] = data[n]
    BY <1>2 DEF Push
  <2>2. more = data
    BY <2>1 DEF DataType
  <2>3. QED
    BY <2>1, <2>2
<1>3. QED
  BY <1>1, <1>2

(* The four turns one after the other, each starting from the nodes and    *)
(* the stack the one before has left.                                      *)
LEMMA StackTakes ==
  ASSUME StackInv, NEW w \in Word, Balance(w), NEW n \in Regular, T30_Step(n)
  PROVE  Balance(w)'
<1> DEFINE C(d) == Len(Filling(n)[d]) < T30_size /\ Offers(n, d)
           With(s) == [m \in Regular |-> IF m = n THEN s ELSE t30[m].data]
           S(D) == {d \in D : C(d)}
           l == Filling(n).left
           r == Filling(n).right
           u == Filling(n).up
           d == Filling(n).down
           e == Filling(n).after
<1>1. /\ IInv /\ save.type[n] = "T30" /\ save' = save /\ test' = test
      /\ idx' = idx /\ numeric' = numeric
      /\ out' = ReadFrom(n, Pushes(n))
      /\ t30' = [t30 EXCEPT ![n].data = Filling(n).after,
                            ![n].used = @ \/ Pushes(n) # {}]
      /\ t30 \in [Regular -> T30Type]
  BY DEF StackInv, IInv, TypeOK, T30Type, T30_Step, Returned, setup, io
<1>2. /\ \A m \in Regular : t30'[m].prev_end = t30[m].prev_end
      /\ Held' = With(e)
  BY <1>1 DEF Held, T30Type
<1>3. /\ l = t30[n].data /\ r = Push(n, l, "left") /\ u = Push(n, r, "right")
      /\ d = Push(n, u, "up") /\ e = Push(n, d, "down")
  BY DEF Filling
<1>4. /\ Filling(n)["left"] = l /\ Filling(n)["right"] = r
      /\ Filling(n)["up"] = u /\ Filling(n)["down"] = d
  BY DEF Filling
<1> HIDE DEF l, r, u, d, e
<1>5. l \in Seq(Word)
  BY <1>1, <1>3 DEF T30Type
<1>6. r \in Seq(Word)
  BY <1>1, <1>3, <1>5, PushGrows DEF Dir
<1>7. u \in Seq(Word)
  BY <1>1, <1>3, <1>6, PushGrows DEF Dir
<1>8. d \in Seq(Word)
  BY <1>1, <1>3, <1>7, PushGrows DEF Dir
<1>9. e \in Seq(Word)
  BY <1>1, <1>3, <1>8, PushGrows DEF Dir
<1>10. /\ {With(l), With(r), With(u), With(d), With(e)} \subseteq DataType
       /\ \A s : With(s)[n] = s /\ \A m \in Regular \ {n} : With(s)[m] = t30[m].data
       /\ Held = With(l)
  BY <1>1, <1>3, <1>5, <1>6, <1>7, <1>8, <1>9 DEF DataType, Held, T30Type
<1>11. /\ \A D \in SUBSET Dir : S(D) \in SUBSET Dir /\ \A c \in S(D) : Offers(n, c)
       /\ S({}) = {} /\ S({"left", "right", "up", "down"}) = Pushes(n)
  BY DEF Pushes, Dir
<1>12. /\ S({"left"}) = IF Len(l) < T30_size /\ Offers(n, "left")
                        THEN S({}) \cup {"left"} ELSE S({})
       /\ S({"left", "right"}) = IF Len(r) < T30_size /\ Offers(n, "right")
                        THEN S({"left"}) \cup {"right"} ELSE S({"left"})
       /\ S({"left", "right", "up"}) = IF Len(u) < T30_size /\ Offers(n, "up")
                        THEN S({"left", "right"}) \cup {"up"} ELSE S({"left", "right"})
       /\ S({"left", "right", "up", "down"}) = IF Len(d) < T30_size /\ Offers(n, "down")
                        THEN S({"left", "right", "up"}) \cup {"down"}
                        ELSE S({"left", "right", "up"})
  BY <1>4
<1>13. /\ "left" \notin S({}) /\ "right" \notin S({"left"})
       /\ "up" \notin S({"left", "right"}) /\ "down" \notin S({"left", "right", "up"})
  OBVIOUS
<1> DEFINE p0 == S({})
           p1 == S({"left"})
           p2 == S({"left", "right"})
           p3 == S({"left", "right", "up"})
           p4 == S({"left", "right", "up", "down"})
<1>14. /\ {p0, p1, p2, p3} \subseteq SUBSET Dir
       /\ \A c \in p0 \cup p1 \cup p2 \cup p3 : Offers(n, c)
  BY <1>11 DEF Dir
<1> HIDE DEF C, S, With, p0, p1, p2, p3, p4
<1>15. /\ ReadFrom(n, p0) = out /\ ReadFrom(n, p4) = out'
       /\ Matching(out, Held)
  BY <1>1, <1>11, ReadFromAt, BalanceTypes DEF p0, p4
<1>16. /\ Matching(ReadFrom(n, p1), With(r))
       /\ Stock(w, ReadFrom(n, p1), With(r)) = Stock(w, ReadFrom(n, p0), With(l))
  BY <1>1, <1>3, <1>10, <1>12, <1>13, <1>14, <1>15, PushMoves DEF p0, p1, Dir
<1>17. /\ Matching(ReadFrom(n, p2), With(u))
       /\ Stock(w, ReadFrom(n, p2), With(u)) = Stock(w, ReadFrom(n, p1), With(r))
  BY <1>1, <1>3, <1>10, <1>12, <1>13, <1>14, <1>16, PushMoves DEF p1, p2, Dir
<1>18. /\ Matching(ReadFrom(n, p3), With(d))
       /\ Stock(w, ReadFrom(n, p3), With(d)) = Stock(w, ReadFrom(n, p2), With(u))
  BY <1>1, <1>3, <1>10, <1>12, <1>13, <1>14, <1>17, PushMoves DEF p2, p3, Dir
<1>19. Stock(w, ReadFrom(n, p4), With(e)) = Stock(w, ReadFrom(n, p3), With(d))
  BY <1>1, <1>3, <1>10, <1>12, <1>13, <1>14, <1>18, PushMoves DEF p3, p4, Dir
<1>20. Stock(w, out', Held') = Stock(w, out, Held)
  BY <1>2, <1>10, <1>15, <1>16, <1>17, <1>18, <1>19
<1>21. QED
  BY <1>1, <1>2, <1>20, MovesInside

-----------------------------------------------------------------------------
(* The T21 of a program that only moves                                    *)

(* A call that changes neither nodes nor streams.                          *)
LEMMA Nobody ==
  ASSUME StackInv, NEW w \in Word, Balance(w),
         UNCHANGED <<save, test, out, t30, idx, numeric>>
  PROVE  Balance(w)'
<1>1. Stock(w, out', Held') = Stock(w, out, Held)
  BY DEF Held
<1>2. QED
  BY <1>1, MovesInside

(* It reads from one neighbour, and has a word to write.                   *)
LEMMA MoveReads ==
  ASSUME IInv, MovesOnly, NEW n \in Regular, StepT21(n), t21[n].s # "write",
         ~Blocked(n)
  PROVE  /\ WritesPort(Current(n), Fetched(n))
         /\ \E d \in Dir : /\ Source(n) = {d} /\ Offers(n, d)
                           /\ Operand(n) = out[Neighbour(n, d)].word
<1>1. useful(save, n) /\ save.type[n] = "T21"
  BY ReadCompletes DEF StepT21
<1>2. /\ Current(n).op = "mov" /\ Current(n).src \in Dir \cup {"any"}
      /\ Current(n).dst \in Dir \cup {"any"}
  <2>1. save.code[n] \in Seq(Instr)
    BY DEF IInv, TypeOK, IsSave
  <2>2. DOMAIN save.code[n] = 1 .. Len(save.code[n])
    BY <2>1, LenProperties
  <2>3. t21[n].pc + 1 \in DOMAIN save.code[n]
    BY <1>1, <2>2, CurrentInstruction
  <2>4. LET i == save.code[n][t21[n].pc + 1]
        IN  i.op = "mov" /\ i.src \in Dir \cup {"any"} /\ i.dst \in Dir \cup {"any"}
    BY <2>3 DEF MovesOnly
  <2>5. QED
    BY <2>4 DEF Current
<1>3. WritesPort(Current(n), Fetched(n))
  BY <1>2 DEF WritesPort
<1>4. /\ Source(n) \subseteq Dir /\ \A d \in Source(n) : Offers(n, d)
  BY ReadCompletes
<1>5. Source(n) # {}
  <2>1. CASE Current(n).src = "any"
    BY <2>1, AnyFindsSource
  <2>2. CASE Current(n).src \in Dir
    <3>1. Asked(n, Current(n).src) = {Current(n).src}
      <4>1. \A p \in Dir : Asked(n, p) = {p}
        BY DEF Asked, Dir
      <4>2. QED
        BY <2>2, <4>1
    <3>2. Answers(n) = {Current(n).src}
      BY <3>1 DEF Blocked, Answers
    <3>3. DirRank[Current(n).src] <= DirRank[Current(n).src]
      BY <2>2 DEF DirRank, Dir
    <3>4. QED
      BY <3>2, <3>3 DEF Source
  <2>3. QED
    BY <1>2, <2>1, <2>2
<1>6. PICK d \in Source(n) : TRUE
  BY <1>5
<1>7. Source(n) = {d}
  <2>1. \A e \in Source(n) : DirRank[d] <= DirRank[e] /\ DirRank[e] <= DirRank[d]
    BY <1>6 DEF Source
  <2>2. \A e \in Dir : DirRank[d] <= DirRank[e] /\ DirRank[e] <= DirRank[d] => e = d
    BY <1>4 DEF DirRank, Dir
  <2>3. QED
    BY <1>4, <1>6, <2>1, <2>2
<1>8. Operand(n) = out[Neighbour(n, d)].word
  BY <1>7 DEF Operand
<1>9. QED
  BY <1>3, <1>4, <1>7, <1>8

(* A MOV takes the word from that neighbour into its own write_word.       *)
LEMMA MoveMoves ==
  ASSUME StackInv, MovesOnly, NEW w \in Word, Balance(w),
         NEW n \in Regular, T21_StartWrite(n)
  PROVE  Balance(w)'
<1>1. /\ IInv /\ StepT21(n) /\ t21[n].s # "write" /\ ~Blocked(n)
      /\ save' = save /\ test' = test /\ idx' = idx /\ numeric' = numeric
      /\ t30' = t30
      /\ out' = [ReadFrom(n, Source(n)) EXCEPT ![n] = WordSet(n)]
  BY DEF StackInv, T21_StartWrite, Returned, setup, io
<1>2. /\ save.type[n] = "T21" /\ useful(save, n)
      /\ out[n].word = word_empty /\ out[n].port = "nil"
  BY <1>1, ReadCompletes DEF IInv, T21Consistent, StepT21
<1>3. PICK d \in Dir : /\ Source(n) = {d} /\ Offers(n, d)
                       /\ Operand(n) = out[Neighbour(n, d)].word
  BY <1>1, MoveReads
<1> DEFINE m == Neighbour(n, d)
           p == ReadFrom(n, {d})
           v == Operand(n)
<1>4. /\ m \in Regular \cup Inputs /\ v \in Word /\ v = out[m].word
      /\ m \in Regular => save.type[m] \in {"T21", "T30"}
      /\ p \in OutType
      /\ p[m].word = word_empty /\ p[m].port # "any"
      /\ \A k \in (Regular \cup Inputs) \ {m} : p[k] = out[k]
  <2>1. ReadFrom(n, {}) = out
    BY <1>1, ReadFromAt
  <2>2. /\ {} \cup {d} = {d} /\ {} \in SUBSET Dir /\ d \in Dir \ {}
        /\ \A e \in {} \cup {d} : Offers(n, e)
    BY <1>3
  <2>3. /\ m \in Regular \cup Inputs /\ out[m].word \in Word
        /\ m \in Regular => save.type[m] \in {"T21", "T30"}
        /\ ReadFrom(n, {} \cup {d}) \in OutType
        /\ ReadFrom(n, {} \cup {d})[m].word = word_empty
        /\ ReadFrom(n, {} \cup {d})[m].port # "any"
        /\ \A k \in (Regular \cup Inputs) \ {m} :
             ReadFrom(n, {} \cup {d})[k] = ReadFrom(n, {})[k]
    BY ONLY <1>1, <2>2, n \in Regular, d \in Dir, ReadOneMore
  <2>4. QED
    BY <1>3, <2>1, <2>2, <2>3
<1>5. out \in OutType /\ Held \in DataType /\ Matching(out, Held)
      /\ Stock(w, out, Held) \in Nat
  BY BalanceTypes
<1>6. m # n
  BY <1>2, <1>4, WordFacts
<1>7. /\ out' \in OutType /\ out'[n].word = v
      /\ \A k \in (Regular \cup Inputs) \ {n} : out'[k] = p[k]
  <2>1. WordSet(n) \in [word : optional_word, port : Port] /\ WordSet(n).word = v
    BY <1>4, <1>5 DEF WordSet, OutType, optional_word
  <2>2. out' = [p EXCEPT ![n] = WordSet(n)]
    BY <1>1, <1>3
  <2> HIDE DEF p, v
  <2>3. QED
    BY <1>4, <2>1, <2>2 DEF OutType
<1>8. p[n] = out[n]
  BY <1>4, <1>6
<1> HIDE DEF m, p, v
<1>9. Matching(p, Held) /\ Stock(w, p, Held) = Stock(w, out, Held) - One(v = w)
  <2>1. out[m].word \in Word
    BY <1>4
  <2>2. /\ Matching(p, Held)
        /\ Stock(w, p, Held) = Stock(w, out, Held) - One(out[m].word = w)
    BY <1>4, <1>5, <2>1, WordTaken, Z3 DEF One
  <2>3. QED
    BY <1>4, <2>2
<1>10. Stock(w, out', Held) = Stock(w, p, Held) + One(v = w)
  BY <1>2, <1>4, <1>5, <1>7, <1>8, <1>9, WordGiven, Z3 DEF One
<1>11. Held' = Held
  BY <1>1 DEF Held
<1>12. Stock(w, out', Held') = Stock(w, out, Held)
  BY <1>5, <1>9, <1>10, <1>11 DEF One
<1>13. QED
  BY <1>1, <1>12, MovesInside

(* Publishing a word, or noticing that it has been taken, moves none.      *)
LEMMA FinalizeMovesNone ==
  ASSUME StackInv, NEW w \in Word, Balance(w), NEW n \in Regular, T21_Finalize(n)
  PROVE  Balance(w)'
<1>1. /\ save.type[n] = "T21" /\ save' = save /\ test' = test
      /\ idx' = idx /\ numeric' = numeric /\ t30' = t30
  BY DEF T21_Finalize, Returned, setup, io
<1>2. out \in OutType
  BY BalanceTypes
<1>3. /\ DOMAIN out' = DOMAIN out
      /\ \A m \in DOMAIN out : out'[m].word = out[m].word
      /\ \A m \in Regular \ {n} : out'[m] = out[m]
  BY <1>2 DEF T21_Finalize, OutType
<1>4. OnWire(w, out') = OnWire(w, out)
  BY <1>3 DEF OnWire
<1>5. Held' = Held
  BY <1>1 DEF Held
<1>6. Unsent(out', Held') = Unsent(out, Held)
  BY <1>1, <1>3, <1>5 DEF Unsent
<1>7. Stock(w, out', Held') = Stock(w, out, Held)
  BY <1>4, <1>6 DEF Stock
<1>8. QED
  BY <1>1, <1>7, MovesInside

(* No call of a T21 loses a word or makes one up.                          *)
LEMMA T21CallsMove ==
  ASSUME StackInv, MovesOnly, NEW w \in Word, Balance(w), NEW n \in Regular,
         \/ T21_StalledOnWrite(n) \/ T21_StalledOnRead(n) \/ T21_Compute(n)
         \/ T21_StartWrite(n) \/ T21_Hcf(n) \/ T21_Finalize(n)
  PROVE  Balance(w)'
<1>1. CASE T21_StalledOnWrite(n) \/ T21_StalledOnRead(n) \/ T21_Hcf(n)
  <2>1. UNCHANGED <<save, test, out, t30, idx, numeric>>
    BY <1>1 DEF T21_StalledOnWrite, T21_StalledOnRead, T21_Hcf, Returned,
                setup, nodes, io
  <2>2. QED
    BY <2>1, Nobody
<1>2. CASE T21_Compute(n)
  <2>1. /\ StepT21(n) /\ t21[n].s # "write" /\ ~Blocked(n)
        /\ ~WritesPort(Current(n), Fetched(n))
    BY <1>2 DEF T21_Compute
  <2>2. QED
    BY <2>1, MoveReads DEF StackInv
<1>3. QED
  BY <1>1, <1>2, MoveMoves, FinalizeMovesNone

-----------------------------------------------------------------------------
(* A stack that erases what was taken from it holds what it held.          *)
LEMMA ErasingMovesNone ==
  ASSUME StackInv, NEW w \in Word, Balance(w), NEW n \in Regular, T30_Finalize(n)
  PROVE  Balance(w)'
<1> DEFINE data == IF out[n].port # "any" THEN Erase(t30[n].data, t30[n].prev_end)
                   ELSE t30[n].data
<1>1. /\ save.type[n] = "T30" /\ save' = save /\ test' = test
      /\ idx' = idx /\ numeric' = numeric
      /\ out \in OutType /\ t30 \in [Regular -> T30Type]
  BY DEF StackInv, IInv, TypeOK, T30_Finalize, Returned, setup, io, T30Type, OutType
<1>2. /\ t30'[n].data = data /\ out'[n].port = "any"
      /\ DOMAIN out' = DOMAIN out
      /\ \A m \in Regular \ {n} : t30'[m] = t30[m]
      /\ \A m \in DOMAIN out : m # n => out'[m] = out[m]
  BY <1>1 DEF T30_Finalize, T30Type, OutType
<1>3. Unsent(out, Held)[n] = data
  BY <1>1 DEF Unsent, Held
<1> HIDE DEF data
<1>4. Unsent(out, Held)' = Unsent(out, Held)
  <2>1. ASSUME NEW m \in Regular
        PROVE  Unsent(out, Held)'[m] = Unsent(out, Held)[m]
    <3>1. CASE m = n
      BY <1>1, <1>2, <1>3, <3>1 DEF Unsent, Held
    <3>2. CASE m # n
      <4>1. t30'[m] = t30[m] /\ out'[m] = out[m]
        BY <1>1, <1>2, <3>2 DEF OutType
      <4>2. QED
        BY <1>1, <4>1 DEF Unsent, Held
    <3>3. QED
      BY <3>1, <3>2
  <2>2. QED
    BY <2>1 DEF Unsent
<1>5. OnWire(w, out)' = OnWire(w, out)
  <2>1. \A m \in DOMAIN out : m # n => out'[m] = out[m]
    BY <1>2
  <2>2. n \notin OnWire(w, out) /\ n \notin OnWire(w, out)'
    BY <1>1 DEF OnWire
  <2>3. QED
    BY <1>1, <1>2, <2>1, <2>2 DEF OnWire
<1>6. Stock(w, out, Held)' = Stock(w, out, Held)
  BY <1>4, <1>5 DEF Stock, Copies
<1>7. Ahead' = Ahead /\ Got' = Got
  BY <1>1 DEF Ahead, Got
<1>8. QED
  BY <1>1, <1>6, <1>7 DEF Balance, Copies

(* A stream less its first word is the stream from the second on.          *)
LEMMA AheadShrinks ==
  ASSUME NEW q \in Seq(Word), NEW k \in Nat, k + 1 \in 1 .. Len(q)
  PROVE  LET ahead == SubSeq(q, k + 1, Len(q)) IN
         /\ 1 \in DOMAIN ahead /\ ahead[1] = q[k + 1]
         /\ SubSeq(q, k + 1 + 1, Len(q)) = Erase(ahead, 1)
<1> DEFINE len == Len(q)
           a == SubSeq(q, k + 1, len)
           b == SubSeq(q, k + 1 + 1, len)
<1>1. len \in Nat /\ k + 1 <= len
  BY LenProperties
<1>2. \A j \in 1 .. len : q[j] \in Word
  BY ElementOfSeq
<1> HIDE DEF len
<1>3. /\ a \in Seq(Word) /\ Len(a) = len - k
      /\ \A j \in 1 .. len - k : a[j] = q[k + j]
  <2>1. \A j \in k + 1 .. len : q[j] \in Word
    BY <1>1, <1>2
  <2>2. /\ a \in Seq(Word) /\ Len(a) = IF k + 1 <= len THEN len - (k + 1) + 1 ELSE 0
        /\ \A j \in 1 .. len - (k + 1) + 1 : a[j] = q[k + 1 + j - 1]
    BY <1>1, <2>1, SubSeqProperties
  <2>3. len - (k + 1) + 1 = len - k /\ \A j \in Int : k + 1 + j - 1 = k + j
    BY <1>1
  <2>4. QED
    BY <1>1, <2>2, <2>3
<1>4. /\ b \in Seq(Word) /\ Len(b) = len - k - 1
      /\ \A j \in 1 .. len - k - 1 : b[j] = q[k + 1 + j]
  <2>1. \A j \in k + 1 + 1 .. len : q[j] \in Word
    BY <1>1, <1>2
  <2>2. /\ b \in Seq(Word)
        /\ Len(b) = IF k + 1 + 1 <= len THEN len - (k + 1 + 1) + 1 ELSE 0
        /\ \A j \in 1 .. len - (k + 1 + 1) + 1 : b[j] = q[k + 1 + 1 + j - 1]
    BY <1>1, <2>1, SubSeqProperties
  <2>3. /\ len - (k + 1 + 1) + 1 = len - k - 1
        /\ \A j \in Int : k + 1 + 1 + j - 1 = k + 1 + j
    BY <1>1
  <2>4. QED
    BY <1>1, <2>2, <2>3
<1>5. 1 \in DOMAIN a /\ a[1] = q[k + 1]
  <2>1. 1 \in 1 .. len - k
    BY <1>1
  <2>2. DOMAIN a = 1 .. Len(a)
    BY <1>3, LenProperties
  <2>3. QED
    BY <1>3, <2>1, <2>2
<1> HIDE DEF a, b
<1>6. /\ Erase(a, 1) \in Seq(Word) /\ DOMAIN Erase(a, 1) = 1 .. len - k - 1
      /\ \A j \in 1 .. len - k - 1 : Erase(a, 1)[j] = a[j + 1]
  <2>1. /\ Erase(a, 1) \in Seq(Word) /\ DOMAIN Erase(a, 1) = 1 .. Len(a) - 1
        /\ \A j \in 1 .. Len(a) - 1 :
             Erase(a, 1)[j] = IF j < 1 THEN a[j] ELSE a[j + 1]
    BY <1>3, <1>5, ErasedCells
  <2>2. QED
    BY <1>1, <1>3, <2>1
<1>7. Len(Erase(a, 1)) = len - k - 1
  <2>1. len - k - 1 \in Nat /\ Erase(a, 1) \in Seq(Word)
    BY <1>1, <1>6
  <2> DEFINE c == len - k - 1
             e == Erase(a, 1)
  <2>2. c \in Nat /\ e \in Seq(Word) /\ DOMAIN e = 1 .. c
    BY <1>6, <2>1
  <2> HIDE DEF c, e
  <2>3. Len(e) = c
    BY <2>2, LenProperties
  <2>4. QED
    BY <2>3 DEF c, e
<1>8. ASSUME NEW j \in 1 .. len - k - 1 PROVE b[j] = Erase(a, 1)[j]
  <2>1. j + 1 \in 1 .. len - k /\ k + (j + 1) = k + 1 + j
    BY <1>1
  <2>2. QED
    BY <1>3, <1>4, <1>6, <2>1
<1>9. b = Erase(a, 1)
  BY <1>4, <1>6, <1>7, <1>8, SeqEqual
<1>10. QED
  BY <1>5, <1>9 DEF a, b, len

(* The word an input loads was the first of those ahead of it.             *)
LEMMA InputLoads ==
  ASSUME StackInv, NEW w \in Word, Balance(w), NEW i \in Inputs, Input_Finalize(i)
  PROVE  Balance(w)'
<1>1. /\ save' = save /\ test' = test /\ t30' = t30 /\ numeric' = numeric
      /\ out \in OutType /\ Held \in DataType /\ Matching(out, Held)
      /\ Stock(w, out, Held) \in Nat /\ Copies(w, Numerics, Got) \in Nat
      /\ Ahead \in [Inputs -> Seq(Word)]
      /\ idx \in [Inputs -> Nat] /\ test.inputs[i] \in Seq(Word)
      /\ idx[i] <= Len(test.inputs[i])
  BY BalanceTypes DEF StackInv, IInv, TypeOK, Input_Finalize, Returned, setup,
                      InputsInRange, IsTest
<1>2. i \notin Regular
  BY DEF Inputs, Regular
<1>3. Held' = Held /\ Got' = Got
  BY <1>1 DEF Held, Got
<1>4. CASE /\ out[i].port = "nil" /\ out' = [out EXCEPT ![i].port = "down"]
           /\ UNCHANGED idx
  <2>1. /\ DOMAIN out' = DOMAIN out
        /\ \A m \in DOMAIN out : out'[m].word = out[m].word
        /\ \A m \in Regular : out'[m] = out[m]
    BY <1>1, <1>2, <1>4 DEF OutType
  <2>2. OnWire(w, out') = OnWire(w, out) /\ Unsent(out', Held') = Unsent(out, Held)
    BY <1>1, <1>3, <2>1 DEF OnWire, Unsent
  <2>3. Stock(w, out', Held') = Stock(w, out, Held)
    BY <2>2 DEF Stock
  <2>4. QED
    BY <1>1, <1>4, <2>3, MovesInside
<1>5. CASE /\ out[i].word = word_empty /\ idx[i] # Len(test.inputs[i])
           /\ out' = [out EXCEPT ![i].word = test.inputs[i][idx[i] + 1]]
           /\ idx' = [idx EXCEPT ![i] = @ + 1]
  <2> DEFINE q == test.inputs[i]
             v == q[idx[i] + 1]
             a == One(v = w)
  <2>1. Len(q) \in Nat /\ idx[i] \in Nat
    BY <1>1, LenProperties
  <2>2. idx[i] + 1 \in 1 .. Len(q)
    BY <1>1, <1>5, <2>1
  <2>3. v \in Word
    BY <1>1, <2>2, ElementOfSeq
  <2>4. /\ Ahead[i] = SubSeq(q, idx[i] + 1, Len(q))
        /\ Ahead'[i] = SubSeq(q, idx[i] + 1 + 1, Len(q))
        /\ \A j \in Inputs \ {i} : Ahead'[j] = Ahead[j]
    BY <1>1, <1>5 DEF Ahead
  <2>5. /\ 1 \in DOMAIN Ahead[i] /\ Ahead[i][1] = v
        /\ Ahead'[i] = Erase(Ahead[i], 1)
    <3>1. /\ q \in Seq(Word) /\ idx[i] \in Nat /\ idx[i] + 1 \in 1 .. Len(q)
          /\ v = q[idx[i] + 1]
      BY <1>1, <2>1, <2>2
    <3> HIDE DEF q, v
    <3>2. /\ 1 \in DOMAIN SubSeq(q, idx[i] + 1, Len(q))
          /\ SubSeq(q, idx[i] + 1, Len(q))[1] = q[idx[i] + 1]
          /\ SubSeq(q, idx[i] + 1 + 1, Len(q)) =
               Erase(SubSeq(q, idx[i] + 1, Len(q)), 1)
      BY ONLY <3>1, AheadShrinks
    <3>3. QED
      BY <2>4, <3>1, <3>2
  <2>6. Copies(w, Inputs, Ahead') = Copies(w, Inputs, Ahead) - a
    <3>1. /\ IsFiniteSet(Inputs) /\ Ahead \in [Inputs -> Seq(Word)]
          /\ i \in Inputs /\ 1 \in DOMAIN Ahead[i]
          /\ Ahead'[i] = Erase(Ahead[i], 1)
          /\ \A j \in Inputs \ {i} : Ahead'[j] = Ahead[j]
      BY <1>1, <2>4, <2>5, FinitePlaces
    <3>2. Copies(w, Inputs, Ahead') =
            Copies(w, Inputs, Ahead) - One(Ahead[i][1] = w)
      BY ONLY <3>1, CopiesLeave, Z3 DEF One
    <3>3. QED
      BY <2>5, <3>2
  <2>7. /\ out' \in OutType /\ out'[i].word = v
        /\ \A m \in (Regular \cup Inputs) \ {i} : out'[m] = out[m]
    <3> HIDE DEF v, q
    <3>1. out' = [out EXCEPT ![i].word = v]
      BY <1>5 DEF v, q
    <3>2. out[i] \in [word : optional_word, port : Port] /\ v \in optional_word
      BY <1>1, <2>3 DEF OutType, optional_word
    <3>3. [out[i] EXCEPT !.word = v] \in [word : optional_word, port : Port]
          /\ [out[i] EXCEPT !.word = v].word = v
      BY <3>2
    <3>4. QED
      BY <1>1, <3>1, <3>3 DEF OutType
  <2> HIDE DEF q, v
  <2>8. Stock(w, out', Held) = Stock(w, out, Held) + One(v = w)
    <3>1. /\ i \in Regular \cup Inputs /\ (i \in Regular => save.type[i] = "T21")
          /\ out \in OutType /\ Held \in DataType /\ Matching(out, Held)
          /\ w \in Word /\ v \in Word /\ out[i].word = word_empty
      BY <1>1, <1>2, <1>5, <2>3
    <3>2. QED
      BY ONLY <2>7, <3>1, WordGiven, Z3 DEF One
  <2>9. /\ a \in Int
        /\ Stock(w, out', Held') = Stock(w, out, Held) + a - 0
        /\ Copies(w, Numerics, Got') = Copies(w, Numerics, Got) + 0
    BY <1>1, <1>3, <2>8 DEF One
  <2> HIDE DEF a
  <2>10. QED
    BY <1>1, <2>6, <2>9, Passes
<1>6. CASE UNCHANGED <<out, idx>>
  BY <1>1, <1>6, Nobody
<1>7. QED
  BY <1>4, <1>5, <1>6 DEF Input_Finalize

-----------------------------------------------------------------------------
(* A linked output hangs under a node that runs.                           *)
LEMMA FeedRuns ==
  ASSUME Setup, NEW o, <<"numeric", o>> \in calls
  PROVE  Feed(o) \in Regular /\ save.type[Feed(o)] \in {"T21", "T30"}
<1> DEFINE sim == regulars_to_sim(save)
           ins == {j \in Inputs : /\ <<Neighbour(j, "down"), "up">> \in Links(save)
                                  /\ Neighbour(j, "down") \in sim}
<1>1. calls = {<<loop, n>> : loop \in {"step", "finalize"}, n \in sim}
                \cup {<<"input", i>> : i \in ins}
                \cup {<<"numeric", p>> : p \in Numerics \cap Linked(save)}
                \cup {<<"image", p>> : p \in Images \cap Linked(save)}
  BY DEF Setup, Calls
<1> HIDE DEF sim, ins
<1>2. o \in Linked(save)
  BY <1>1
<1>3. QED
  BY <1>2 DEF Linked, useful, Feed

(* An output receives the word it reads.                                   *)
LEMMA OutputReceives ==
  ASSUME StackInv, NEW w \in Word, Balance(w), NEW o \in Numerics, Numeric_Step(o)
  PROVE  Balance(w)'
<1>1. /\ save' = save /\ test' = test /\ t30' = t30 /\ idx' = idx
      /\ out \in OutType /\ Held \in DataType /\ Matching(out, Held)
      /\ Stock(w, out, Held) \in Nat /\ Copies(w, Numerics, Got) \in Nat
      /\ Copies(w, Inputs, Ahead) \in Nat
      /\ Got \in [Numerics -> Seq(Word)]
      /\ numeric \in [Numerics -> NumericType]
      /\ <<"numeric", o>> \in calls /\ IInv
  BY BalanceTypes DEF StackInv, IInv, TypeOK, Numeric_Step, Turn, Returned, setup,
                      NumericType
<1>2. Feed(o) \in Regular /\ save.type[Feed(o)] \in {"T21", "T30"}
  BY <1>1, FeedRuns DEF IInv
<1>3. Held' = Held /\ Ahead' = Ahead
  BY <1>1 DEF Held, Ahead
<1>4. CASE UNCHANGED <<out, numeric>>
  BY <1>1, <1>4, Nobody
<1>5. CASE /\ CanEmit(Feed(o), "down")
           /\ numeric' = [numeric EXCEPT ![o] = Received(o, out[Feed(o)].word)]
           /\ out' = [out EXCEPT ![Feed(o)] = Emitted(Feed(o), "down")]
  <2> DEFINE m == Feed(o)
             v == out[m].word
             b == One(v = w)
  <2>1. v \in Word /\ out' \in OutType
    BY <1>1, <1>2, <1>5, FeedEmptied
  <2>2. /\ out'[m].word = word_empty /\ out'[m].port # "any"
        /\ \A n \in (Regular \cup Inputs) \ {m} : out'[n] = out[n]
    <3>1. Emitted(m, "down").word = word_empty /\ Emitted(m, "down").port # "any"
      BY EmittedType DEF Dir
    <3>2. QED
      BY <1>1, <1>2, <1>5, <3>1 DEF OutType
  <2>3. /\ Joins(v, Got[o], Got'[o])
        /\ \A p \in Numerics \ {o} : Got'[p] = Got[p]
    <3>1. /\ numeric'[o].received = Append(numeric[o].received, v)
          /\ \A p \in Numerics \ {o} : numeric'[p] = numeric[p]
      BY <1>1, <1>5 DEF Received
    <3>2. QED
      BY <3>1 DEF Got, Joins
  <2> HIDE DEF m, v
  <2>4. Copies(w, Numerics, Got') = Copies(w, Numerics, Got) + b
    <3>1. IsFiniteSet(Numerics) /\ o \in Numerics /\ v \in Word
      BY <2>1, FinitePlaces
    <3>2. Copies(w, Numerics, Got') = Copies(w, Numerics, Got) + One(v = w)
      BY ONLY <1>1, <2>3, <3>1, CopiesJoin, Z3 DEF One
    <3>3. QED
      BY <3>2
  <2>5. Stock(w, out', Held) = Stock(w, out, Held) - One(v = w)
    <3>1. /\ m \in Regular \cup Inputs
          /\ m \in Regular => save.type[m] \in {"T21", "T30"}
      BY <1>2 DEF m
    <3>2. out[m].word \in Word
      BY <2>1 DEF v
    <3>3. Stock(w, out', Held) = Stock(w, out, Held) - One(out[m].word = w)
      BY <1>1, <2>1, <2>2, <3>1, <3>2, WordTaken, Z3 DEF One
    <3>4. QED
      BY <3>3 DEF v
  <2>6. /\ b \in Int
        /\ Copies(w, Inputs, Ahead') = Copies(w, Inputs, Ahead) - 0
        /\ Stock(w, out', Held') = Stock(w, out, Held) + 0 - b
    BY <1>1, <1>3, <2>5 DEF One
  <2> HIDE DEF b
  <2>7. QED
    BY <1>1, <2>4, <2>6, Passes
<1>6. QED
  BY <1>4, <1>5 DEF Numeric_Step

-----------------------------------------------------------------------------
(* A new test                                                              *)

(* No word has left the streams yet.                                       *)
NothingMoved ==
  /\ \A i \in Inputs : idx[i] = 0
  /\ \A n \in Regular : t30[n].data = <<>>
  /\ \A n \in Regular : save.type[n] = "T30" => out[n].port = "any"
  /\ \A m \in Regular \cup Inputs : out[m].word = word_empty
  /\ \A o \in Numerics : numeric[o].received = <<>>

(* The inductive invariant, together with StackInv.                        *)
Moving == MovesOnly /\ Images = {} => \A w \in Word : Balance(w)

(* Empty streams hold no word.                                             *)
LEMMA NoCopies ==
  ASSUME NEW w, NEW S, NEW stream, \A s \in S : stream[s] = <<>>
  PROVE  Copies(w, S, stream) = 0
<1>1. Cells(S, stream) = {}
  <2>1. \A s \in S : DOMAIN stream[s] = {}
    OBVIOUS
  <2>2. \A s \in S : {s} \X DOMAIN stream[s] = {}
    BY <2>1
  <2>3. QED
    BY <2>2 DEF Cells
<1>2. Holding(w, S, stream) = {}
  BY <1>1 DEF Holding
<1>3. QED
  BY <1>2, CopiesOfHolding, FS_EmptySet

(* Before the first cycle of a test all its words are ahead.               *)
LEMMA NewTestBalances == StackInv /\ NothingMoved => Moving
<1> SUFFICES ASSUME StackInv, NothingMoved, NEW w \in Word PROVE Balance(w)
  BY DEF Moving
<1>1. /\ out \in OutType /\ test.inputs \in [Inputs -> Seq(Word)]
      /\ Copies(w, Inputs, test.inputs) \in Nat
  BY BalanceTypes
<1>2. Copies(w, Inputs, Ahead) = Copies(w, Inputs, test.inputs)
  <2>1. ASSUME NEW i \in Inputs PROVE Ahead[i] = test.inputs[i]
    <3>1. Ahead[i] = SubSeq(test.inputs[i], 0 + 1, Len(test.inputs[i]))
      BY DEF Ahead, NothingMoved
    <3>2. 0 + 1 = 1
      OBVIOUS
    <3>3. QED
      BY <1>1, <3>1, <3>2, SubSeqFull
  <2>2. Ahead = test.inputs
    BY <1>1, <2>1 DEF Ahead
  <2>3. QED
    BY <2>2
<1>3. Copies(w, Numerics, Got) = 0
  BY NoCopies DEF NothingMoved, Got
<1>4. Copies(w, Regular, Unsent(out, Held)) = 0
  <2>1. \A n \in Regular : Unsent(out, Held)[n] = <<>>
    BY DEF NothingMoved, Unsent, Held
  <2>2. QED
    BY <2>1, NoCopies
<1>5. OnWire(w, out) = {}
  BY <1>1, WordFacts DEF OnWire, NothingMoved, OutType
<1>6. QED
  BY <1>1, <1>2, <1>3, <1>4, <1>5, FS_EmptySet DEF Balance, Stock

(* set_expected leaves no word on any port.                                *)
LEMMA ResetEmpties ==
  /\ \A m \in Regular \cup Inputs : OutReset[m].word = word_empty
  /\ \A n \in Regular : save.type[n] = "T30" => OutReset[n].port = "any"
BY ResetNodes DEF OutReset

LEMMA InitMoving == Init => StackInv /\ Moving
<1> SUFFICES ASSUME NEW f \in Saves, NEW t \in Tests, Finalized(f), Loaded(f, t),
                    StackInv
    PROVE  NothingMoved
  BY InitStackInv, NewTestBalances DEF Init
<1>1. QED
  BY ResetEmpties DEF NothingMoved, Loaded, NumericReset

-----------------------------------------------------------------------------
(* Every step of the field keeps every word.                               *)
LEMMA NextMoving == StackInv /\ Moving /\ [Next]_vars => (StackInv /\ Moving)'
<1> SUFFICES ASSUME StackInv, Moving, [Next]_vars PROVE StackInv' /\ Moving'
  OBVIOUS
<1>1. StackInv'
  BY NextStackInv
<1>2. save' = save
  BY DEF Next, Handler, vars, setup, T21_StalledOnWrite, T21_StalledOnRead,
         T21_Compute, T21_StartWrite, T21_Hcf, T21_Finalize, T30_Step, T30_Finalize,
         Input_Finalize, Numeric_Step, Image_Step, NextCycle, EndRun, Signal,
         SetExpected, Returned
<1>3. CASE \E t \in Tests : SetExpected(t)
  <2>1. PICK t \in Tests : SetExpected(t)
    BY <1>3
  <2>2. NothingMoved'
    <3>1. /\ out' = OutReset /\ numeric' = [o \in Numerics |-> NumericReset(t, o)]
          /\ idx' = [i \in Inputs |-> 0]
          /\ t30' = [n \in Regular |-> T30Reset(t30[n])]
      BY <2>1 DEF SetExpected
    <3>2. \A n \in Regular : t30'[n].data = <<>>
      BY <3>1 DEF T30Reset, StackInv, IInv, TypeOK
    <3>3. QED
      BY <1>2, <3>1, <3>2, ResetEmpties DEF NothingMoved, NumericReset
  <2>3. (StackInv /\ NothingMoved => Moving)'
    BY NewTestBalances, PTL
  <2>4. QED
    BY <1>1, <2>2, <2>3
<1>4. CASE ~\E t \in Tests : SetExpected(t)
  <2> SUFFICES ASSUME MovesOnly, Images = {}, NEW w \in Word, Balance(w)
      PROVE  Balance(w)'
    <3>1. MovesOnly' <=> MovesOnly
      BY <1>2 DEF MovesOnly
    <3>2. QED
      BY <1>1, <3>1 DEF Moving
  <2>1. CASE NextCycle \/ EndRun \/ Signal \/ UNCHANGED vars
    <3>1. UNCHANGED <<save, test, out, t30, idx, numeric>>
      BY <2>1 DEF NextCycle, EndRun, Signal, vars, setup, nodes, io
    <3>2. QED
      BY <3>1, Nobody
  <2>2. ASSUME NEW n \in Regular,
               \/ T21_StalledOnWrite(n) \/ T21_StalledOnRead(n)
               \/ T21_Compute(n) \/ T21_StartWrite(n) \/ T21_Hcf(n)
               \/ T21_Finalize(n) \/ T30_Step(n) \/ T30_Finalize(n)
        PROVE  Balance(w)'
    BY <2>2, T21CallsMove, StackTakes, ErasingMovesNone
  <2>3. ASSUME NEW i \in Inputs, Input_Finalize(i) PROVE Balance(w)'
    BY <2>3, InputLoads
  <2>4. ASSUME NEW o \in Numerics, Numeric_Step(o) PROVE Balance(w)'
    BY <2>4, OutputReceives
  <2>5. QED
    BY <1>4, <2>1, <2>2, <2>3, <2>4 DEF Next, Handler
<1>5. QED
  BY <1>1, <1>3, <1>4

(* For every layout, every program of moves, every test and capacity: each *)
(* input word is in exactly one place at any moment, whichever of several  *)
(* readers or writers won (node::emit, T21::step and finalize, T30::step   *)
(* and finalize, input_node::finalize, num_output::step).                  *)
THEOREM WordsAlwaysConserved == Spec => []WordsConserved
<1>1. StackInv /\ Moving => WordsConserved
  BY BalanceIsConservation DEF Moving
<1>2. QED
  BY <1>1, InitMoving, NextMoving, PTL DEF Spec
=============================================================================
