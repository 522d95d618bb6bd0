-------------------------- MODULE AssemblerProofs --------------------------
(***************************************************************************)
(* Theorems about Assembler, for every save, every layout of the nodes and *)
(* every vocabulary.                                                       *)
(***************************************************************************)
EXTENDS Assembler, SharedLemmas, SequenceTheorems

-----------------------------------------------------------------------------
(* The first pass                                                          *)

(* The instructions on the first j lines.                                  *)
Count(lines, j) == Cardinality({i \in 1 .. j : HasOp(lines[i])})

LabelsUpTo(lines, j) ==
  UNION {{<<a, Count(lines, i - 1)>> : a \in LabelsOf(lines[i])} : i \in 1 .. j}

BadAt(lines, i) ==
  \/ "" \in LabelsOf(lines[i])
  \/ Repeats(lines[i])
  \/ \E h \in 1 .. i - 1 : \E a \in LabelsOf(lines[h]) : a \in LabelsOf(lines[i])

BadUpTo(lines, j) == \E i \in 1 .. j : BadAt(lines, i)

LEMMA CountFacts ==
  ASSUME NEW lines, NEW j \in Nat
  PROVE  /\ Count(lines, j) \in Nat
         /\ Count(lines, 0) = 0
         /\ Count(lines, j + 1) = Count(lines, j) + (IF HasOp(lines[j + 1]) THEN 1 ELSE 0)
<1> DEFINE S == {i \in 1 .. j : HasOp(lines[i])}
           T == {i \in 1 .. j + 1 : HasOp(lines[i])}
<1>1. IsFiniteSet(S) /\ Cardinality(S) \in Nat
  <2>1. S \in SUBSET (1 .. j) /\ 0 \in Int
    OBVIOUS
  <2> HIDE DEF S
  <2>2. QED
    BY <2>1, UpToFinite
<1>2. {i \in 1 .. 0 : HasOp(lines[i])} = {}
  OBVIOUS
<1>3. j + 1 \notin S
  OBVIOUS
<1>4. T = IF HasOp(lines[j + 1]) THEN S \cup {j + 1} ELSE S
  OBVIOUS
<1>5. Count(lines, j) = Cardinality(S) /\ Count(lines, j + 1) = Cardinality(T)
  BY DEF Count
<1> HIDE DEF S, T
<1>6. Cardinality(T) = Cardinality(S) + (IF HasOp(lines[j + 1]) THEN 1 ELSE 0)
  BY <1>1, <1>3, <1>4, FS_AddElement
<1>7. Count(lines, 0) = 0
  BY <1>2, FS_EmptySet DEF Count
<1>8. QED
  BY <1>1, <1>5, <1>6, <1>7

(* What the first pass knows after j lines.                                *)
Passed(lines, j) ==
  [l |-> Count(lines, j), labels |-> LabelsUpTo(lines, j), bad |-> BadUpTo(lines, j)]

LEMMA LabelsUpToHas ==
  ASSUME NEW lines, NEW j \in Nat, NEW a
  PROVE  a \in LabelsUpTo(lines, j)
           <=> \E i \in 1 .. j : \E x \in LabelsOf(lines[i]) : a = <<x, Count(lines, i - 1)>>
BY DEF LabelsUpTo

LEMMA PassedOne ==
  ASSUME NEW lines, NEW j \in Nat
  PROVE  Labelled(Passed(lines, j), lines[j + 1]) = Passed(lines, j + 1)
<1> DEFINE p == Passed(lines, j)
           line == lines[j + 1]
<1>1. NextNumber(p, line) = Count(lines, j + 1)
  <2>1. p.l = Count(lines, j)
    BY DEF Passed
  <2>2. QED
    BY <2>1, CountFacts DEF NextNumber
<1>2. p.labels \cup {<<a, p.l>> : a \in LabelsOf(line)} = LabelsUpTo(lines, j + 1)
  <2>1. \A i : i \in 1 .. j + 1 <=> i \in 1 .. j \/ i = j + 1
    OBVIOUS
  <2>2. (j + 1) - 1 = j
    OBVIOUS
  <2> DEFINE At(i) == {<<a, Count(lines, i - 1)>> : a \in LabelsOf(lines[i])}
  <2>3. At(j + 1) = {<<a, p.l>> : a \in LabelsOf(line)}
    BY <2>2 DEF Passed
  <2>4. LabelsUpTo(lines, j) = UNION {At(i) : i \in 1 .. j}
        /\ LabelsUpTo(lines, j + 1) = UNION {At(i) : i \in 1 .. j + 1}
    BY DEF LabelsUpTo
  <2> HIDE DEF At
  <2>5. UNION {At(i) : i \in 1 .. j + 1} = (UNION {At(i) : i \in 1 .. j}) \cup At(j + 1)
    BY <2>1
  <2>6. p.labels = LabelsUpTo(lines, j)
    BY DEF Passed
  <2>7. QED
    BY <2>3, <2>4, <2>5, <2>6
<1>3. (\E a \in p.labels : a[1] \in LabelsOf(line))
        <=> \E h \in 1 .. j : \E a \in LabelsOf(lines[h]) : a \in LabelsOf(line)
  <2>1. ASSUME NEW a \in p.labels, a[1] \in LabelsOf(line)
        PROVE  \E h \in 1 .. j : \E x \in LabelsOf(lines[h]) : x \in LabelsOf(line)
    <3>1. PICK h \in 1 .. j : \E x \in LabelsOf(lines[h]) : a = <<x, Count(lines, h - 1)>>
      BY LabelsUpToHas DEF Passed
    <3>2. PICK x \in LabelsOf(lines[h]) : a = <<x, Count(lines, h - 1)>>
      BY <3>1
    <3>3. a[1] = x
      BY <3>2
    <3>4. QED
      BY <2>1, <3>3
  <2>2. ASSUME NEW h \in 1 .. j, NEW x \in LabelsOf(lines[h]), x \in LabelsOf(line)
        PROVE  \E a \in p.labels : a[1] \in LabelsOf(line)
    <3>1. <<x, Count(lines, h - 1)>> \in p.labels
      BY LabelsUpToHas DEF Passed
    <3>2. QED
      BY <2>2, <3>1
  <2>3. QED
    BY <2>1, <2>2
<1>4. /\ BadUpTo(lines, j + 1) <=> BadUpTo(lines, j) \/ BadAt(lines, j + 1)
      /\ BadUpTo(lines, j + 1) \in BOOLEAN
  <2>1. \A i : i \in 1 .. j + 1 <=> i \in 1 .. j \/ i = j + 1
    OBVIOUS
  <2>2. QED
    BY <2>1 DEF BadUpTo
<1>5. BadAt(lines, j + 1) <=> \/ "" \in LabelsOf(line) \/ Repeats(line)
                              \/ \E a \in p.labels : a[1] \in LabelsOf(line)
  <2>1. (j + 1) - 1 = j
    OBVIOUS
  <2>2. QED
    BY <1>3, <2>1 DEF BadAt
<1>6. p.bad <=> BadUpTo(lines, j)
  BY DEF Passed
<1> DEFINE b == \/ p.bad
                \/ "" \in LabelsOf(line)
                \/ Repeats(line)
                \/ \E a \in p.labels : a[1] \in LabelsOf(line)
<1>7. b = BadUpTo(lines, j + 1)
  <2>1. b <=> BadUpTo(lines, j + 1)
    BY <1>4, <1>5, <1>6
  <2>2. b \in BOOLEAN
    OBVIOUS
  <2> HIDE DEF b
  <2>3. QED
    BY <1>4, <2>1, <2>2
<1>8. Labelled(p, line)
        = [l |-> NextNumber(p, line),
           labels |-> p.labels \cup {<<a, p.l>> : a \in LabelsOf(line)}, bad |-> b]
  BY DEF Labelled
<1> HIDE DEF p, line, b
<1>9. Labelled(p, line) = Passed(lines, j + 1)
  BY <1>1, <1>2, <1>7, <1>8 DEF Passed
<1>10. QED
  BY <1>9 DEF p, line

LEMMA FirstPassExact ==
  ASSUME NEW lines, Len(lines) \in Nat
  PROVE  FirstPass(lines) = Passed(lines, Len(lines))
<1> DEFINE n == Len(lines)
           zero == [l |-> 0, labels |-> {}, bad |-> FALSE]
           Solves(g) == g = [j \in 0 .. n |-> IF j = 0 THEN zero
                                              ELSE Labelled(g[j - 1], lines[j])]
           f == [j \in 0 .. n |-> Passed(lines, j)]
<1>1. FirstPass(lines) = (CHOOSE g : Solves(g))[n]
  BY DEF FirstPass
<1> HIDE DEF n
<1>2. n \in Nat
  BY DEF n
<1>3. Passed(lines, 0) = zero
  <2>1. Count(lines, 0) = 0
    BY CountFacts
  <2>2. LabelsUpTo(lines, 0) = {} /\ BadUpTo(lines, 0) = FALSE
    BY DEF LabelsUpTo, BadUpTo
  <2>3. QED
    BY <2>1, <2>2 DEF Passed
<1> HIDE DEF zero
<1>4. \A j \in 1 .. n : Labelled(Passed(lines, j - 1), lines[j]) = Passed(lines, j)
  <2> SUFFICES ASSUME NEW j \in 1 .. n
               PROVE  Labelled(Passed(lines, j - 1), lines[j]) = Passed(lines, j)
    OBVIOUS
  <2>1. j - 1 \in Nat /\ (j - 1) + 1 = j
    BY <1>2
  <2>2. QED
    BY <2>1, PassedOne
<1>5. Solves(f)
  <2>1. \A j \in 0 .. n : f[j] = IF j = 0 THEN zero ELSE Labelled(f[j - 1], lines[j])
    <3> SUFFICES ASSUME NEW j \in 0 .. n
                 PROVE  f[j] = IF j = 0 THEN zero ELSE Labelled(f[j - 1], lines[j])
      OBVIOUS
    <3>1. CASE j = 0
      BY <1>2, <1>3, <3>1
    <3>2. CASE j # 0
      <4>1. j \in 1 .. n /\ j - 1 \in 0 .. n
        BY <1>2, <3>2
      <4>2. f[j - 1] = Passed(lines, j - 1) /\ f[j] = Passed(lines, j)
        BY <4>1
      <4> HIDE DEF f
      <4>3. QED
        BY <1>4, <3>2, <4>1, <4>2
    <3>3. QED
      BY <3>1, <3>2
  <2>2. f = [j \in 0 .. n |-> f[j]]
    OBVIOUS
  <2> HIDE DEF f
  <2>3. QED
    BY <2>1, <2>2
<1> DEFINE g == CHOOSE h : Solves(h)
<1>6. Solves(g)
  BY <1>5
<1> HIDE DEF g
<1> DEFINE T == {m \in Nat : m <= n => g[m] = Passed(lines, m)}
<1>7. 0 \in T
  <2>1. g[0] = zero
    BY <1>2, <1>6
  <2>2. QED
    BY <1>3, <2>1
<1>8. ASSUME NEW m \in Nat, m \in T PROVE m + 1 \in T
  <2> SUFFICES ASSUME m + 1 <= n PROVE g[m + 1] = Passed(lines, m + 1)
    OBVIOUS
  <2>1. m + 1 \in 0 .. n /\ m + 1 # 0 /\ (m + 1) - 1 = m /\ m <= n
    BY <1>2
  <2>2. g[m + 1] = Labelled(g[m], lines[m + 1])
    BY <1>6, <2>1
  <2>3. g[m] = Passed(lines, m)
    BY <1>8, <2>1
  <2>4. QED
    BY <2>2, <2>3, PassedOne
<1> HIDE DEF T
<1>9. n \in T
  BY <1>2, <1>7, <1>8, NatSetInduction
<1>10. g[n] = Passed(lines, n)
  BY <1>2, <1>9 DEF T
<1>11. QED
  BY <1>1, <1>10 DEF g, n
-----------------------------------------------------------------------------
(* The second pass                                                         *)

LEMMA WordsFacts ==
  ASSUME NEW line \in Line
  PROVE  Words(line) \in Seq(STRING) /\ (Words(line) # <<>> <=> HasOp(line))
<1> DEFINE toks == {j \in DOMAIN line.tokens : HasRest(line.tokens[j])}
           n == Len(line.tokens)
           N == Cardinality(toks)
<1>1. n \in Nat /\ DOMAIN line.tokens = 1 .. n /\ \A j \in 1 .. n : line.tokens[j] \in Token
  BY DEF Line
<1>2. toks \in SUBSET (1 .. n)
  BY <1>1
<1>3. Words(line) = [j \in DOMAIN InOrder(toks) |-> line.tokens[InOrder(toks)[j]].rest]
  BY DEF Words
<1>4. toks # {} <=> HasOp(line)
  BY DEF HasOp
<1> HIDE DEF toks, n
<1>5. /\ N \in Nat /\ DOMAIN InOrder(toks) = 1 .. N
      /\ \A j \in 1 .. N : InOrder(toks)[j] \in toks
  BY <1>1, <1>2, InOrderIsSeq
<1>6. IsFiniteSet(toks)
  <2>1. 0 \in Int
    OBVIOUS
  <2>2. QED
    BY <1>1, <1>2, <2>1, UpToFinite
<1>7. N = 0 <=> toks = {}
  BY <1>6, FS_EmptySet
<1> HIDE DEF N
<1>8. Words(line) \in [1 .. N -> STRING]
  <2>1. \A j \in 1 .. N : line.tokens[InOrder(toks)[j]].rest \in STRING
    BY <1>1, <1>2, <1>5 DEF Token
  <2>2. QED
    BY <1>3, <1>5, <2>1
<1>9. Words(line) \in Seq(STRING) /\ Len(Words(line)) = N
  BY <1>5, <1>8, FunctionIsSeq
<1>10. QED
  BY <1>4, <1>5, <1>7, <1>9

LEMMA OpLinesFacts ==
  ASSUME NEW lines \in Seq(Line)
  PROVE  /\ Len(lines) \in Nat /\ DOMAIN lines = 1 .. Len(lines)
         /\ OpLines(lines) \in SUBSET (1 .. Len(lines))
         /\ IsFiniteSet(OpLines(lines)) /\ Cardinality(OpLines(lines)) \in Nat
         /\ CodeLines(lines) = InOrder(OpLines(lines))
         /\ DOMAIN CodeLines(lines) = 1 .. Cardinality(OpLines(lines))
         /\ Len(CodeLines(lines)) = Cardinality(OpLines(lines))
         /\ \A j \in DOMAIN CodeLines(lines) :
              LET c == CodeLines(lines)[j]
              IN /\ c \in OpLines(lines) /\ c \in DOMAIN lines
                 /\ Words(lines[c]) \in Seq(STRING) /\ Words(lines[c]) # <<>>
<1> DEFINE n == Len(lines)
<1>1. n \in Nat /\ DOMAIN lines = 1 .. n /\ \A j \in 1 .. n : lines[j] \in Line
  OBVIOUS
<1>2. OpLines(lines) \in SUBSET (1 .. n)
  BY DEF OpLines
<1>3. {j \in DOMAIN lines : Words(lines[j]) # <<>>} = OpLines(lines)
  BY <1>1, WordsFacts DEF OpLines
<1>4. CodeLines(lines) = InOrder(OpLines(lines))
  BY <1>3 DEF CodeLines
<1>5. \A j \in OpLines(lines) : Words(lines[j]) # <<>> /\ Words(lines[j]) \in Seq(STRING)
  BY <1>1, <1>3, WordsFacts
<1> HIDE DEF n
<1>6. IsFiniteSet(OpLines(lines))
  <2>1. 0 \in Int
    OBVIOUS
  <2>2. QED
    BY <1>1, <1>2, <2>1, UpToFinite
<1>7. /\ Cardinality(OpLines(lines)) \in Nat
      /\ DOMAIN InOrder(OpLines(lines)) = 1 .. Cardinality(OpLines(lines))
      /\ Len(InOrder(OpLines(lines))) = Cardinality(OpLines(lines))
      /\ \A j \in 1 .. Cardinality(OpLines(lines)) : InOrder(OpLines(lines))[j] \in OpLines(lines)
  BY <1>1, <1>2, InOrderIsSeq
<1>8. QED
  BY <1>1, <1>2, <1>4, <1>5, <1>6, <1>7 DEF n

(* A program is no longer than the lines that count.                       *)
LEMMA OpLinesFit ==
  ASSUME NEW lines \in Seq(Line), NEW permissive \in BOOLEAN
  PROVE  /\ effective_lines(lines, permissive) \in Nat
         /\ Cardinality(OpLines(lines)) <= effective_lines(lines, permissive)
<1> DEFINE S == {j \in DOMAIN lines : lines[j].tokens # <<>>}
<1>1. Len(lines) \in Nat /\ DOMAIN lines = 1 .. Len(lines)
  OBVIOUS
<1>2. OpLines(lines) \in SUBSET S
  BY DEF OpLines, HasOp
<1>3. IsFiniteSet(S) /\ IsFiniteSet(1 .. Len(lines))
  <2>1. S \in SUBSET (1 .. Len(lines))
    BY <1>1
  <2>2. IsFiniteSet(1 .. Len(lines))
    BY <1>1, FS_Interval
  <2> HIDE DEF S
  <2>3. QED
    BY <2>1, <2>2, FS_Subset
<1>4. Cardinality(OpLines(lines)) <= Cardinality(S)
  BY <1>2, <1>3, FS_Subset
<1>5. Cardinality(OpLines(lines)) <= Len(lines)
  <2>1. Cardinality(1 .. Len(lines)) = Len(lines)
    <3>1. 1 \in Int /\ Len(lines) \in Int
      BY <1>1
    <3>2. Cardinality(1 .. Len(lines)) = IF 1 > Len(lines) THEN 0 ELSE Len(lines) - 1 + 1
      BY <3>1, FS_Interval
    <3>3. QED
      BY <1>1, <3>2
  <2>2. OpLines(lines) \in SUBSET (1 .. Len(lines))
    BY <1>1 DEF OpLines
  <2>3. QED
    BY <1>3, <2>1, <2>2, FS_Subset
<1>6. effective_lines(lines, permissive) = IF permissive THEN Cardinality(S) ELSE Len(lines)
  BY DEF effective_lines
<1> HIDE DEF S
<1>7. Cardinality(S) \in Nat
  BY <1>3, FS_CardinalityType
<1>8. QED
  BY <1>1, <1>4, <1>5, <1>6, <1>7

(* The labels are numbers of instructions.                                 *)
LEMMA LabelFacts ==
  ASSUME NEW lines \in Seq(Line)
  PROVE  \A a \in FirstPass(lines).labels : a[2] \in Nat
<1> SUFFICES ASSUME NEW a \in FirstPass(lines).labels PROVE a[2] \in Nat
  OBVIOUS
<1>1. Len(lines) \in Nat
  OBVIOUS
<1>2. a \in LabelsUpTo(lines, Len(lines))
  BY <1>1, FirstPassExact DEF Passed
<1>3. PICK i \in 1 .. Len(lines) : \E x \in LabelsOf(lines[i]) : a = <<x, Count(lines, i - 1)>>
  BY <1>1, <1>2, LabelsUpToHas
<1>4. i - 1 \in Nat
  BY <1>1
<1>5. Count(lines, i - 1) \in Nat
  BY <1>4, CountFacts
<1>6. QED
  BY <1>3, <1>5

LEMMA PortFacts ==
  ASSUME NEW tok, Matches(tok) # {}
  PROVE  /\ parse_port(tok) \in ToSet(port_order)
         /\ parse_port(tok) \in Dst /\ parse_port(tok) \in Src
         /\ tok \in abbreviations[parse_port(tok)]
         /\ Means(tok, parse_port(tok))
<1>1. Matches(tok) \subseteq Nat /\ DOMAIN port_order = 1 .. 8
  BY DEF Matches, port_order
<1>2. PICK q \in Matches(tok) : \A r \in Matches(tok) : q <= r
  BY <1>1, LeastNat
<1> DEFINE p == CHOOSE q1 \in Matches(tok) : \A r \in Matches(tok) : q1 <= r
<1>3. p \in Matches(tok) /\ \A r \in Matches(tok) : p <= r
  BY <1>2
<1> HIDE DEF p
<1>4. /\ p \in DOMAIN port_order /\ tok \in abbreviations[port_order[p]]
      /\ parse_port(tok) = port_order[p]
  BY <1>3 DEF Matches, parse_port, p
<1>5. port_order[p] \in Dst /\ port_order[p] \in Src
  BY <1>1, <1>4 DEF port_order, Dst, Src, Dir
<1>6. Means(tok, port_order[p])
  <2>1. tok \in abbreviations["left"] => 1 \in Matches(tok)
    BY <1>1 DEF Matches, port_order
  <2>2. tok \in abbreviations["acc"] => 6 \in Matches(tok)
    BY <1>1 DEF Matches, port_order
  <2>3. port_order[p] = "last" => p = 8
    BY <1>1, <1>4 DEF port_order
  <2>4. port_order[p] = "any" => p = 7
    BY <1>1, <1>4 DEF port_order
  <2>5. QED
    BY <1>3, <1>4, <2>1, <2>2, <2>3, <2>4 DEF Means
<1>7. QED
  BY <1>4, <1>5, <1>6 DEF ToSet

(* What an accepted line becomes, before labels are normalised.            *)
LEMMA InstrFacts ==
  ASSUME NEW w, NEW labels, \A a \in labels : a[2] \in Nat,
         NEW permissive, IsInstr(w, labels, permissive)
  PROVE  LET i  == InstrOf(w, labels)
             op == opcode_of[w[1]]
         IN /\ i \in Instr /\ i.op = op
            /\ op \in Jumps => \E a \in labels : /\ a[1] = w[2] /\ i.val = a[2]
                                                 /\ a = CHOOSE b \in labels : b[1] = w[2]
            /\ op \notin Jumps => i.val \in Word
            /\ op \notin Readers => i.src = "immediate"
            /\ op = "mov" => Means(w[3], i.dst)
            /\ op \in Readers => IF i.src = "immediate" THEN i.val = integer_of[w[2]]
                                 ELSE Means(w[2], i.src)
<1> DEFINE op  == opcode_of[w[1]]
           imm == op \in Readers /\ w[2] \in DOMAIN integer_of
           src == IF op \in Readers /\ ~imm THEN parse_port(w[2]) ELSE "immediate"
           chosen == CHOOSE a \in labels : a[1] = w[2]
           val == IF imm THEN integer_of[w[2]] ELSE IF op \in Jumps THEN chosen[2] ELSE 0
           dst == IF op = "mov" THEN parse_port(w[3]) ELSE "left"
<1>1. InstrOf(w, labels) = [op |-> op, src |-> src, val |-> val, dst |-> dst]
  BY DEF InstrOf
<1>2. /\ op \in Op
      /\ op \in Jumps => \E a \in labels : a[1] = w[2]
      /\ op \in Readers => IsOperand(w[2], permissive)
      /\ op = "mov" => IsPort(w[3], permissive)
  BY AssemblerAssumption DEF IsInstr
<1>3. Jumps \cap Readers = {} /\ "mov" \in Readers
  BY DEF Jumps, Readers
<1>4. op \in Jumps => chosen \in labels /\ chosen[1] = w[2]
  BY <1>2
<1>5. 0 \in Word /\ Word \subseteq Int
  BY WordAssumption DEF Word, word_min
<1>6. imm => integer_of[w[2]] \in Word
  BY <1>2 DEF IsOperand
<1>7. op \in Readers /\ ~imm => Matches(w[2]) # {}
  BY <1>2 DEF IsOperand, IsPort
<1>8. op = "mov" => Matches(w[3]) # {}
  BY <1>2 DEF IsPort
<1> HIDE DEF op, chosen
<1>9. /\ op \in Readers /\ ~imm => /\ parse_port(w[2]) \in Src /\ parse_port(w[2]) # "immediate"
                                   /\ Means(w[2], parse_port(w[2]))
      /\ op = "mov" => parse_port(w[3]) \in Dst /\ Means(w[3], parse_port(w[3]))
  <2>1. "immediate" \notin Dst
    BY DEF Dst, Dir
  <2>2. QED
    BY <1>7, <1>8, <2>1, PortFacts
<1>10. src \in Src /\ dst \in Dst
  <2>1. "immediate" \in Src /\ "left" \in Dst
    BY DEF Src, Dst, Dir
  <2>2. QED
    BY <1>9, <2>1
<1>11. /\ op \in Jumps => val = chosen[2] /\ val \in Nat
       /\ op \notin Jumps => val \in Word
       /\ val \in Int
  <2>1. op \in Jumps => ~imm /\ chosen[2] \in Nat
    BY <1>3, <1>4
  <2>2. \A x \in Nat : x \in Int
    OBVIOUS
  <2> DEFINE number == integer_of[w[2]]
  <2>3. imm => number \in Word
    BY <1>6
  <2> HIDE DEF number, imm
  <2>4. CASE op \in Jumps
    BY <2>1, <2>2, <2>4
  <2>5. CASE op \notin Jumps
    <3>1. val = IF imm THEN number ELSE 0
      BY <2>5 DEF number
    <3> HIDE DEF val
    <3>2. val \in Word
      BY <1>5, <2>3, <3>1
    <3>3. QED
      BY <1>5, <2>5, <3>2
  <2>6. QED
    BY <2>4, <2>5
<1>12. /\ op \notin Readers => src = "immediate"
       /\ op = "mov" => Means(w[3], dst)
       /\ op \in Readers => IF src = "immediate" THEN val = integer_of[w[2]]
                            ELSE Means(w[2], src)
  BY <1>9
<1> HIDE DEF src, val, dst
<1>13. InstrOf(w, labels) \in Instr
  BY <1>1, <1>2, <1>10, <1>11 DEF Instr
<1>14. /\ InstrOf(w, labels).op = op /\ InstrOf(w, labels).src = src
       /\ InstrOf(w, labels).val = val /\ InstrOf(w, labels).dst = dst
  BY <1>1
<1>15. op \in Jumps => \E a \in labels : /\ a[1] = w[2] /\ val = a[2]
                                         /\ a = CHOOSE b \in labels : b[1] = w[2]
  BY <1>4, <1>11 DEF chosen
<1>16. QED
  BY <1>11, <1>12, <1>13, <1>14, <1>15 DEF op

(* The program of a section that is not refused.                           *)
LEMMA AssembleFacts ==
  ASSUME NEW lines \in Seq(Line), NEW permissive \in BOOLEAN, ~Throws(lines, permissive)
  PROVE  LET c == assemble(lines) IN
         /\ Assembled(c)
         /\ Len(c) = Cardinality(OpLines(lines)) /\ Len(c) <= T21_size
         /\ \A j \in DOMAIN c :
              LET w == Words(lines[InOrder(OpLines(lines))[j]])
                  i == InstrOf(w, FirstPass(lines).labels)
              IN IsInstr(w, FirstPass(lines).labels, permissive) /\ c[j] = Normalized(i, Len(c))
<1> DEFINE c == assemble(lines)
           N == Cardinality(OpLines(lines))
           labels == FirstPass(lines).labels
           w(j) == Words(lines[InOrder(OpLines(lines))[j]])
           i(j) == InstrOf(w(j), labels)
<1>1. /\ N \in Nat /\ DOMAIN CodeLines(lines) = 1 .. N /\ Len(CodeLines(lines)) = N
      /\ CodeLines(lines) = InOrder(OpLines(lines))
  BY OpLinesFacts
<1>2. c = [j \in 1 .. N |-> Normalized(i(j), N)]
  BY <1>1 DEF assemble
<1>3. \A j \in 1 .. N : IsInstr(w(j), labels, permissive)
  BY <1>1 DEF Throws
<1>4. \A a \in labels : a[2] \in Nat
  BY LabelFacts
<1> HIDE DEF c, labels, w, N
<1>5. ASSUME NEW j \in 1 .. N
      PROVE  LET x == Normalized(i(j), N)
             IN /\ x \in Instr
                /\ x.op \in Jumps => x.val \in 0 .. N - 1
                /\ x.op \notin Jumps => x.val \in Word
                /\ x.op \notin Readers => x.src = "immediate"
  <2> DEFINE y == i(j)
  <2>1. /\ y \in Instr
        /\ y.op \in Jumps => y.val \in Nat
        /\ y.op \notin Jumps => y.val \in Word
        /\ y.op \notin Readers => y.src = "immediate"
    BY <1>3, <1>4, InstrFacts
  <2> HIDE DEF y
  <2>2. CASE y.op \in Jumps /\ y.val >= N
    <3>1. Normalized(y, N) = [y EXCEPT !.val = 0]
      BY <2>2 DEF Normalized
    <3>2. /\ [y EXCEPT !.val = 0] \in Instr
          /\ [y EXCEPT !.val = 0].op = y.op /\ [y EXCEPT !.val = 0].val = 0
          /\ [y EXCEPT !.val = 0].src = y.src
      BY <2>1 DEF Instr
    <3>3. 0 \in 0 .. N - 1
      BY <1>1
    <3>4. QED
      BY <2>1, <2>2, <3>1, <3>2, <3>3 DEF y
  <2>3. CASE ~(y.op \in Jumps /\ y.val >= N)
    <3>1. Normalized(y, N) = y
      BY <2>3 DEF Normalized
    <3>2. y.op \in Jumps => y.val \in 0 .. N - 1
      BY <1>1, <2>1, <2>3
    <3>3. QED
      BY <2>1, <3>1, <3>2 DEF y
  <2>4. QED
    BY <2>2, <2>3
<1> HIDE DEF i
<1>6. c \in [1 .. N -> Instr]
  BY <1>2, <1>5
<1>7. c \in Seq(Instr) /\ Len(c) = N /\ DOMAIN c = 1 .. N
  BY <1>1, <1>6, FunctionIsSeq
<1>8. Assembled(c)
  BY <1>2, <1>5, <1>7 DEF Assembled
<1>9. N <= T21_size
  <2>1. N <= effective_lines(lines, permissive)
    BY OpLinesFit DEF N
  <2>2. effective_lines(lines, permissive) \in Nat /\ T21_size \in Nat
    BY OpLinesFit, AssemblerAssumption
  <2>3. ~ (effective_lines(lines, permissive) > T21_size)
    BY DEF Throws
  <2>4. QED
    BY <1>1, <2>1, <2>2, <2>3
<1>10. \A j \in DOMAIN c : IsInstr(w(j), labels, permissive) /\ c[j] = Normalized(i(j), Len(c))
  BY <1>2, <1>3, <1>7
<1>11. QED
  BY <1>7, <1>8, <1>9, <1>10 DEF c, N, labels, w, i
-----------------------------------------------------------------------------
(* Reading the sections                                                    *)

LEMMA TrimmedFacts ==
  ASSUME NEW lines \in Seq(Line)
  PROVE  Trimmed(lines) \in Seq(Line)
<1> DEFINE n == Len(lines)
           solid == {j \in DOMAIN lines : ~Blank(lines[j])}
<1>1. n \in Nat /\ solid \in SUBSET (1 .. n)
  OBVIOUS
<1>2. Trimmed(lines) = IF solid = {} THEN <<>> ELSE SubSeq(lines, Min(solid), Max(solid))
  BY DEF Trimmed
<1>3. <<>> \in Seq(Line)
  OBVIOUS
<1> HIDE DEF solid
<1>4. ASSUME solid # {} PROVE Min(solid) \in 1 .. n /\ Max(solid) \in 1 .. n
  <2>1. PICK least \in solid : \A y \in solid : least <= y
    <3>1. solid \subseteq Nat
      BY <1>1
    <3>2. QED
      BY <1>4, <3>1, LeastNat
  <2>2. Min(solid) \in solid
    BY <2>1 DEF Min
  <2> DEFINE away == {n - y : y \in solid}
  <2>3. away \subseteq Nat /\ away # {}
    BY <1>1, <1>4
  <2>4. PICK z \in away : \A y \in away : z <= y
    <3> HIDE DEF away
    <3>1. QED
      BY <2>3, LeastNat
  <2>5. PICK x \in solid : z = n - x
    BY <2>4
  <2>6. ASSUME NEW y \in solid PROVE x >= y
    <3>1. n - y \in away
      OBVIOUS
    <3> HIDE DEF away
    <3>2. n - x <= n - y
      BY <2>4, <2>5, <3>1
    <3>3. x \in Nat /\ y \in Nat
      <4>1. solid \subseteq Nat
        BY <1>1
      <4>2. x \in solid /\ y \in solid
        OBVIOUS
      <4> HIDE DEF n
      <4>3. QED
        BY <4>1, <4>2
    <3>4. QED
      BY <1>1, <3>2, <3>3
  <2>7. Max(solid) \in solid
    BY <2>6 DEF Max
  <2>8. QED
    BY <1>1, <2>2, <2>7
<1>5. ASSUME NEW a \in 1 .. n, NEW b \in 1 .. n PROVE SubSeq(lines, a, b) \in Seq(Line)
  BY <1>1
<1>6. QED
  BY <1>2, <1>3, <1>4, <1>5

Label(j)   == source.sections[j].label
LinesOf(j) == Trimmed(source.sections[j].lines)

(* The j-th section is no reason to refuse the save.                       *)
Accepted(j) ==
  LinesOf(j) # <<>> => node_by_index(Label(j)) # {} /\ ~Throws(LinesOf(j), source.permissive)

(* The program of the node the j-th section names.                         *)
Kept(j) == IF LinesOf(j) = <<>> THEN <<>> ELSE assemble(LinesOf(j))

(***************************************************************************)
(* The inductive invariant: what the sections read so far have left in the *)
(* nodes.  The properties only speak of single nodes, or of the end.       *)
(***************************************************************************)
LoadInv ==
  /\ source \in Texts /\ k \in 0 .. Len(source.sections)
  /\ status \in {"parsing", "loaded", "thrown"}
  /\ nodes_seen = {Label(j) : j \in 1 .. k}
  /\ \A i, j \in 1 .. k : i # j => Label(i) # Label(j)
  /\ \A j \in 1 .. k : Accepted(j)
  /\ DOMAIN code = DOMAIN nodes_type
  /\ \A n \in DOMAIN nodes_type :
       /\ (\A j \in 1 .. k : n \notin node_by_index(Label(j))) => code[n] = <<>>
       /\ \A j \in 1 .. k : n \in node_by_index(Label(j)) => code[n] = Kept(j)
  /\ status = "loaded" => k = Len(source.sections)
  /\ status = "thrown" => k < Len(source.sections) /\ Refused

LEMMA SourceFacts ==
  ASSUME source \in Texts
  PROVE  /\ Len(source.sections) \in Nat /\ source.permissive \in BOOLEAN
         /\ DOMAIN source.sections = 1 .. Len(source.sections)
         /\ \A j \in 1 .. Len(source.sections) :
              Label(j) \in Int /\ LinesOf(j) \in Seq(Line)
<1>1. source \in Source
  BY AssemblerAssumption
<1>2. /\ Len(source.sections) \in Nat /\ source.permissive \in BOOLEAN
      /\ DOMAIN source.sections = 1 .. Len(source.sections)
      /\ \A j \in 1 .. Len(source.sections) :
           source.sections[j] \in [label : Int, lines : Seq(Line)]
  <2>1. source.sections \in Seq([label : Int, lines : Seq(Line)]) /\ source.permissive \in BOOLEAN
    BY <1>1 DEF Source
  <2> DEFINE secs == source.sections
             S == [label : Int, lines : Seq(Line)]
  <2> HIDE DEF secs, S
  <2>2. /\ Len(secs) \in Nat /\ DOMAIN secs = 1 .. Len(secs)
        /\ \A j \in 1 .. Len(secs) : secs[j] \in S
    <3>1. secs \in Seq(S)
      BY <2>1 DEF secs, S
    <3>2. QED
      BY <3>1
  <2>3. QED
    BY <2>1, <2>2 DEF secs, S
<1>3. \A j \in 1 .. Len(source.sections) :
        source.sections[j].label \in Int /\ source.sections[j].lines \in Seq(Line)
  BY <1>2
<1>4. QED
  BY <1>2, <1>3, TrimmedFacts DEF Label, LinesOf

(* A node is named by one label only.                                      *)
LEMMA OneLabel ==
  ASSUME NEW i, NEW j, NEW n \in node_by_index(i), n \in node_by_index(j)
  PROVE  i = j
BY DEF node_by_index

LEMMA LoadInit == Init => LoadInv
<1> SUFFICES ASSUME Init PROVE LoadInv
  OBVIOUS
<1>1. k = 0 /\ source \in Texts /\ nodes_seen = {} /\ status = "parsing"
      /\ code = [n \in DOMAIN nodes_type |-> <<>>]
  BY DEF Init
<1>2. k \in 0 .. Len(source.sections)
  BY <1>1, SourceFacts
<1>3. \A j : j \notin 1 .. k
  BY <1>1
<1>4. QED
  BY <1>1, <1>2, <1>3 DEF LoadInv

(* One more section read: what both ways of reading it have in common.     *)
LEMMA LoadOne ==
  ASSUME LoadInv, Reading, ~Refused, k' = k + 1, source' = source, status' = status,
         nodes_seen' = nodes_seen \cup {Section.label},
         DOMAIN code' = DOMAIN code,
         \A n \in DOMAIN code :
           code'[n] = IF n \in node_by_index(Section.label) THEN Kept(k + 1) ELSE code[n]
  PROVE  LoadInv'
<1>1. /\ source \in Texts /\ k \in Nat /\ k < Len(source.sections) /\ status = "parsing"
      /\ Len(source.sections) \in Nat
  BY SourceFacts DEF LoadInv, Reading
<1>2. Section.label = Label(k + 1) /\ Body = LinesOf(k + 1)
  BY DEF Section, Body, Label, LinesOf
<1>3. \A j : j \in 1 .. k + 1 <=> j \in 1 .. k \/ j = k + 1
  BY <1>1
<1>4. Accepted(k + 1) /\ Label(k + 1) \notin nodes_seen
  BY <1>2 DEF Refused, Accepted
<1>4a. \A i \in 1 .. k : Label(i) # Label(k + 1)
  BY <1>4 DEF LoadInv
<1>5. \A i, j \in 1 .. k + 1 : i # j => Label(i) # Label(j)
  BY <1>3, <1>4a DEF LoadInv
<1>6. nodes_seen' = {Label(j) : j \in 1 .. k + 1}
  BY <1>2, <1>3 DEF LoadInv
<1>7. \A j \in 1 .. k + 1 : Accepted(j)
  BY <1>3, <1>4 DEF LoadInv
<1>8. ASSUME NEW n \in DOMAIN nodes_type
      PROVE  /\ (\A j \in 1 .. k + 1 : n \notin node_by_index(Label(j))) => code'[n] = <<>>
             /\ \A j \in 1 .. k + 1 : n \in node_by_index(Label(j)) => code'[n] = Kept(j)
  <2>1. code'[n] = IF n \in node_by_index(Label(k + 1)) THEN Kept(k + 1) ELSE code[n]
    BY <1>2 DEF LoadInv
  <2>2. CASE n \in node_by_index(Label(k + 1))
    <3>1. \A j \in 1 .. k : n \notin node_by_index(Label(j))
      BY <1>4a, <2>2, OneLabel
    <3>2. QED
      BY <1>3, <2>1, <2>2, <3>1
  <2>3. CASE n \notin node_by_index(Label(k + 1))
    BY <1>3, <2>1, <2>3 DEF LoadInv
  <2>4. QED
    BY <2>2, <2>3
<1>9. /\ \A j : Label(j)' = Label(j) /\ Kept(j)' = Kept(j) /\ (Accepted(j)' <=> Accepted(j))
      /\ k + 1 \in 0 .. Len(source.sections)
  BY <1>1 DEF Label, LinesOf, Kept, Accepted
<1>10. DOMAIN code' = DOMAIN nodes_type
  BY DEF LoadInv
<1>11. QED
  BY <1>1, <1>5, <1>6, <1>7, <1>8, <1>9, <1>10 DEF LoadInv

LEMMA LoadNext == LoadInv /\ [Next]_vars => LoadInv'
<1> SUFFICES ASSUME LoadInv, [Next]_vars PROVE LoadInv'
  OBVIOUS
<1>1. ASSUME UNCHANGED <<source, k, nodes_seen, code>>
      PROVE  /\ \A j : Label(j)' = Label(j) /\ Kept(j)' = Kept(j)
                       /\ (Accepted(j)' <=> Accepted(j))
             /\ Refused' <=> Refused
  BY <1>1 DEF Label, LinesOf, Kept, Accepted, Refused, Section, Body
<1>2. CASE ThrowAt
  <2>1. UNCHANGED <<source, k, nodes_seen, code>> /\ status' = "thrown" /\ Refused
        /\ k < Len(source.sections)
    BY <1>2 DEF ThrowAt, Reading
  <2>2. QED
    BY <1>1, <2>1 DEF LoadInv
<1>3. CASE SkipSection
  <2>1. /\ Reading /\ ~Refused /\ Body = <<>>
        /\ k' = k + 1 /\ source' = source /\ status' = status /\ code' = code
        /\ nodes_seen' = nodes_seen \cup {Section.label}
    BY <1>3 DEF SkipSection
  <2>2. Kept(k + 1) = <<>> /\ Section.label = Label(k + 1)
    BY <2>1 DEF Kept, Body, Section, LinesOf, Label
  <2>3. ASSUME NEW n \in DOMAIN code, n \in node_by_index(Section.label)
        PROVE  code[n] = <<>>
    <3>1. \A j \in 1 .. k : Label(j) # Label(k + 1)
      BY <2>1, <2>2 DEF Refused, LoadInv
    <3>2. \A j \in 1 .. k : n \notin node_by_index(Label(j))
      BY <2>2, <2>3, <3>1, OneLabel
    <3>3. QED
      BY <3>2 DEF LoadInv
  <2>4. \A n \in DOMAIN code :
          code'[n] = IF n \in node_by_index(Section.label) THEN Kept(k + 1) ELSE code[n]
    BY <2>1, <2>2, <2>3
  <2>5. QED
    BY <2>1, <2>4, LoadOne
<1>4. CASE LoadSection
  <2>1. /\ Reading /\ ~Refused /\ Body # <<>>
        /\ k' = k + 1 /\ source' = source /\ status' = status
        /\ nodes_seen' = nodes_seen \cup {Section.label}
        /\ code' = [n \in DOMAIN code |->
                      IF n \in node_by_index(Section.label) THEN assemble(Body) ELSE code[n]]
    BY <1>4 DEF LoadSection
  <2>2. Kept(k + 1) = assemble(Body)
    BY <2>1 DEF Kept, Body, Section, LinesOf
  <2>3. /\ DOMAIN code' = DOMAIN code
        /\ \A n \in DOMAIN code :
             code'[n] = IF n \in node_by_index(Section.label) THEN Kept(k + 1) ELSE code[n]
    BY <2>1, <2>2
  <2>4. QED
    BY <2>1, <2>3, LoadOne
<1>5. CASE Finalize
  <2>1. UNCHANGED <<source, k, nodes_seen, code>> /\ status' = "loaded"
        /\ k = Len(source.sections)
    BY <1>5 DEF Finalize
  <2>2. QED
    BY <1>1, <2>1 DEF LoadInv
<1>6. CASE UNCHANGED vars
  <2>1. UNCHANGED <<source, k, nodes_seen, code>> /\ status' = status
    BY <1>6 DEF vars
  <2>2. QED
    BY <1>1, <2>1 DEF LoadInv
<1>7. QED
  BY <1>2, <1>3, <1>4, <1>5, <1>6 DEF Next

LEMMA LoadInvAlways == Spec => []LoadInv
<1>1. QED
  BY LoadInit, LoadNext, PTL DEF Spec

-----------------------------------------------------------------------------
(* Every program is one the simulator may be given                         *)

LEMMA LoadInvTypeOK == LoadInv => TypeOK
<1> SUFFICES ASSUME LoadInv PROVE TypeOK
  OBVIOUS
<1>1. /\ source \in Texts /\ k \in 0 .. Len(source.sections)
      /\ status \in {"parsing", "loaded", "thrown"}
      /\ Len(source.sections) \in Nat
  BY SourceFacts DEF LoadInv
<1>2. \A j \in 1 .. k : j \in 1 .. Len(source.sections)
  BY <1>1
<1>3. nodes_seen \subseteq Int
  BY <1>1, <1>2, SourceFacts DEF LoadInv
<1>4. ASSUME NEW n \in DOMAIN nodes_type
      PROVE  /\ Assembled(code[n]) /\ Len(code[n]) <= T21_size
             /\ nodes_type[n] # "T21" => code[n] = <<>>
  <2>1. Assembled(<<>>) /\ Len(<<>>) <= T21_size
    BY AssemblerAssumption DEF Assembled
  <2>2. CASE \A j \in 1 .. k : n \notin node_by_index(Label(j))
    BY <2>1, <2>2 DEF LoadInv
  <2>3. CASE \E j \in 1 .. k : n \in node_by_index(Label(j))
    <3>1. PICK j \in 1 .. k : n \in node_by_index(Label(j))
      BY <2>3
    <3>2. code[n] = Kept(j) /\ Accepted(j)
      BY <3>1 DEF LoadInv
    <3>3. nodes_type[n] = "T21"
      BY <3>1 DEF node_by_index, Programmable
    <3>4. CASE LinesOf(j) = <<>>
      BY <2>1, <3>2, <3>3, <3>4 DEF Kept
    <3>5. CASE LinesOf(j) # <<>>
      <4>1. /\ LinesOf(j) \in Seq(Line) /\ source.permissive \in BOOLEAN
            /\ ~Throws(LinesOf(j), source.permissive)
        BY <1>1, <1>2, <3>2, <3>5, SourceFacts DEF Accepted
      <4>2. Assembled(assemble(LinesOf(j))) /\ Len(assemble(LinesOf(j))) <= T21_size
        BY <4>1, AssembleFacts
      <4>3. QED
        BY <3>2, <3>3, <3>5, <4>2 DEF Kept
    <3>6. QED
      BY <3>4, <3>5
  <2>4. QED
    BY <2>2, <2>3
<1>5. QED
  BY <1>1, <1>3, <1>4 DEF TypeOK

(* Whatever the save, and whether or not it is accepted in the end, every  *)
(* node holds a program that fits into it, whose jumps land inside it and  *)
(* whose immediates are words: the programs Field assumes it is given      *)
(* (assemble, parse_code).                                                 *)
THEOREM AssemblerTypeOK == Spec => []TypeOK
<1>1. QED
  BY LoadInvAlways, LoadInvTypeOK, PTL
-----------------------------------------------------------------------------
(* Every node runs its own lines, and every jump goes to its label         *)

(* Once the first pass has found no fault, a label stands on one line.     *)
LEMMA OneLine ==
  ASSUME NEW lines \in Seq(Line), ~FirstPass(lines).bad,
         NEW i \in 1 .. Len(lines), NEW j \in 1 .. Len(lines),
         NEW a \in LabelsOf(lines[i]), a \in LabelsOf(lines[j])
  PROVE  i = j
<1>1. Len(lines) \in Nat
  OBVIOUS
<1>2. ~BadUpTo(lines, Len(lines))
  BY <1>1, FirstPassExact DEF Passed
<1>3. \A x, y \in 1 .. Len(lines) :
        x < y /\ a \in LabelsOf(lines[x]) /\ a \in LabelsOf(lines[y]) => FALSE
  <2> SUFFICES ASSUME NEW x \in 1 .. Len(lines), NEW y \in 1 .. Len(lines), x < y,
                      a \in LabelsOf(lines[x]), a \in LabelsOf(lines[y])
               PROVE  FALSE
    OBVIOUS
  <2>1. x \in 1 .. y - 1
    BY <1>1
  <2>2. BadAt(lines, y)
    BY <2>1 DEF BadAt
  <2>3. QED
    BY <1>2, <2>2 DEF BadUpTo
<1>4. i < j \/ j < i \/ i = j
  BY <1>1
<1>5. QED
  BY <1>3, <1>4

LEMMA TargetExact ==
  ASSUME NEW lines \in Seq(Line), ~FirstPass(lines).bad, NEW a \in FirstPass(lines).labels
  PROVE  Target(lines, a[1]) = IF a[2] >= Cardinality(OpLines(lines)) THEN 0 ELSE a[2]
<1> DEFINE ops == OpLines(lines)
<1>1. /\ Len(lines) \in Nat /\ DOMAIN lines = 1 .. Len(lines)
      /\ ops \in SUBSET (1 .. Len(lines)) /\ IsFiniteSet(ops) /\ Cardinality(ops) \in Nat
  BY OpLinesFacts
<1>2. PICK i \in 1 .. Len(lines) :
        \E x \in LabelsOf(lines[i]) : a = <<x, Count(lines, i - 1)>>
  <2>1. a \in LabelsUpTo(lines, Len(lines))
    BY <1>1, FirstPassExact DEF Passed
  <2>2. QED
    BY <1>1, <2>1, LabelsUpToHas
<1>3. a[1] \in LabelsOf(lines[i]) /\ a[2] = Count(lines, i - 1)
  BY <1>2
<1>4. (CHOOSE j \in DOMAIN lines : a[1] \in LabelsOf(lines[j])) = i
  <2>1. \A j \in DOMAIN lines : a[1] \in LabelsOf(lines[j]) => j = i
    BY <1>1, <1>3, OneLine
  <2>2. QED
    BY <1>1, <1>3, <2>1
<1> DEFINE on     == {j \in ops : j >= i}
           before == {j \in ops : j < i}
<1>5. Target(lines, a[1]) = IF on = {} THEN 0
                            ELSE Cardinality({j \in ops : j < Min(on)})
  BY <1>4 DEF Target
<1>6. a[2] = Cardinality(before)
  <2>1. {j \in 1 .. i - 1 : HasOp(lines[j])} = before
    BY <1>1 DEF OpLines
  <2>2. QED
    BY <1>3, <2>1 DEF Count
<1>7. before \in SUBSET ops /\ (on = {} <=> before = ops)
  BY <1>1
<1>8. on # {} => {j \in ops : j < Min(on)} = before
  <2> SUFFICES ASSUME on # {} PROVE {j \in ops : j < Min(on)} = before
    OBVIOUS
  <2>1. on \subseteq Nat
    BY <1>1
  <2>2. PICK m \in on : \A y \in on : m <= y
    <3> HIDE DEF on
    <3>1. QED
      BY <2>1, LeastNat
  <2>3. Min(on) \in on /\ \A y \in on : Min(on) <= y
    BY <2>2 DEF Min
  <2> DEFINE M == Min(on)
  <2>4. M \in ops /\ M >= i /\ \A y \in ops : y >= i => M <= y
    BY <2>3
  <2> HIDE DEF M
  <2>5. {j \in ops : j < M} = before
    <3>1. \A j \in ops : j < M <=> j < i
      <4>1. \A j \in ops : j \in Int
        BY <1>1
      <4>2. M \in Int /\ i \in Int
        BY <2>4, <4>1
      <4> HIDE DEF ops
      <4>3. QED
        BY <2>4, <4>1, <4>2
    <3>2. QED
      BY <3>1
  <2>6. QED
    BY <2>5 DEF M
<1> HIDE DEF ops, on, before
<1>9. IsFiniteSet(before) /\ Cardinality(before) \in Nat
  BY <1>1, <1>7, FS_Subset, FS_CardinalityType
<1>10. /\ Cardinality(before) <= Cardinality(ops)
       /\ Cardinality(before) = Cardinality(ops) => before = ops
  BY <1>1, <1>7, FS_Subset
<1>11. CASE on = {}
  <2>1. a[2] >= Cardinality(ops)
    BY <1>1, <1>6, <1>7, <1>11
  <2>2. QED
    BY <1>5, <1>11, <2>1 DEF ops
<1>12. CASE on # {}
  <2>1. ~(a[2] >= Cardinality(ops))
    BY <1>1, <1>6, <1>7, <1>9, <1>10, <1>12
  <2>2. QED
    BY <1>5, <1>6, <1>8, <1>12, <2>1 DEF ops
<1>13. QED
  BY <1>11, <1>12

(* What the j-th instruction of a program says.                            *)
LEMMA ProgramExact ==
  ASSUME NEW lines \in Seq(Line), NEW permissive \in BOOLEAN, ~Throws(lines, permissive),
         NEW j \in DOMAIN InOrder(OpLines(lines))
  PROVE  LET w == Words(lines[InOrder(OpLines(lines))[j]])
             c == assemble(lines)
         IN /\ c[j].op = opcode_of[w[1]]
            /\ c[j].op \in Jumps => c[j].val = Target(lines, w[2])
            /\ c[j].op = "mov" => Means(w[3], c[j].dst)
            /\ c[j].op \in Readers =>
                 IF c[j].src = "immediate" THEN c[j].val = integer_of[w[2]]
                 ELSE Means(w[2], c[j].src)
<1> DEFINE w == Words(lines[InOrder(OpLines(lines))[j]])
           labels == FirstPass(lines).labels
           i == InstrOf(w, labels)
           N == Cardinality(OpLines(lines))
           c == assemble(lines)
<1>1. j \in DOMAIN c /\ Len(c) = N
  <2>1. Assembled(c) /\ Len(c) = N
    BY AssembleFacts
  <2>2. DOMAIN InOrder(OpLines(lines)) = 1 .. N
    BY OpLinesFacts
  <2>3. DOMAIN c = 1 .. Len(c)
    BY <2>1 DEF Assembled
  <2>4. QED
    BY <2>1, <2>2, <2>3
<1>2. IsInstr(w, labels, permissive) /\ c[j] = Normalized(i, N)
  BY <1>1, AssembleFacts
<1>3. /\ i \in Instr /\ i.op = opcode_of[w[1]]
      /\ i.op \in Jumps => \E a \in labels : a[1] = w[2] /\ i.val = a[2]
      /\ i.op = "mov" => Means(w[3], i.dst)
      /\ i.op \in Readers => IF i.src = "immediate" THEN i.val = integer_of[w[2]]
                             ELSE Means(w[2], i.src)
  BY <1>2, LabelFacts, InstrFacts
<1>4. ~FirstPass(lines).bad
  BY DEF Throws
<1>5. Jumps \cap Readers = {} /\ "mov" \notin Jumps
  BY DEF Jumps, Readers
<1> HIDE DEF c, w, i, N
<1>6. CASE i.op \in Jumps
  <2>1. PICK a \in labels : a[1] = w[2] /\ i.val = a[2]
    BY <1>3, <1>6
  <2>2. Target(lines, w[2]) = IF i.val >= N THEN 0 ELSE i.val
    BY <1>4, <2>1, TargetExact DEF N
  <2>3. c[j].op = i.op /\ c[j].val = IF i.val >= N THEN 0 ELSE i.val
    BY <1>2, <1>3, <1>6 DEF Normalized, Instr
  <2>4. c[j].op # "mov" /\ c[j].op \notin Readers
    BY <1>5, <1>6, <2>3
  <2>5. QED
    BY <1>3, <2>2, <2>3, <2>4 DEF c, w
<1>7. CASE i.op \notin Jumps
  <2>1. c[j] = i
    BY <1>2, <1>7 DEF Normalized
  <2>2. QED
    BY <1>3, <1>7, <2>1 DEF c, w
<1>8. QED
  BY <1>6, <1>7

(* The section a node's program came from, if any.                         *)
LEMMA OwnKept ==
  ASSUME LoadInv, status = "loaded", NEW n \in Programmable
  PROVE  /\ OwnLines(n) \in Seq(Line) /\ source.permissive \in BOOLEAN
         /\ OwnLines(n) = <<>> => code[n] = <<>>
         /\ OwnLines(n) # <<>> => /\ code[n] = assemble(OwnLines(n))
                                  /\ ~Throws(OwnLines(n), source.permissive)
<1>1. /\ source \in Texts /\ k = Len(source.sections) /\ n \in DOMAIN nodes_type
      /\ source.permissive \in BOOLEAN /\ DOMAIN source.sections = 1 .. k
  BY SourceFacts DEF LoadInv, Programmable
<1> DEFINE own == {s \in ToSet(source.sections) : n \in node_by_index(s.label)}
<1>2. OwnLines(n) = IF own = {} THEN <<>> ELSE Trimmed((CHOOSE s \in own : TRUE).lines)
  BY DEF OwnLines
<1>3. own = {source.sections[j] : j \in {h \in 1 .. k : n \in node_by_index(Label(h))}}
  BY <1>1 DEF ToSet, Label
<1>4. CASE \A j \in 1 .. k : n \notin node_by_index(Label(j))
  <2>1. own = {}
    BY <1>3, <1>4
  <2>2. code[n] = <<>> /\ <<>> \in Seq(Line)
    BY <1>1, <1>4 DEF LoadInv
  <2>3. QED
    BY <1>1, <1>2, <2>1, <2>2
<1>5. CASE \E j \in 1 .. k : n \in node_by_index(Label(j))
  <2>1. PICK j \in 1 .. k : n \in node_by_index(Label(j))
    BY <1>5
  <2>2. \A h \in 1 .. k : n \in node_by_index(Label(h)) => h = j
    BY <2>1, OneLabel DEF LoadInv
  <2>3. own = {source.sections[j]}
    BY <1>3, <2>1, <2>2
  <2>4. OwnLines(n) = LinesOf(j)
    BY <1>2, <2>3 DEF LinesOf
  <2>5. code[n] = Kept(j) /\ Accepted(j) /\ LinesOf(j) \in Seq(Line)
    BY <1>1, <2>1, SourceFacts DEF LoadInv
  <2>6. QED
    BY <1>1, <2>4, <2>5 DEF Kept, Accepted
<1>6. QED
  BY <1>4, <1>5

LEMMA LoadInvCodeExact == LoadInv => CodeExact
<1> SUFFICES ASSUME LoadInv, status = "loaded", NEW n \in Programmable
             PROVE  LET lines == OwnLines(n)
                        ops   == InOrder(OpLines(lines))
                    IN /\ Len(code[n]) = Len(ops)
                       /\ \A j \in DOMAIN ops :
                            LET w == Words(lines[ops[j]]) IN
                            /\ code[n][j].op = opcode_of[w[1]]
                            /\ code[n][j].op \in Jumps => code[n][j].val = Target(lines, w[2])
                            /\ code[n][j].op = "mov" => Means(w[3], code[n][j].dst)
                            /\ code[n][j].op \in Readers =>
                                 IF code[n][j].src = "immediate"
                                 THEN code[n][j].val = integer_of[w[2]]
                                 ELSE Means(w[2], code[n][j].src)
  BY DEF CodeExact
<1> DEFINE lines == OwnLines(n)
<1>1. /\ lines \in Seq(Line) /\ source.permissive \in BOOLEAN
      /\ lines = <<>> => code[n] = <<>>
      /\ lines # <<>> => code[n] = assemble(lines) /\ ~Throws(lines, source.permissive)
  BY OwnKept
<1> HIDE DEF lines
<1>2. Len(InOrder(OpLines(lines))) = Cardinality(OpLines(lines))
  BY <1>1, OpLinesFacts
<1>3. CASE lines = <<>>
  <2>1. OpLines(lines) = {}
    BY <1>3 DEF OpLines
  <2>2. Cardinality(OpLines(lines)) = 0
    BY <2>1, FS_EmptySet
  <2>3. DOMAIN InOrder(OpLines(lines)) = {} /\ Len(InOrder(OpLines(lines))) = 0
    BY <1>1, <2>2, OpLinesFacts
  <2>4. Len(code[n]) = 0
    BY <1>1, <1>3
  <2>5. QED
    BY <2>3, <2>4 DEF lines
<1>4. CASE lines # <<>>
  <2>1. code[n] = assemble(lines) /\ ~Throws(lines, source.permissive)
    BY <1>1, <1>4
  <2>2. Len(assemble(lines)) = Cardinality(OpLines(lines))
    BY <1>1, <2>1, AssembleFacts
  <2>3. QED
    BY <1>1, <1>2, <2>1, <2>2, ProgramExact DEF lines
<1>5. QED
  BY <1>3, <1>4

(* Whatever the save, a programmable node runs the instructions of its own *)
(* section in their order, and every jump leads where its label stands     *)
(* (assemble's two passes, node_by_index).                                 *)
THEOREM AssemblerCodeExact == Spec => []CodeExact
<1>1. QED
  BY LoadInvAlways, LoadInvCodeExact, PTL
-----------------------------------------------------------------------------
(* Accepted exactly if legal                                               *)

LEMMA PortNamesExact ==
  ASSUME NEW tok, NEW permissive \in BOOLEAN
  PROVE  /\ IsPort(tok, permissive) <=> tok \in PortNames(permissive)
         /\ tok \in PortNames(permissive) => tok \notin DOMAIN integer_of
<1> DEFINE ports == ToSet(port_order)
<1>1. \A p, q \in ports : port_name[q] \in abbreviations[p] <=> p = q
  BY AssemblerAssumption
<1>2. \A p \in ports : abbreviations[p] \cap DOMAIN integer_of = {}
  BY AssemblerAssumption
<1>3. ASSUME NEW p \in ports, tok \in abbreviations[p] PROVE Matches(tok) # {}
  BY <1>3 DEF ToSet, Matches
<1>4. ASSUME Matches(tok) # {} PROVE parse_port(tok) \in ports /\ tok \in abbreviations[parse_port(tok)]
  BY <1>4, PortFacts
<1> HIDE DEF ports
<1>5. CASE permissive
  <2>1. PortNames(permissive) = UNION {abbreviations[p] : p \in ports}
    BY <1>5 DEF PortNames, ports
  <2>2. tok \in PortNames(permissive) <=> \E p \in ports : tok \in abbreviations[p]
    BY <2>1
  <2>3. IsPort(tok, permissive) <=> Matches(tok) # {}
    BY <1>5 DEF IsPort
  <2>4. QED
    BY <1>2, <1>3, <1>4, <2>2, <2>3
<1>6. CASE ~permissive
  <2>1. PortNames(permissive) = {port_name[p] : p \in ports}
    BY <1>6 DEF PortNames, ports
  <2>2. IsPort(tok, permissive) <=> Matches(tok) # {} /\ port_name[parse_port(tok)] = tok
    BY <1>6 DEF IsPort
  <2>3. ASSUME NEW p \in ports, tok = port_name[p]
        PROVE  IsPort(tok, permissive) /\ tok \notin DOMAIN integer_of
    <3>1. tok \in abbreviations[p]
      BY <1>1, <2>3
    <3>2. Matches(tok) # {}
      BY <1>3, <3>1
    <3>3. parse_port(tok) = p
      BY <1>1, <1>4, <2>3, <3>2
    <3>4. QED
      BY <1>2, <2>2, <2>3, <3>1, <3>2, <3>3
  <2>4. ASSUME IsPort(tok, permissive) PROVE tok \in PortNames(permissive)
    BY <1>4, <2>1, <2>2, <2>4
  <2>5. QED
    BY <2>1, <2>3, <2>4
<1>7. QED
  BY <1>5, <1>6

LEMMA OperandExact ==
  ASSUME NEW tok, NEW permissive \in BOOLEAN
  PROVE  IsOperand(tok, permissive) <=> tok \in PortNames(permissive) \cup Immediates
<1>1. CASE tok \in DOMAIN integer_of
  BY <1>1, PortNamesExact DEF IsOperand, Immediates
<1>2. CASE tok \notin DOMAIN integer_of
  BY <1>2, PortNamesExact DEF IsOperand, Immediates
<1>3. QED
  BY <1>1, <1>2

LEMMA ShortSeqs ==
  ASSUME NEW S, NEW w \in Seq(S)
  PROVE  /\ Len(w) = 1 <=> w = <<w[1]>>
         /\ Len(w) = 2 <=> w = <<w[1], w[2]>>
         /\ Len(w) = 3 <=> w = <<w[1], w[2], w[3]>>
OBVIOUS

LEMMA GrammarExact ==
  ASSUME NEW w \in Seq(STRING), w # <<>>, NEW permissive \in BOOLEAN, NEW labels, NEW names,
         \A x : x \in names <=> \E a \in labels : a[1] = x
  PROVE  IsInstr(w, labels, permissive) <=> w \in Grammar(names, permissive)
<1> DEFINE op == opcode_of[w[1]]
           mnemonics(S) == {m \in DOMAIN opcode_of : opcode_of[m] \in S}
           ports == PortNames(permissive)
           operand == ports \cup Immediates
           bare == {<<m>> : m \in mnemonics(Op \ (Readers \cup Jumps))}
           jump == mnemonics(Jumps) \X names
           read == mnemonics(Readers \ {"mov"}) \X operand
           move == mnemonics({"mov"}) \X operand \X ports
<1>1. Grammar(names, permissive) = ((bare \cup jump) \cup read) \cup move
  BY DEF Grammar
<1>2. Len(w) \in Nat \ {0}
  OBVIOUS
<1>3. /\ Len(w) = 1 <=> w = <<w[1]>>
      /\ Len(w) = 2 <=> w = <<w[1], w[2]>>
      /\ Len(w) = 3 <=> w = <<w[1], w[2], w[3]>>
  BY ShortSeqs
<1>4. w \in bare <=> Len(w) = 1 /\ w[1] \in mnemonics(Op \ (Readers \cup Jumps))
  <2>1. ASSUME w \in bare PROVE Len(w) = 1 /\ w[1] \in mnemonics(Op \ (Readers \cup Jumps))
    <3>1. PICK m \in mnemonics(Op \ (Readers \cup Jumps)) : w = <<m>>
      BY <2>1
    <3> HIDE DEF mnemonics
    <3>2. QED
      BY <3>1
  <2>2. QED
    BY <1>3, <2>1
<1>5. w \in jump <=> /\ Len(w) = 2 /\ w[1] \in mnemonics(Jumps) /\ w[2] \in names
  <2> HIDE DEF mnemonics
  <2>1. w \in jump <=> /\ w = <<w[1], w[2]>> /\ w[1] \in mnemonics(Jumps) /\ w[2] \in names
    OBVIOUS
  <2>2. QED
    BY <1>3, <2>1
<1>6. w \in read <=> /\ Len(w) = 2 /\ w[1] \in mnemonics(Readers \ {"mov"}) /\ w[2] \in operand
  <2> HIDE DEF mnemonics, operand
  <2>1. w \in read <=> /\ w = <<w[1], w[2]>> /\ w[1] \in mnemonics(Readers \ {"mov"})
                       /\ w[2] \in operand
    OBVIOUS
  <2>2. QED
    BY <1>3, <2>1
<1>7. w \in move <=> /\ Len(w) = 3 /\ w[1] \in mnemonics({"mov"}) /\ w[2] \in operand
                     /\ w[3] \in ports
  <2> HIDE DEF mnemonics, operand, ports
  <2>1. w \in move <=> /\ w = <<w[1], w[2], w[3]>> /\ w[1] \in mnemonics({"mov"})
                       /\ w[2] \in operand /\ w[3] \in ports
    OBVIOUS
  <2>2. QED
    BY <1>3, <2>1
<1>8. \A S : w[1] \in mnemonics(S) <=> w[1] \in DOMAIN opcode_of /\ op \in S
  OBVIOUS
<1>9. /\ \A tok : IsOperand(tok, permissive) <=> tok \in operand
      /\ \A tok : IsPort(tok, permissive) <=> tok \in ports
  BY OperandExact, PortNamesExact
<1>10. IsInstr(w, labels, permissive)
         <=> /\ w[1] \in DOMAIN opcode_of
             /\ Len(w) = operands(op) + 1
             /\ op \in Jumps => w[2] \in names
             /\ op \in Readers => w[2] \in operand
             /\ op = "mov" => w[3] \in ports
  BY <1>9 DEF IsInstr
<1>11. w[1] \in DOMAIN opcode_of => op \in Op
  BY AssemblerAssumption
<1>12. /\ op = "mov" => operands(op) = 2
       /\ op \in (Readers \ {"mov"}) \cup Jumps => operands(op) = 1
       /\ op \in Op \ (Readers \cup Jumps) => operands(op) = 0
  <2>1. "mov" \in Readers /\ "mov" \notin Jumps
    BY DEF Readers, Jumps
  <2> HIDE DEF op
  <2>2. op = "mov" => operands(op) = 2
    BY <2>1 DEF operands
  <2>3. op \in (Readers \ {"mov"}) \cup Jumps => operands(op) = 1
    BY <2>1 DEF operands
  <2>4. op \in Op \ (Readers \cup Jumps) => operands(op) = 0
    BY <2>1 DEF operands
  <2>5. QED
    BY <2>2, <2>3, <2>4
<1>13. Jumps \cap Readers = {} /\ "mov" \in Readers /\ Jumps \cup Readers \subseteq Op
  BY DEF Jumps, Readers, Op
<1> HIDE DEF op, mnemonics, ports, operand, bare, jump, read, move
<1>14. w \in Grammar(names, permissive)
         <=> /\ w[1] \in DOMAIN opcode_of
             /\ \/ Len(w) = 1 /\ op \in Op \ (Readers \cup Jumps)
                \/ Len(w) = 2 /\ op \in Jumps /\ w[2] \in names
                \/ Len(w) = 2 /\ op \in Readers \ {"mov"} /\ w[2] \in operand
                \/ Len(w) = 3 /\ op \in {"mov"} /\ w[2] \in operand /\ w[3] \in ports
  BY <1>1, <1>4, <1>5, <1>6, <1>7, <1>8
<1>15. CASE w[1] \notin DOMAIN opcode_of
  BY <1>10, <1>14, <1>15
<1>16. CASE w[1] \in DOMAIN opcode_of
  <2>1. op \in Op
    BY <1>11, <1>16
  <2>2. CASE op \in Jumps
    <3>1. IsInstr(w, labels, permissive) <=> Len(w) = 2 /\ w[2] \in names
      BY <1>10, <1>12, <1>13, <1>16, <2>2
    <3>2. w \in Grammar(names, permissive) <=> Len(w) = 2 /\ w[2] \in names
      BY <1>13, <1>14, <1>16, <2>2
    <3>3. QED
      BY <3>1, <3>2
  <2>3. CASE op = "mov"
    <3>1. IsInstr(w, labels, permissive) <=> Len(w) = 3 /\ w[2] \in operand /\ w[3] \in ports
      <4>1. operands(op) + 1 = 3 /\ op \in Readers /\ op \notin Jumps
        BY <1>12, <1>13, <2>3
      <4>2. QED
        BY <1>10, <1>16, <2>3, <4>1
    <3>2. w \in Grammar(names, permissive)
            <=> Len(w) = 3 /\ w[2] \in operand /\ w[3] \in ports
      <4>1. op \in Readers /\ op \notin Jumps /\ op \notin Readers \ {"mov"}
        BY <1>13, <2>3
      <4>2. QED
        BY <1>14, <1>16, <2>3, <4>1
    <3>3. QED
      BY <3>1, <3>2
  <2>4. CASE op \in Readers \ {"mov"}
    <3>1. IsInstr(w, labels, permissive) <=> Len(w) = 2 /\ w[2] \in operand
      <4>1. operands(op) + 1 = 2 /\ op \in Readers /\ op \notin Jumps /\ op # "mov"
        BY <1>12, <1>13, <2>4
      <4>2. QED
        BY <1>10, <1>16, <4>1
    <3>2. w \in Grammar(names, permissive) <=> Len(w) = 2 /\ w[2] \in operand
      <4>1. op \in Readers /\ op \notin Jumps /\ op # "mov"
        BY <1>13, <2>4
      <4>2. QED
        BY <1>14, <1>16, <2>4, <4>1
    <3>3. QED
      BY <3>1, <3>2
  <2>5. CASE op \in Op \ (Readers \cup Jumps)
    <3>1. operands(op) + 1 = 1 /\ op \notin Readers /\ op \notin Jumps /\ op # "mov"
      BY <1>12, <1>13, <2>5
    <3>2. IsInstr(w, labels, permissive) <=> Len(w) = 1
      BY <1>10, <1>16, <3>1
    <3>3. w \in Grammar(names, permissive) <=> Len(w) = 1
      BY <1>14, <1>16, <2>5, <3>1
    <3>4. QED
      BY <3>2, <3>3
  <2>6. QED
    BY <2>1, <2>2, <2>3, <2>4, <2>5
<1>17. QED
  BY <1>15, <1>16

LEMMA LabelsInHas ==
  ASSUME NEW line, NEW toks, NEW at
  PROVE  at \in LabelsIn(line, toks)
           <=> \E j \in toks : \E m \in DOMAIN line.tokens[j].labels : at = <<j, m>>
BY DEF LabelsIn

LEMMA PlacesHas ==
  ASSUME NEW lines, NEW x
  PROVE  x \in Places(lines)
           <=> \E i \in DOMAIN lines :
                 \E at \in LabelsIn(lines[i], DOMAIN lines[i].tokens) : x = <<i, at>>
BY DEF Places

(* The first pass misses no label unless the second one throws at it.      *)
LEMMA LateExact ==
  ASSUME NEW line \in Line
  PROVE  /\ ~LateLabel(line)
              <=> \A at \in LabelsIn(line, DOMAIN line.tokens) :
                    \A j \in 1 .. at[1] - 1 : ~HasRest(line.tokens[j])
         /\ ~LateLabel(line)
              => \A at : at \in LabelsIn(line, Scanned(line))
                           <=> at \in LabelsIn(line, DOMAIN line.tokens)
<1> DEFINE toks == line.tokens
           n == Len(toks)
           has(j) == HasRest(toks[j])
           many(j) == Len(toks[j].labels)
<1>1. /\ n \in Nat /\ DOMAIN toks = 1 .. n
      /\ \A j \in 1 .. n : toks[j].labels \in Seq(STRING)
  <2>1. toks \in Seq(Token)
    BY DEF Line
  <2>2. n \in Nat /\ DOMAIN toks = 1 .. n /\ \A j \in 1 .. n : toks[j] \in Token
    <3> HIDE DEF toks
    <3>1. QED
      BY <2>1
  <2> HIDE DEF toks, n
  <2>3. QED
    BY <2>2 DEF Token
<1>2. \A j \in 1 .. n : /\ many(j) \in Nat /\ DOMAIN toks[j].labels = 1 .. many(j)
                        /\ toks[j].labels # <<>> <=> many(j) # 0
  BY <1>1
<1>3. \A at : at \in LabelsIn(line, DOMAIN toks)
                <=> \E j \in 1 .. n : \E m \in 1 .. many(j) : at = <<j, m>>
  BY <1>1, <1>2, LabelsInHas
<1>4. \A at : at \in LabelsIn(line, Scanned(line))
                <=> \E j \in 1 .. n : /\ \A i \in 1 .. j - 1 : ~has(i)
                                      /\ \E m \in 1 .. many(j) : at = <<j, m>>
  <2>1. \A j : j \in Scanned(line) <=> j \in 1 .. n /\ \A i \in 1 .. j - 1 : ~has(i)
    BY <1>1 DEF Scanned
  <2>2. \A at : at \in LabelsIn(line, Scanned(line))
                  <=> \E j \in Scanned(line) : \E m \in DOMAIN toks[j].labels : at = <<j, m>>
    BY LabelsInHas
  <2> HIDE DEF toks, n, has, many
  <2>3. QED
    BY <1>2, <2>1, <2>2
<1>5. LateLabel(line) <=> \E i, j \in 1 .. n : i < j /\ has(i) /\ many(j) # 0
  BY <1>1, <1>2 DEF LateLabel
<1>6. (\A at \in LabelsIn(line, DOMAIN toks) : \A j \in 1 .. at[1] - 1 : ~has(j))
        <=> \A j \in 1 .. n : \A m \in 1 .. many(j) : \A i \in 1 .. j - 1 : ~has(i)
  <2> DEFINE all == LabelsIn(line, DOMAIN toks)
  <2> HIDE DEF toks, n, has, many, all
  <2>1. \A at : at \in all <=> \E j \in 1 .. n : \E m \in 1 .. many(j) : at = <<j, m>>
    BY <1>3 DEF all
  <2>2. ASSUME NEW j \in 1 .. n, NEW m \in 1 .. many(j), \A at \in all : \A i \in 1 .. at[1] - 1 : ~has(i)
        PROVE  \A i \in 1 .. j - 1 : ~has(i)
    <3>1. <<j, m>> \in all /\ <<j, m>>[1] = j
      BY <2>1
    <3>2. QED
      BY <2>2, <3>1
  <2>3. ASSUME NEW at \in all, \A j \in 1 .. n : \A m \in 1 .. many(j) : \A i \in 1 .. j - 1 : ~has(i)
        PROVE  \A i \in 1 .. at[1] - 1 : ~has(i)
    <3>1. PICK j \in 1 .. n : \E m \in 1 .. many(j) : at = <<j, m>>
      BY <2>1
    <3>2. at[1] = j
      BY <3>1
    <3>3. QED
      BY <2>3, <3>1, <3>2
  <2>4. QED
    BY <2>2, <2>3 DEF all
<1>7. \A j \in 1 .. n : many(j) \in Nat
  BY <1>2
<1> HIDE DEF n, has, many, toks
<1>8. LateLabel(line)
        <=> ~ \A j \in 1 .. n : \A m \in 1 .. many(j) : \A i \in 1 .. j - 1 : ~has(i)
  <2>1. ASSUME NEW i \in 1 .. n, NEW j \in 1 .. n, i < j, has(i), many(j) # 0
        PROVE  1 \in 1 .. many(j) /\ i \in 1 .. j - 1
    BY <1>1, <1>7, <2>1
  <2>2. ASSUME NEW j \in 1 .. n, NEW m \in 1 .. many(j), NEW i \in 1 .. j - 1
        PROVE  i \in 1 .. n /\ i < j /\ many(j) # 0
    BY <1>1, <1>7
  <2>3. QED
    BY <1>5, <2>1, <2>2
<1>9. ASSUME ~LateLabel(line), NEW j \in 1 .. n, NEW m \in 1 .. many(j)
      PROVE  \A i \in 1 .. j - 1 : ~has(i)
  BY <1>8, <1>9
<1>10. QED
  BY <1>3, <1>4, <1>6, <1>8, <1>9 DEF toks, has

(* The names a section defines are those on its lines, ...                 *)
LEMMA EveryLabel ==
  ASSUME NEW lines \in Seq(Line), \A i \in DOMAIN lines : ~LateLabel(lines[i]), NEW name
  PROVE  (\E x \in Places(lines) : name = label_in(lines, x))
           <=> \E i \in DOMAIN lines : name \in LabelsOf(lines[i])
<1>1. \A i \in DOMAIN lines : lines[i] \in Line
  OBVIOUS
<1>2. ASSUME NEW i \in DOMAIN lines, NEW at
      PROVE  /\ at \in LabelsIn(lines[i], Scanned(lines[i]))
                  <=> at \in LabelsIn(lines[i], DOMAIN lines[i].tokens)
             /\ label_in(lines, <<i, at>>) = label_at(lines[i], at)
  BY <1>1, LateExact DEF label_in
<1>3. ASSUME NEW x \in Places(lines), name = label_in(lines, x)
      PROVE  \E i \in DOMAIN lines : name \in LabelsOf(lines[i])
  <2>1. PICK i \in DOMAIN lines : \E at \in LabelsIn(lines[i], DOMAIN lines[i].tokens) : x = <<i, at>>
    BY PlacesHas
  <2>2. PICK at \in LabelsIn(lines[i], DOMAIN lines[i].tokens) : x = <<i, at>>
    BY <2>1
  <2>3. QED
    BY <1>2, <1>3, <2>2 DEF LabelsOf
<1>4. ASSUME NEW i \in DOMAIN lines, name \in LabelsOf(lines[i])
      PROVE  \E x \in Places(lines) : name = label_in(lines, x)
  <2>1. PICK at \in LabelsIn(lines[i], Scanned(lines[i])) : name = label_at(lines[i], at)
    BY <1>4 DEF LabelsOf
  <2>2. <<i, at>> \in Places(lines)
    BY <1>2, <2>1, PlacesHas
  <2>3. QED
    BY <1>2, <2>1, <2>2
<1>5. QED
  BY <1>3, <1>4

(* ... the first pass throws exactly if one is empty or stands twice, ...  *)
LEMMA PassLegal ==
  ASSUME NEW lines \in Seq(Line), \A i \in DOMAIN lines : ~LateLabel(lines[i])
  PROVE  ~FirstPass(lines).bad
           <=> /\ \A x \in Places(lines) : label_in(lines, x) # ""
               /\ \A x, y \in Places(lines) : x # y => label_in(lines, x) # label_in(lines, y)
<1> DEFINE n == Len(lines)
           In(i) == LabelsIn(lines[i], DOMAIN lines[i].tokens)
           label(i, at) == label_at(lines[i], at)
<1>1. n \in Nat /\ DOMAIN lines = 1 .. n /\ \A i \in 1 .. n : lines[i] \in Line
  OBVIOUS
<1>2. FirstPass(lines).bad <=> \E i \in 1 .. n : BadAt(lines, i)
  BY <1>1, FirstPassExact DEF Passed, BadUpTo
<1>3. ASSUME NEW i \in 1 .. n
      PROVE  /\ \A x : x \in LabelsOf(lines[i]) <=> \E at \in In(i) : x = label(i, at)
             /\ Repeats(lines[i]) <=> \E at, by \in In(i) : at # by /\ label(i, at) = label(i, by)
  <2>1. \A at : at \in LabelsIn(lines[i], Scanned(lines[i])) <=> at \in In(i)
    BY <1>1, LateExact
  <2>2. QED
    BY <2>1 DEF LabelsOf, Repeats
<1>4. \A x : x \in Places(lines) <=> \E i \in 1 .. n : \E at \in In(i) : x = <<i, at>>
  BY <1>1, PlacesHas
<1>5. \A i, at : label_in(lines, <<i, at>>) = label(i, at)
  BY DEF label_in
<1> HIDE DEF In, label, n
<1>6. ASSUME NEW i \in 1 .. n
      PROVE  BadAt(lines, i)
               <=> \/ \E at \in In(i) : label(i, at) = ""
                   \/ \E at, by \in In(i) : at # by /\ label(i, at) = label(i, by)
                   \/ \E h \in 1 .. i - 1 : \E at \in In(h) : \E by \in In(i) :
                        label(h, at) = label(i, by)
  <2>1. \A h \in 1 .. i - 1 : h \in 1 .. n
    BY <1>1
  <2>2. "" \in LabelsOf(lines[i]) <=> \E at \in In(i) : label(i, at) = ""
    BY <1>3
  <2>3. ASSUME NEW h \in 1 .. i - 1
        PROVE  (\E a \in LabelsOf(lines[h]) : a \in LabelsOf(lines[i]))
                 <=> \E at \in In(h) : \E by \in In(i) : label(h, at) = label(i, by)
    <3>1. \A x : x \in LabelsOf(lines[h]) <=> \E at \in In(h) : x = label(h, at)
      BY <1>3, <2>1
    <3>2. \A x : x \in LabelsOf(lines[i]) <=> \E at \in In(i) : x = label(i, at)
      BY <1>3
    <3>3. QED
      BY ONLY <3>1, <3>2
  <2>4. Repeats(lines[i]) <=> \E at, by \in In(i) : at # by /\ label(i, at) = label(i, by)
    BY <1>3
  <2>5. (\E h \in 1 .. i - 1 : \E a \in LabelsOf(lines[h]) : a \in LabelsOf(lines[i]))
          <=> \E h \in 1 .. i - 1 : \E at \in In(h) : \E by \in In(i) : label(h, at) = label(i, by)
    BY ONLY <2>3
  <2>6. QED
    BY ONLY <2>2, <2>4, <2>5 DEF BadAt
<1>7. ASSUME NEW x \in Places(lines), label_in(lines, x) = ""
      PROVE  \E i \in 1 .. n : BadAt(lines, i)
  <2>1a. PICK i \in 1 .. n : \E at \in In(i) : x = <<i, at>>
    BY <1>4
  <2>1. PICK at \in In(i) : x = <<i, at>>
    BY <2>1a
  <2>2. QED
    BY <1>5, <1>6, <1>7, <2>1
<1>8. ASSUME NEW x \in Places(lines), NEW y \in Places(lines), x # y,
             label_in(lines, x) = label_in(lines, y)
      PROVE  \E i \in 1 .. n : BadAt(lines, i)
  <2>1a. PICK i \in 1 .. n : \E at \in In(i) : x = <<i, at>>
    BY <1>4
  <2>1. PICK at \in In(i) : x = <<i, at>>
    BY <2>1a
  <2>2a. PICK h \in 1 .. n : \E by \in In(h) : y = <<h, by>>
    BY <1>4
  <2>2. PICK by \in In(h) : y = <<h, by>>
    BY <2>2a
  <2>3. label(i, at) = label(h, by)
    BY <1>5, <1>8, <2>1, <2>2
  <2>4. CASE i = h
    <3>1. at # by
      BY <1>8, <2>1, <2>2, <2>4
    <3>2. QED
      BY <1>6, <2>3, <2>4, <3>1
  <2>5. CASE i < h
    <3>1. i \in 1 .. h - 1
      BY <1>1, <2>5
    <3>2. QED
      BY <1>6, <2>3, <3>1
  <2>6. CASE h < i
    <3>1. h \in 1 .. i - 1
      BY <1>1, <2>6
    <3>2. QED
      BY <1>6, <2>3, <3>1
  <2>7. i = h \/ i < h \/ h < i
    BY <1>1
  <2>8. QED
    BY <2>4, <2>5, <2>6, <2>7
<1>9. ASSUME NEW i \in 1 .. n, BadAt(lines, i)
      PROVE  \/ \E x \in Places(lines) : label_in(lines, x) = ""
             \/ \E x, y \in Places(lines) : x # y /\ label_in(lines, x) = label_in(lines, y)
  <2>1. CASE \E at \in In(i) : label(i, at) = ""
    BY <1>4, <1>5, <2>1
  <2>2. ASSUME NEW at \in In(i), NEW by \in In(i), at # by, label(i, at) = label(i, by)
        PROVE  \E x, y \in Places(lines) : x # y /\ label_in(lines, x) = label_in(lines, y)
    <3>1. <<i, at>> \in Places(lines) /\ <<i, by>> \in Places(lines) /\ <<i, at>> # <<i, by>>
      BY <1>4, <2>2
    <3>2. label_in(lines, <<i, at>>) = label_in(lines, <<i, by>>)
      BY <1>5, <2>2
    <3>3. QED
      BY <3>1, <3>2
  <2>3. ASSUME NEW h \in 1 .. i - 1, NEW at \in In(h), NEW by \in In(i),
               label(h, at) = label(i, by)
        PROVE  \E x, y \in Places(lines) : x # y /\ label_in(lines, x) = label_in(lines, y)
    <3>1. h \in 1 .. n /\ h # i
      BY <1>1
    <3>2. <<h, at>> \in Places(lines) /\ <<i, by>> \in Places(lines) /\ <<h, at>> # <<i, by>>
      BY <1>4, <3>1
    <3>3. label_in(lines, <<h, at>>) = label_in(lines, <<i, by>>)
      BY <1>5, <2>3
    <3>4. QED
      BY <3>2, <3>3
  <2>4. QED
    BY <1>6, <1>9, <2>1, <2>2, <2>3
<1>10. QED
  BY <1>2, <1>7, <1>8, <1>9

(* ... and one label a line is all a strict save may have.                 *)
LEMMA OneALine ==
  ASSUME NEW lines \in Seq(Line), \A i \in DOMAIN lines : ~LateLabel(lines[i])
  PROVE  (\E i \in DOMAIN lines :
            \E at, by \in LabelsIn(lines[i], Scanned(lines[i])) : at # by)
           <=> \E x, y \in Places(lines) : x # y /\ x[1] = y[1]
<1> DEFINE In(i) == LabelsIn(lines[i], DOMAIN lines[i].tokens)
<1>1. \A i \in DOMAIN lines : \A at :
        at \in LabelsIn(lines[i], Scanned(lines[i])) <=> at \in In(i)
  <2>1. \A i \in DOMAIN lines : lines[i] \in Line
    OBVIOUS
  <2>2. QED
    BY <2>1, LateExact
<1>2. \A x : x \in Places(lines) <=> \E i \in DOMAIN lines : \E at \in In(i) : x = <<i, at>>
  BY PlacesHas
<1> HIDE DEF In
<1>3. ASSUME NEW i \in DOMAIN lines, NEW at \in In(i), NEW by \in In(i), at # by
      PROVE  \E x, y \in Places(lines) : x # y /\ x[1] = y[1]
  <2>1. <<i, at>> \in Places(lines) /\ <<i, by>> \in Places(lines) /\ <<i, at>> # <<i, by>>
    BY <1>2, <1>3
  <2>2. <<i, at>>[1] = <<i, by>>[1]
    OBVIOUS
  <2>3. QED
    BY <2>1, <2>2
<1>4. ASSUME NEW x \in Places(lines), NEW y \in Places(lines), x # y, x[1] = y[1]
      PROVE  \E i \in DOMAIN lines : \E at, by \in In(i) : at # by
  <2>1a. PICK i \in DOMAIN lines : \E at \in In(i) : x = <<i, at>>
    BY <1>2
  <2>1. PICK at \in In(i) : x = <<i, at>>
    BY <2>1a
  <2>2a. PICK h \in DOMAIN lines : \E by \in In(h) : y = <<h, by>>
    BY <1>2
  <2>2. PICK by \in In(h) : y = <<h, by>>
    BY <2>2a
  <2>3. i = h /\ at # by
    BY <1>4, <2>1, <2>2
  <2>4. QED
    BY <2>3
<1>5. QED
  BY <1>1, <1>3, <1>4

(* The second pass meets every line with an instruction.                   *)
LEMMA EveryLineRead ==
  ASSUME NEW lines \in Seq(Line), NEW c \in OpLines(lines)
  PROVE  \E j \in DOMAIN CodeLines(lines) : CodeLines(lines)[j] = c
<1> DEFINE n == Len(lines)
           S == OpLines(lines)
           rank == Cardinality(UpTo(S, c))
<1>1. /\ n \in Nat /\ S \in SUBSET (1 .. n) /\ CodeLines(lines) = InOrder(S)
      /\ DOMAIN CodeLines(lines) = 1 .. Cardinality(S)
  BY OpLinesFacts
<1> HIDE DEF S, n
<1>2. c \in S /\ c \in Int
  BY <1>1 DEF S
<1>3. rank \in 1 .. Cardinality(S)
  BY <1>1, <1>2, UpToFinite
<1>4. InOrder(S)[rank] = c
  BY <1>1, <1>2, InOrderLists
<1>5. QED
  BY <1>1, <1>3, <1>4

LEMMA EffectiveExact ==
  ASSUME NEW lines \in Seq(Line), NEW permissive \in BOOLEAN
  PROVE  effective_lines(lines, permissive)
           = Cardinality({j \in DOMAIN lines : permissive => lines[j].tokens # <<>>})
<1> DEFINE n == Len(lines)
<1>1. n \in Nat /\ DOMAIN lines = 1 .. n
  OBVIOUS
<1>2. CASE permissive
  BY <1>2 DEF effective_lines
<1>3. CASE ~permissive
  <2>1. {j \in DOMAIN lines : permissive => lines[j].tokens # <<>>} = 1 .. n
    BY <1>1, <1>3
  <2>2. effective_lines(lines, permissive) = n
    BY <1>3 DEF effective_lines
  <2> HIDE DEF n
  <2>3. 1 \in Int /\ n \in Int
    BY <1>1
  <2>4. Cardinality(1 .. n) = IF 1 > n THEN 0 ELSE n - 1 + 1
    BY <2>3, FS_Interval
  <2>5. Cardinality(1 .. n) = n
    BY <1>1, <2>4
  <2>6. QED
    BY <2>1, <2>2, <2>5
<1>4. QED
  BY <1>2, <1>3

(* Both passes together accept exactly the sections of the language.       *)
LEMMA SectionExact ==
  ASSUME NEW lines \in Seq(Line), NEW permissive \in BOOLEAN
  PROVE  LegalSection(lines, permissive) <=> ~Throws(lines, permissive)
<1> DEFINE every == {label_in(lines, x) : x \in Places(lines)}
           counted == {j \in DOMAIN lines : permissive => lines[j].tokens # <<>>}
           names == FirstPass(lines).labels
           ret == CodeLines(lines)
           NoLate == \A i \in DOMAIN lines : ~LateLabel(lines[i])
           Distinct == \A x, y \in Places(lines) : x # y => label_in(lines, x) # label_in(lines, y)
           Single == \A x, y \in Places(lines) : x # y => x[1] # y[1]
           Fits == Cardinality(counted) <= T21_size
           Written == \A j \in DOMAIN lines : ~lines[j].illegal /\ (~permissive => ~lines[j].long)
           Spelt == \A j \in OpLines(lines) : Words(lines[j]) \in Grammar(every, permissive)
           Read == \A j \in DOMAIN ret : IsInstr(Words(lines[ret[j]]), names, permissive)
<1>1. LegalSection(lines, permissive)
        <=> /\ "" \notin every /\ Distinct /\ (~permissive => Single)
            /\ \A x \in Places(lines) : \A j \in 1 .. x[2][1] - 1 : ~HasRest(lines[x[1]].tokens[j])
            /\ Fits /\ Written /\ Spelt
  <2>1. Spelt <=> \A j \in DOMAIN lines : HasOp(lines[j]) => Words(lines[j]) \in Grammar(every, permissive)
    BY DEF OpLines
  <2> HIDE DEF Spelt
  <2>2. QED
    BY <2>1 DEF LegalSection
<1>2. (\A x \in Places(lines) : \A j \in 1 .. x[2][1] - 1 : ~HasRest(lines[x[1]].tokens[j])) <=> NoLate
  <2>1. ASSUME NEW i \in DOMAIN lines
        PROVE  ~LateLabel(lines[i])
                 <=> \A at \in LabelsIn(lines[i], DOMAIN lines[i].tokens) :
                       \A j \in 1 .. at[1] - 1 : ~HasRest(lines[i].tokens[j])
    <3>1. lines[i] \in Line
      OBVIOUS
    <3>2. QED
      BY <3>1, LateExact
  <2>2. ASSUME NEW x \in Places(lines), NoLate
        PROVE  \A j \in 1 .. x[2][1] - 1 : ~HasRest(lines[x[1]].tokens[j])
    <3>1. PICK i \in DOMAIN lines : \E at \in LabelsIn(lines[i], DOMAIN lines[i].tokens) : x = <<i, at>>
      BY PlacesHas
    <3>2. PICK at \in LabelsIn(lines[i], DOMAIN lines[i].tokens) : x = <<i, at>>
      BY <3>1
    <3>3. x[1] = i /\ x[2] = at
      BY <3>2
    <3>4. QED
      BY <2>1, <2>2, <3>3
  <2>3. ASSUME NEW i \in DOMAIN lines, NEW at \in LabelsIn(lines[i], DOMAIN lines[i].tokens),
               \A x \in Places(lines) : \A j \in 1 .. x[2][1] - 1 : ~HasRest(lines[x[1]].tokens[j])
        PROVE  \A j \in 1 .. at[1] - 1 : ~HasRest(lines[i].tokens[j])
    <3>1. <<i, at>> \in Places(lines)
      BY PlacesHas
    <3>2. <<i, at>>[1] = i /\ <<i, at>>[2] = at
      OBVIOUS
    <3>3. QED
      BY <2>3, <3>1, <3>2
  <2>4. QED
    BY <2>1, <2>2, <2>3
<1>3. ~Throws(lines, permissive)
        <=> /\ \A j \in DOMAIN lines : ~BadLine(lines[j], permissive)
            /\ NoLate /\ ~FirstPass(lines).bad /\ Fits /\ Read
  <2>1. effective_lines(lines, permissive) = Cardinality(counted)
        /\ effective_lines(lines, permissive) \in Nat
    BY EffectiveExact, OpLinesFit
  <2>2. T21_size \in Nat
    BY AssemblerAssumption, WordAssumption
  <2> HIDE DEF counted, names, ret
  <2>3. effective_lines(lines, permissive) > T21_size <=> ~Fits
    BY <2>1, <2>2
  <2>4. QED
    BY <2>3 DEF Throws, names, ret
<1>4. ASSUME NoLate
      PROVE  /\ ~FirstPass(lines).bad <=> "" \notin every /\ Distinct
             /\ (\A j \in DOMAIN lines : ~BadLine(lines[j], permissive))
                  <=> Written /\ (~permissive => Single)
             /\ Read <=> Spelt
  <2>1. ~FirstPass(lines).bad <=> "" \notin every /\ Distinct
    <3>1. "" \notin every <=> \A x \in Places(lines) : label_in(lines, x) # ""
      OBVIOUS
    <3> HIDE DEF every
    <3>2. QED
      BY <1>4, <3>1, PassLegal
  <2>2. (\A j \in DOMAIN lines : ~BadLine(lines[j], permissive))
          <=> Written /\ (~permissive => Single)
    <3>1. (\E i \in DOMAIN lines :
             \E at, by \in LabelsIn(lines[i], Scanned(lines[i])) : at # by) <=> ~Single
      BY <1>4, OneALine
    <3> HIDE DEF Single
    <3>2. QED
      BY <3>1 DEF BadLine
  <2>3. \A name : name \in every <=> \E a \in names : a[1] = name
    <3> SUFFICES ASSUME NEW name PROVE name \in every <=> \E a \in names : a[1] = name
      OBVIOUS
    <3>1. name \in every <=> \E i \in DOMAIN lines : name \in LabelsOf(lines[i])
      <4>1. name \in every <=> \E x \in Places(lines) : name = label_in(lines, x)
        OBVIOUS
      <4> HIDE DEF every
      <4>2. QED
        BY <1>4, <4>1, EveryLabel
    <3>2. \A a : a \in names <=> \E i \in DOMAIN lines : \E x \in LabelsOf(lines[i]) :
                                   a = <<x, Count(lines, i - 1)>>
      <4>1. Len(lines) \in Nat /\ DOMAIN lines = 1 .. Len(lines)
        OBVIOUS
      <4>2. names = LabelsUpTo(lines, Len(lines))
        BY <4>1, FirstPassExact DEF Passed
      <4> HIDE DEF names
      <4>3. QED
        BY <4>1, <4>2, LabelsUpToHas
    <3> HIDE DEF names, every
    <3>3. ASSUME NEW a \in names, a[1] = name PROVE name \in every
      <4>1. PICK i \in DOMAIN lines : \E x \in LabelsOf(lines[i]) : a = <<x, Count(lines, i - 1)>>
        BY <3>2
      <4>2. PICK x \in LabelsOf(lines[i]) : a = <<x, Count(lines, i - 1)>>
        BY <4>1
      <4>3. a[1] = x
        BY <4>2
      <4>4. QED
        BY <3>1, <3>3, <4>3
    <3>4. ASSUME name \in every PROVE \E a \in names : a[1] = name
      <4>1. PICK i \in DOMAIN lines : name \in LabelsOf(lines[i])
        BY <3>1, <3>4
      <4>2. <<name, Count(lines, i - 1)>> \in names
        BY <3>2, <4>1
      <4>3. <<name, Count(lines, i - 1)>>[1] = name
        OBVIOUS
      <4>4. QED
        BY <4>2, <4>3
    <3>5. QED
      BY <3>3, <3>4
  <2>4. Read <=> Spelt
    <3>1. \A j \in DOMAIN ret : /\ ret[j] \in OpLines(lines)
                                /\ Words(lines[ret[j]]) \in Seq(STRING)
                                /\ Words(lines[ret[j]]) # <<>>
      BY OpLinesFacts
    <3> HIDE DEF names, every
    <3>2. ASSUME NEW j \in DOMAIN ret
          PROVE  IsInstr(Words(lines[ret[j]]), names, permissive)
                   <=> Words(lines[ret[j]]) \in Grammar(every, permissive)
      BY <2>3, <3>1, GrammarExact
    <3>3. \A c \in OpLines(lines) : \E j \in DOMAIN ret : ret[j] = c
      BY EveryLineRead
    <3> HIDE DEF ret
    <3>4. QED
      BY <3>1, <3>2, <3>3
  <2>5. QED
    BY <2>1, <2>2, <2>4
<1> HIDE DEF every, counted, names, ret, NoLate, Distinct, Single, Fits, Written, Spelt, Read
<1>5. QED
  BY <1>1, <1>2, <1>3, <1>4

(* The programmable nodes are numbered from 0 on, with no gap.             *)
LEMMA IndexExact ==
  ASSUME NEW i \in Int
  PROVE  node_by_index(i) # {} <=> i \in 0 .. Cardinality(Programmable) - 1
<1> DEFINE N == Len(nodes_type)
           P == Programmable
           Below(n) == {m \in P : m < n}
<1>1. N \in Nat /\ P \in SUBSET (1 .. N)
  <2>1. nodes_type \in Seq({"T21", "T30", "damaged"})
    BY AssemblerAssumption
  <2>2. N \in Nat /\ DOMAIN nodes_type = 1 .. N
    BY <2>1
  <2>3. QED
    BY <2>2 DEF Programmable
<1>2. node_by_index(i) = {n \in P : Cardinality(Below(n)) = i}
  BY DEF node_by_index
<1> HIDE DEF N, P
<1>3. Cardinality(P) \in Nat
  <2>1. 0 \in Int
    OBVIOUS
  <2>2. QED
    BY <1>1, <2>1, UpToFinite
<1>4. ASSUME NEW n \in P
      PROVE  /\ Cardinality(UpTo(P, n)) \in 1 .. Cardinality(P)
             /\ Cardinality(Below(n)) = Cardinality(UpTo(P, n)) - 1
  <2>1. n \in Int /\ \A m \in P : m \in Int
    BY <1>1
  <2>2. /\ IsFiniteSet(P) /\ Cardinality(UpTo(P, n)) \in 1 .. Cardinality(P)
    BY <1>1, <2>1, UpToFinite
  <2>3. UpTo(P, n) = Below(n) \cup {n} /\ n \notin Below(n)
    <3>1. ~ (n < n) /\ n <= n /\ \A m \in P : m <= n <=> m < n \/ m = n
      BY <2>1
    <3>2. QED
      BY <3>1 DEF UpTo
  <2>4. IsFiniteSet(Below(n))
    <3>1. Below(n) \in SUBSET P
      OBVIOUS
    <3> HIDE DEF Below
    <3>2. QED
      BY <2>2, <3>1, FS_Subset
  <2> HIDE DEF Below
  <2>5. Cardinality(Below(n)) \in Nat
    BY <2>4, FS_CardinalityType
  <2>6. Cardinality(Below(n) \cup {n}) = Cardinality(Below(n)) + 1
    BY <2>3, <2>4, FS_AddElement
  <2>7. QED
    BY <1>3, <2>2, <2>3, <2>5, <2>6
<1>5. \A h \in 1 .. Cardinality(P) : \E n \in P : Cardinality(UpTo(P, n)) = h
  BY <1>1, RanksExist
<1> HIDE DEF Below
<1>6. ASSUME NEW n \in P, Cardinality(Below(n)) = i PROVE i \in 0 .. Cardinality(P) - 1
  BY <1>3, <1>4, <1>6
<1>7. ASSUME i \in 0 .. Cardinality(P) - 1 PROVE \E n \in P : Cardinality(Below(n)) = i
  <2>1. i + 1 \in 1 .. Cardinality(P)
    BY <1>3, <1>7
  <2>2. PICK n \in P : Cardinality(UpTo(P, n)) = i + 1
    BY <1>5, <2>1
  <2>3. Cardinality(Below(n)) = i
    BY <1>4, <2>2
  <2>4. QED
    BY <2>3
<1>8. QED
  BY <1>2, <1>6, <1>7 DEF P

LEMMA LoadInvAcceptedIffLegal == LoadInv => AcceptedIffLegal
<1> SUFFICES ASSUME LoadInv PROVE AcceptedIffLegal
  OBVIOUS
<1> DEFINE n == Len(source.sections)
           Fine(j) == LinesOf(j) # <<>> =>
                        /\ Label(j) \in 0 .. Cardinality(Programmable) - 1
                        /\ LegalSection(LinesOf(j), source.permissive)
<1>1. /\ n \in Nat /\ source.permissive \in BOOLEAN /\ DOMAIN source.sections = 1 .. n
      /\ \A j \in 1 .. n : Label(j) \in Int /\ LinesOf(j) \in Seq(Line)
  BY SourceFacts DEF LoadInv
<1>2. Legal(source) <=> /\ \A i, j \in 1 .. n : i # j => Label(i) # Label(j)
                        /\ \A j \in 1 .. n : Fine(j)
  BY <1>1 DEF Legal, Label, LinesOf
<1>3. \A j \in 1 .. n : Fine(j) <=> Accepted(j)
  BY <1>1, SectionExact, IndexExact DEF Accepted
<1> HIDE DEF Fine, n
<1>4. ASSUME status = "loaded" PROVE Legal(source)
  <2>1. k = n
    BY <1>4 DEF LoadInv, n
  <2>2. QED
    BY <1>2, <1>3, <2>1 DEF LoadInv
<1>5. ASSUME status = "thrown" PROVE ~Legal(source)
  <2>1. k \in Nat /\ k < n /\ Refused
    BY <1>1, <1>5 DEF LoadInv, n
  <2>2. k + 1 \in 1 .. n /\ \A j \in 1 .. k : j \in 1 .. n /\ j # k + 1
    BY <1>1, <2>1
  <2>3. Section.label = Label(k + 1) /\ Body = LinesOf(k + 1)
    BY DEF Section, Body, Label, LinesOf
  <2>4. CASE Label(k + 1) \in nodes_seen
    <3>1. PICK j \in 1 .. k : Label(j) = Label(k + 1)
      BY <2>4 DEF LoadInv
    <3>2. QED
      BY <1>2, <2>2, <3>1
  <2>5. CASE ~Accepted(k + 1)
    BY <1>2, <1>3, <2>2, <2>5
  <2>6. QED
    BY <2>1, <2>3, <2>4, <2>5 DEF Refused, Accepted
<1>6. QED
  BY <1>4, <1>5 DEF AcceptedIffLegal

(* A save is accepted exactly when it is in the language, with or without  *)
(* the extensions of --permissive, and refused exactly when it is not      *)
(* (assemble, parse_port, parse_code).                                     *)
THEOREM AssemblerAcceptedIffLegal == Spec => []AcceptedIffLegal
<1>1. QED
  BY LoadInvAlways, LoadInvAcceptedIffLegal, PTL
=============================================================================
