------------------------------ MODULE Assembler -----------------------------
(***************************************************************************)
(* field::parse_code (field.cpp) splits a save into the sections of its    *)
(* nodes, and assemble (parser.cpp) turns a section into instructions.     *)
(*                                                                         *)
(* The text is taken apart already: a line is its tokens and what else the *)
(* assembler looks at; a token "A:B:MOV" is [labels |-> <<"A", "B">>,      *)
(* rest |-> "MOV"], an empty label or rest being "".                       *)
(***************************************************************************)
EXTENDS Ports, Ordered, SequencesExt

CONSTANTS
  Texts,        (* the saves considered                                    *)
  nodes_type,   (* the kinds of the regular nodes, in the field's order    *)
  T21_size,     (* the lines a node may have                               *)
  opcode_of,    (* from the mnemonics to the opcodes                       *)
  integer_of,   (* from the tokens that read as integers to their values   *)
  abbreviations (* from the ports to the tokens that are prefixes of their *)
                (* names, the names included                               *)

port_order ==
  <<"left", "right", "up", "down", "nil", "acc", "any", "last">>

port_name ==
  [left |-> "LEFT", right |-> "RIGHT", up |-> "UP", down |-> "DOWN",
   nil |-> "NIL", acc |-> "ACC", any |-> "ANY", last |-> "LAST"]

Token == [labels : Seq(STRING), rest : STRING]

(* long: over max_line_length; illegal: holds a character not allowed;     *)
(* text: something else than tokens and white space, such as a comment.    *)
Line == [tokens : Seq(Token), long : BOOLEAN, illegal : BOOLEAN, text : BOOLEAN]

Source == [sections : Seq([label : Int, lines : Seq(Line)]), permissive : BOOLEAN]

ASSUME AssemblerAssumption ==
  /\ Texts \subseteq Source
  /\ nodes_type \in Seq({"T21", "T30", "damaged"})
  /\ T21_size \in 0 .. word_max
  /\ \A m \in DOMAIN opcode_of : opcode_of[m] \in Op
  /\ \A i \in DOMAIN integer_of : integer_of[i] \in Int
  /\ DOMAIN abbreviations = ToSet(port_order)
  /\ \A p, q \in ToSet(port_order) : port_name[q] \in abbreviations[p] <=> p = q
  /\ \A p \in ToSet(port_order) : abbreviations[p] \cap DOMAIN integer_of = {}

VARIABLES
  source,      (* the save                                                 *)
  k,           (* how many of its sections have been read                  *)
  nodes_seen,
  code,        (* the programs of the nodes                                *)
  status       (* "parsing", "loaded", or "thrown"                         *)

vars == <<source, k, nodes_seen, code, status>>

-----------------------------------------------------------------------------
(* assemble, first pass: the labels                                        *)

HasRest(t) == t.rest # ""

(* Where the labels of a line are: a token, and a place in it.             *)
LabelsIn(line, toks) == UNION {{j} \X DOMAIN line.tokens[j].labels : j \in toks}

label_at(line, at) == line.tokens[at[1]].labels[at[2]]

(* The first pass ends a line at the first token that is more than labels. *)
Scanned(line) ==
  {j \in DOMAIN line.tokens : \A i \in 1 .. j - 1 : ~HasRest(line.tokens[i])}

LabelsOf(line) == {label_at(line, at) : at \in LabelsIn(line, Scanned(line))}

Repeats(line) ==
  \E at, by \in LabelsIn(line, Scanned(line)) :
    at # by /\ label_at(line, at) = label_at(line, by)

HasOp(line) == \E j \in DOMAIN line.tokens : HasRest(line.tokens[j])

Bug_LineNumber(p, line) == p.l + 1

(* Only a line with an instruction advances the count.                     *)
NextNumber(p, line) == IF HasOp(line) THEN p.l + 1 ELSE p.l

(* One line: its labels stand for the instruction after those counted.     *)
Labelled(p, line) ==
  [l |-> NextNumber(p, line),
   labels |-> p.labels \cup {<<a, p.l>> : a \in LabelsOf(line)},
   bad |-> \/ p.bad
           \/ "" \in LabelsOf(line)
           \/ Repeats(line)
           \/ \E a \in p.labels : a[1] \in LabelsOf(line)]

FirstPass(lines) ==
  LET after[j \in 0 .. Len(lines)] ==
        IF j = 0 THEN [l |-> 0, labels |-> {}, bad |-> FALSE]
        ELSE Labelled(after[j - 1], lines[j])
  IN after[Len(lines)]

(* What the first pass throws at in a line by itself.                      *)
BadLine(line, permissive) ==
  \/ line.illegal
  \/ ~permissive /\ line.long
  \/ ~permissive /\ \E at, by \in LabelsIn(line, Scanned(line)) : at # by

Bug_BlankCounted(lines, permissive) == Len(lines)

(* The lines that count towards the limit.                                 *)
effective_lines(lines, permissive) ==
  IF permissive THEN Cardinality({j \in DOMAIN lines : lines[j].tokens # <<>>})
  ELSE Len(lines)

-----------------------------------------------------------------------------
(* Second pass: the instructions                                           *)

(* Labels must be first on a line.                                         *)
LateLabel(line) ==
  \E i, j \in DOMAIN line.tokens :
    i < j /\ HasRest(line.tokens[i]) /\ line.tokens[j].labels # <<>>

Words(line) ==
  LET toks == InOrder({j \in DOMAIN line.tokens : HasRest(line.tokens[j])})
  IN [j \in DOMAIN toks |-> line.tokens[toks[j]].rest]

(* parse_port: the first port whose name begins with the token; only       *)
(* --permissive lets the token be shorter.                                 *)
Matches(tok) == {q \in DOMAIN port_order : tok \in abbreviations[port_order[q]]}

parse_port(tok) ==
  port_order[CHOOSE q \in Matches(tok) : \A r \in Matches(tok) : q <= r]

IsPort(tok, permissive) ==
  Matches(tok) # {} /\ (permissive \/ port_name[parse_port(tok)] = tok)

operands(op) ==
  CASE op = "mov" -> 2
    [] op \in (Readers \ {"mov"}) \cup Jumps -> 1
    [] OTHER -> 0

(* load_port_or_immediate accepts the token.                               *)
IsOperand(tok, permissive) ==
  IF tok \in DOMAIN integer_of THEN integer_of[tok] \in Word
  ELSE IsPort(tok, permissive)

(* The second pass accepts the words of a line.                            *)
IsInstr(w, labels, permissive) ==
  /\ w[1] \in DOMAIN opcode_of
  /\ LET op == opcode_of[w[1]] IN
     /\ Len(w) = operands(op) + 1
     /\ op \in Jumps => \E a \in labels : a[1] = w[2]
     /\ op \in Readers => IsOperand(w[2], permissive)
     /\ op = "mov" => IsPort(w[3], permissive)

InstrOf(w, labels) ==
  LET op == opcode_of[w[1]]
      imm == op \in Readers /\ w[2] \in DOMAIN integer_of
  IN [op  |-> op,
      src |-> IF op \in Readers /\ ~imm THEN parse_port(w[2]) ELSE "immediate",
      val |-> IF imm THEN integer_of[w[2]]
              ELSE IF op \in Jumps THEN (CHOOSE a \in labels : a[1] = w[2])[2]
              ELSE 0,
      dst |-> IF op = "mov" THEN parse_port(w[3]) ELSE "left"]

Bug_PastTheEnd(i, size) ==
  IF i.op \in Jumps /\ i.val > size THEN [i EXCEPT !.val = 0] ELSE i

(* Labels at the end of the code wrap to its beginning.                    *)
Normalized(i, size) ==
  IF i.op \in Jumps /\ i.val >= size THEN [i EXCEPT !.val = 0] ELSE i

CodeLines(lines) == InOrder({j \in DOMAIN lines : Words(lines[j]) # <<>>})

Throws(lines, permissive) ==
  \/ \E j \in DOMAIN lines : BadLine(lines[j], permissive) \/ LateLabel(lines[j])
  \/ FirstPass(lines).bad
  \/ effective_lines(lines, permissive) > T21_size
  \/ \E j \in DOMAIN CodeLines(lines) :
       ~IsInstr(Words(lines[CodeLines(lines)[j]]), FirstPass(lines).labels, permissive)

assemble(lines) ==
  LET labels == FirstPass(lines).labels
      ret    == CodeLines(lines)
  IN [j \in DOMAIN ret |-> Normalized(InstrOf(Words(lines[ret[j]]), labels), Len(ret))]

-----------------------------------------------------------------------------
(* parse_code                                                              *)

Blank(line) == line.tokens = <<>> /\ ~line.text /\ ~line.illegal

(* White space goes from both ends of a section.                           *)
Trimmed(lines) ==
  LET solid == {j \in DOMAIN lines : ~Blank(lines[j])} IN
  IF solid = {} THEN <<>> ELSE SubSeq(lines, Min(solid), Max(solid))

Programmable == {n \in DOMAIN nodes_type : nodes_type[n] = "T21"}

(* The i-th programmable node, if there is one.                            *)
node_by_index(i) ==
  {n \in Programmable : Cardinality({m \in Programmable : m < n}) = i}

Init ==
  /\ source \in Texts
  /\ k = 0 /\ nodes_seen = {} /\ status = "parsing"
  /\ code = [n \in DOMAIN nodes_type |-> <<>>]

Section == source.sections[k + 1]
Body    == Trimmed(Section.lines)

Reading == status = "parsing" /\ k < Len(source.sections)

Refused ==
  \/ Section.label \in nodes_seen
  \/ Body # <<>> /\ (node_by_index(Section.label) = {} \/ Throws(Body, source.permissive))

ThrowAt ==
  /\ Reading /\ Refused
  /\ status' = "thrown"
  /\ UNCHANGED <<source, k, nodes_seen, code>>

(* An empty section names a node, which need not exist.                    *)
SkipSection ==
  /\ Reading /\ ~Refused /\ Body = <<>>
  /\ k' = k + 1
  /\ nodes_seen' = nodes_seen \cup {Section.label}
  /\ UNCHANGED <<source, code, status>>

LoadSection ==
  /\ Reading /\ ~Refused /\ Body # <<>>
  /\ k' = k + 1
  /\ nodes_seen' = nodes_seen \cup {Section.label}
  /\ code' = [n \in DOMAIN code |->
                IF n \in node_by_index(Section.label) THEN assemble(Body) ELSE code[n]]
  /\ UNCHANGED <<source, status>>

Finalize ==
  /\ status = "parsing" /\ k = Len(source.sections)
  /\ status' = "loaded"
  /\ UNCHANGED <<source, k, nodes_seen, code>>

Next == ThrowAt \/ SkipSection \/ LoadSection \/ Finalize

Spec == Init /\ [][Next]_vars

-----------------------------------------------------------------------------
(* What the simulator runs is always a program Field may be given: jumps   *)
(* land inside it, immediates are words, and it fits into its node.        *)
TypeOK ==
  /\ source \in Texts
  /\ k \in 0 .. Len(source.sections)
  /\ nodes_seen \subseteq Int
  /\ status \in {"parsing", "loaded", "thrown"}
  /\ \A n \in DOMAIN nodes_type :
       /\ Assembled(code[n]) /\ Len(code[n]) <= T21_size
       /\ nodes_type[n] # "T21" => code[n] = <<>>

(* The lines of the node n in the save.                                    *)
OwnLines(n) ==
  LET own == {s \in ToSet(source.sections) : n \in node_by_index(s.label)}
  IN IF own = {} THEN <<>> ELSE Trimmed((CHOOSE s \in own : TRUE).lines)

OpLines(lines) == {j \in DOMAIN lines : HasOp(lines[j])}

(* Where the label a leads: the first instruction on its line or below, or *)
(* else the first of the program.                                          *)
Target(lines, a) ==
  LET at == CHOOSE j \in DOMAIN lines : a \in LabelsOf(lines[j])
      on == {j \in OpLines(lines) : j >= at}
  IN IF on = {} THEN 0 ELSE Cardinality({j \in OpLines(lines) : j < Min(on)})

(* The port a token stands for: '"L" is interpreted as "LEFT", not "LAST", *)
(* and "A" as "ACC", not "ANY"' (README).                                  *)
Means(tok, port) ==
  /\ tok \in abbreviations[port]
  /\ port = "last" => tok \notin abbreviations["left"]
  /\ port = "any" => tok \notin abbreviations["acc"]

(* Each programmable node runs the instructions of its own section, in     *)
(* order, with the operands written there, and every jump leads where its  *)
(* label stands, however labels, comments, blank lines and instructions    *)
(* share lines and whichever other nodes have sections (assemble's two     *)
(* passes, parse_port, node_by_index).                                     *)
CodeExact ==
  status = "loaded" =>
    \A n \in Programmable :
      LET lines == OwnLines(n)
          ops   == InOrder(OpLines(lines))
      IN /\ Len(code[n]) = Len(ops)
         /\ \A j \in DOMAIN ops :
              LET w == Words(lines[ops[j]]) IN
              /\ code[n][j].op = opcode_of[w[1]]
              /\ code[n][j].op \in Jumps => code[n][j].val = Target(lines, w[2])
              /\ code[n][j].op = "mov" => Means(w[3], code[n][j].dst)
              /\ code[n][j].op \in Readers =>
                   IF code[n][j].src = "immediate"
                   THEN code[n][j].val = integer_of[w[2]]
                   ELSE Means(w[2], code[n][j].src)

(* The language the README describes: the tokens that may name a port, ... *)
PortNames(permissive) ==
  IF permissive THEN UNION {abbreviations[p] : p \in ToSet(port_order)}
  ELSE {port_name[p] : p \in ToSet(port_order)}

Immediates == {i \in DOMAIN integer_of : integer_of[i] \in Word}

(* ... the instructions, given the labels of the section, ...              *)
Grammar(labels, permissive) ==
  LET mnemonics(S) == {m \in DOMAIN opcode_of : opcode_of[m] \in S}
      operand == PortNames(permissive) \cup Immediates
  IN {<<m>> : m \in mnemonics(Op \ (Readers \cup Jumps))}
       \cup mnemonics(Jumps) \X labels
       \cup mnemonics(Readers \ {"mov"}) \X operand
       \cup mnemonics({"mov"}) \X operand \X PortNames(permissive)

(* ... and the sections: a label stands in one place only, on a line of at *)
(* most one, and before the instruction if there is one.                   *)
Places(lines) ==
  UNION {{i} \X LabelsIn(lines[i], DOMAIN lines[i].tokens) : i \in DOMAIN lines}

label_in(lines, x) == label_at(lines[x[1]], x[2])

LegalSection(lines, permissive) ==
  LET every   == {label_in(lines, x) : x \in Places(lines)}
      counted == {j \in DOMAIN lines : permissive => lines[j].tokens # <<>>}
  IN /\ "" \notin every
     /\ \A x, y \in Places(lines) :
          x # y => /\ label_in(lines, x) # label_in(lines, y)
                   /\ ~permissive => x[1] # y[1]
     /\ \A x \in Places(lines) :
          \A j \in 1 .. x[2][1] - 1 : ~HasRest(lines[x[1]].tokens[j])
     /\ Cardinality(counted) <= T21_size
     /\ \A j \in DOMAIN lines :
          /\ ~lines[j].illegal /\ (~permissive => ~lines[j].long)
          /\ HasOp(lines[j]) => Words(lines[j]) \in Grammar(every, permissive)

Legal(s) ==
  /\ \A i, j \in DOMAIN s.sections :
       i # j => s.sections[i].label # s.sections[j].label
  /\ \A i \in DOMAIN s.sections :
       Trimmed(s.sections[i].lines) # <<>> =>
         /\ s.sections[i].label \in 0 .. Cardinality(Programmable) - 1
         /\ LegalSection(Trimmed(s.sections[i].lines), s.permissive)

(* A save is accepted exactly when it is in the language, with or without  *)
(* the extensions of --permissive: neither pass lets a mistake through or  *)
(* takes one for another (assemble, parse_port, parse_code).               *)
AcceptedIffLegal ==
  /\ status = "loaded" => Legal(source)
  /\ status = "thrown" => ~Legal(source)
=============================================================================
