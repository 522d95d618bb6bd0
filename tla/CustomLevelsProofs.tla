------------------------- MODULE CustomLevelsProofs -------------------------
(***************************************************************************)
(* Theorems about CustomLevels, for every script, every layout and every   *)
(* size of words and canvases.                                             *)
(***************************************************************************)
EXTENDS CustomLevels, SharedLemmas, SequenceTheorems

-----------------------------------------------------------------------------
(* Erasing the columns without a node                                      *)

LEMMA RemovedAt ==
  ASSUME NEW V, NEW s \in Seq(V), NEW i \in 1 .. Len(s)
  PROVE  /\ RemoveAt(s, i) \in Seq(V)
         /\ Len(RemoveAt(s, i)) = Len(s) - 1
         /\ \A j \in 1 .. i - 1 : RemoveAt(s, i)[j] = s[j]
         /\ \A j \in i .. Len(s) - 1 : RemoveAt(s, i)[j] = s[j + 1]
<1> DEFINE a == SubSeq(s, 1, i - 1)
           b == SubSeq(s, i + 1, Len(s))
<1>1. /\ a \in Seq(V) /\ Len(a) = i - 1
      /\ \A j \in 1 .. i - 1 : a[j] = s[j]
  OBVIOUS
<1>2. /\ b \in Seq(V) /\ Len(b) = Len(s) - i
      /\ \A j \in 1 .. Len(s) - i : b[j] = s[i + j]
  OBVIOUS
<1>3. RemoveAt(s, i) = a \o b
  BY DEF RemoveAt
<1> HIDE DEF a, b
<1>4. /\ a \o b \in Seq(V) /\ Len(a \o b) = Len(s) - 1
  <2>1. a \o b \in Seq(V) /\ Len(a \o b) = Len(a) + Len(b)
    BY <1>1, <1>2, ConcatProperties
  <2>2. QED
    BY <1>1, <1>2, <2>1
<1>5. ASSUME NEW j \in 1 .. i - 1 PROVE (a \o b)[j] = s[j]
  BY <1>1, <1>2
<1>6. ASSUME NEW j \in i .. Len(s) - 1 PROVE (a \o b)[j] = s[j + 1]
  <2>1. /\ j \in 1 .. Len(a) + Len(b) /\ ~ (j <= Len(a))
        /\ j - Len(a) \in 1 .. Len(s) - i /\ i + (j - Len(a)) = j + 1
    BY <1>1, <1>2
  <2>2. (a \o b)[j] = b[j - Len(a)]
    BY <1>1, <1>2, <2>1
  <2>3. QED
    BY <1>2, <2>1, <2>2
<1>7. QED
  BY <1>3, <1>4, <1>5, <1>6

(* The columns from c on that have such a node.                            *)
Remaining(types, type, c, n) == {d \in c .. n : types[d] = type}

(* What is left of vec once the columns from c on have been looked at.     *)
ErasedFrom(vec, types, type, c, s, V) ==
  LET own == Remaining(types, type, c, Len(vec)) IN
  /\ s \in Seq(V)
  /\ Len(s) = c - 1 + Cardinality(own)
  /\ \A j \in 1 .. c - 1 : s[j] = vec[j]
  /\ \A d \in own : s[c - 1 + Cardinality(UpTo(own, d))] = vec[d]

LEMMA ErasingOne ==
  ASSUME NEW V, NEW vec \in Seq(V), NEW types, NEW type, NEW c \in 1 .. Len(vec),
         NEW s, ErasedFrom(vec, types, type, c + 1, s, V)
  PROVE  /\ c \in 1 .. Len(s)
         /\ ErasedFrom(vec, types, type, c,
                       IF types[c] # type THEN RemoveAt(s, c) ELSE s, V)
<1> DEFINE n     == Len(vec)
           later == Remaining(types, type, c + 1, n)
           own   == Remaining(types, type, c, n)
<1>1. n \in Nat /\ c \in 1 .. n /\ c \in Nat
  OBVIOUS
<1>2. /\ s \in Seq(V)
      /\ Len(s) = c + Cardinality(later)
      /\ \A j \in 1 .. c : s[j] = vec[j]
      /\ \A d \in later : s[c + Cardinality(UpTo(later, d))] = vec[d]
  BY <1>1 DEF ErasedFrom
<1>3. later \in SUBSET (1 .. n) /\ own \in SUBSET (1 .. n) /\ c \notin later
  BY <1>1 DEF Remaining
<1>4. /\ IsFiniteSet(later) /\ Cardinality(later) \in Nat
      /\ \A d \in later : /\ IsFiniteSet(UpTo(later, d))
                          /\ Cardinality(UpTo(later, d)) \in 1 .. Cardinality(later)
  <2>1. 0 \in Int /\ \A d \in later : d \in Int
    BY <1>3
  <2>2. QED
    BY <1>1, <1>3, <2>1, UpToFinite
<1>5. c \in 1 .. Len(s)
  BY <1>1, <1>2, <1>4
<1>6. CASE types[c] # type
  <2> DEFINE r == RemoveAt(s, c)
  <2>1. own = later
    BY <1>1, <1>6 DEF Remaining
  <2>2. /\ r \in Seq(V) /\ Len(r) = Len(s) - 1
        /\ \A j \in 1 .. c - 1 : r[j] = s[j]
        /\ \A j \in c .. Len(s) - 1 : r[j] = s[j + 1]
    BY <1>2, <1>5, RemovedAt
  <2> HIDE DEF r, own, later
  <2>3. Len(r) = c - 1 + Cardinality(own)
    BY <1>1, <1>2, <1>4, <2>1, <2>2
  <2>4. \A j \in 1 .. c - 1 : r[j] = vec[j]
    BY <1>1, <1>2, <2>2
  <2>5. ASSUME NEW d \in own PROVE r[c - 1 + Cardinality(UpTo(own, d))] = vec[d]
    <3> DEFINE k == Cardinality(UpTo(later, d))
    <3>1. k \in 1 .. Cardinality(later) /\ s[c + k] = vec[d]
      BY <1>2, <1>4, <2>1
    <3> HIDE DEF k
    <3>2. c - 1 + k \in c .. Len(s) - 1 /\ (c - 1 + k) + 1 = c + k
      BY <1>1, <1>2, <1>4, <3>1
    <3>3. r[c - 1 + k] = vec[d]
      BY <2>2, <3>1, <3>2
    <3>4. QED
      BY <2>1, <3>3 DEF k
  <2>6. QED
    BY <1>5, <1>6, <2>2, <2>3, <2>4, <2>5 DEF ErasedFrom, r, own
<1>7. CASE types[c] = type
  <2>1. own = later \cup {c}
    BY <1>1, <1>7 DEF Remaining
  <2>2. Cardinality(own) = Cardinality(later) + 1
    BY <1>3, <1>4, <2>1, FS_AddElement
  <2>3. UpTo(own, c) = {c}
    BY <1>1, <2>1 DEF UpTo, Remaining
  <2>4. Cardinality(UpTo(own, c)) = 1
    BY <2>3, FS_Singleton
  <2>5. ASSUME NEW d \in later
        PROVE  Cardinality(UpTo(own, d)) = Cardinality(UpTo(later, d)) + 1
    <3>1. d > c /\ d \in Nat
      BY <1>1 DEF Remaining
    <3>2. UpTo(own, d) = UpTo(later, d) \cup {c} /\ c \notin UpTo(later, d)
      BY <1>1, <1>3, <2>1, <3>1 DEF UpTo
    <3>3. QED
      BY <1>4, <3>2, FS_AddElement
  <2> HIDE DEF own, later
  <2>6. Len(s) = c - 1 + Cardinality(own)
    BY <1>1, <1>2, <1>4, <2>2
  <2>7. \A j \in 1 .. c - 1 : s[j] = vec[j]
    BY <1>1, <1>2
  <2>8. ASSUME NEW d \in own PROVE s[c - 1 + Cardinality(UpTo(own, d))] = vec[d]
    <3>1. CASE d = c
      BY <1>1, <1>2, <2>4, <3>1
    <3>2. CASE d \in later
      <4>1. c - 1 + Cardinality(UpTo(own, d)) = c + Cardinality(UpTo(later, d))
        BY <1>1, <1>4, <2>5, <3>2
      <4>2. QED
        BY <1>2, <3>2, <4>1
    <3>3. QED
      BY <2>1, <3>1, <3>2
  <2>9. QED
    BY <1>2, <1>5, <1>7, <2>6, <2>7, <2>8 DEF ErasedFrom, own
<1>8. QED
  BY <1>6, <1>7

(* The loop from the last column to the first keeps exactly the columns    *)
(* with such a node, in order.                                             *)
LEMMA ErasedExact ==
  ASSUME NEW V, NEW vec \in Seq(V), NEW types, DOMAIN types = 1 .. Len(vec), NEW type
  PROVE  LET own == NodesOf(types, type)
             e   == Erased(vec, types, type)
         IN /\ e \in Seq(V) /\ own \in Seq(1 .. Len(vec)) /\ Len(e) = Len(own)
            /\ \A k \in DOMAIN own : e[k] = vec[own[k]] /\ types[own[k]] = type
<1> DEFINE n    == Len(vec)
           own  == Remaining(types, type, 1, n)
           cut(c, s) == IF types[c] # type THEN RemoveAt(s, c) ELSE s
           safe == [cs \in (1 .. n) \X Seq(V) |->
                      IF cs[1] \in 1 .. Len(cs[2]) THEN cut(cs[1], cs[2]) ELSE vec]
<1>1. n \in Nat /\ vec \in Seq(V)
  OBVIOUS
<1>2. safe \in [(1 .. n) \X Seq(V) -> Seq(V)]
  <2>1. ASSUME NEW c \in 1 .. n, NEW s \in Seq(V)
        PROVE  (IF c \in 1 .. Len(s) THEN cut(c, s) ELSE vec) \in Seq(V)
    <3>1. c \in 1 .. Len(s) => RemoveAt(s, c) \in Seq(V)
      BY RemovedAt
    <3>2. QED
      BY <3>1
  <2> HIDE DEF cut
  <2>2. QED
    BY <2>1
<1>3. \A c \in 1 .. n : \A s \in Seq(V) : c \in 1 .. Len(s) => safe[<<c, s>>] = cut(c, s)
  OBVIOUS
<1> HIDE DEF safe, cut, n
<1>4. PICK f \in [1 .. n + 1 -> Seq(V)] : IsDown(f, n, vec, safe)
  BY <1>1, <1>2, DownwardRecursionExists
<1>5. f[n + 1] = vec /\ \A c \in 1 .. n : f[c] = safe[<<c, f[c + 1]>>]
  BY <1>4 DEF IsDown
<1> DEFINE T == {m \in Nat : m <= n => ErasedFrom(vec, types, type, n + 1 - m, f[n + 1 - m], V)}
<1>6. 0 \in T
  <2>1. Remaining(types, type, n + 1, n) = {}
    BY <1>1 DEF Remaining
  <2>2. n + 1 - 0 = n + 1 /\ n = (n + 1) - 1 + 0
    BY <1>1
  <2>3. ErasedFrom(vec, types, type, n + 1, vec, V)
    <3>1. Len(vec) = (n + 1) - 1 + Cardinality(Remaining(types, type, n + 1, n))
      BY <2>1, <2>2, FS_EmptySet DEF n
    <3>2. QED
      BY <1>1, <2>1, <3>1 DEF ErasedFrom, n
  <2>4. QED
    BY <1>5, <2>2, <2>3
<1>7. ASSUME NEW m \in Nat, m \in T PROVE m + 1 \in T
  <2> SUFFICES ASSUME m + 1 <= n
               PROVE  ErasedFrom(vec, types, type, n + 1 - (m + 1), f[n + 1 - (m + 1)], V)
    OBVIOUS
  <2> DEFINE c == n + 1 - (m + 1)
  <2>1. c \in 1 .. n /\ c + 1 = n + 1 - m /\ c + 1 \in 1 .. n + 1 /\ m <= n
    BY <1>1
  <2> HIDE DEF c
  <2>2. ErasedFrom(vec, types, type, c + 1, f[c + 1], V)
    BY <1>7, <2>1
  <2>3. /\ c \in 1 .. Len(f[c + 1])
        /\ ErasedFrom(vec, types, type, c, cut(c, f[c + 1]), V)
    BY <1>1, <2>1, <2>2, ErasingOne DEF n, cut
  <2>4. f[c] = cut(c, f[c + 1])
    BY <1>3, <1>4, <1>5, <2>1, <2>3
  <2>5. QED
    BY <2>3, <2>4 DEF c
<1> HIDE DEF T
<1>8. \A m \in Nat : m <= n => ErasedFrom(vec, types, type, n + 1 - m, f[n + 1 - m], V)
  <2>1. \A m \in Nat : m \in T
    BY <1>6, <1>7, NatSetInduction
  <2>2. QED
    BY <2>1 DEF T
<1>9. \A c \in 1 .. n + 1 : ErasedFrom(vec, types, type, c, f[c], V)
  <2> SUFFICES ASSUME NEW c \in 1 .. n + 1
               PROVE  ErasedFrom(vec, types, type, c, f[c], V)
    OBVIOUS
  <2>1. n + 1 - c \in Nat /\ n + 1 - c <= n /\ n + 1 - (n + 1 - c) = c
    BY <1>1
  <2>2. QED
    BY <1>8, <2>1
<1> DEFINE Solves(g) == g = [c \in 1 .. n + 1 |-> IF c = n + 1 THEN vec ELSE cut(c, g[c + 1])]
<1>10. Solves(f)
  <2>1. \A c \in 1 .. n : f[c] = cut(c, f[c + 1])
    <3> SUFFICES ASSUME NEW c \in 1 .. n PROVE f[c] = cut(c, f[c + 1])
      OBVIOUS
    <3>1. c + 1 \in 1 .. n + 1
      BY <1>1
    <3>2. c \in 1 .. Len(f[c + 1])
      BY <1>1, <1>9, <3>1, ErasingOne DEF n
    <3>3. QED
      BY <1>3, <1>4, <1>5, <3>1, <3>2
  <2>2. \A c \in 1 .. n + 1 : f[c] = IF c = n + 1 THEN vec ELSE cut(c, f[c + 1])
    BY <1>1, <1>5, <2>1
  <2>3. f = [c \in 1 .. n + 1 |-> f[c]]
    BY <1>4
  <2>4. QED
    BY <2>2, <2>3
<1>11. Erased(vec, types, type) = (CHOOSE g : Solves(g))[1]
  BY DEF Erased, n, cut
<1>12. Erased(vec, types, type) \in Seq(V)
       /\ ErasedFrom(vec, types, type, 1, Erased(vec, types, type), V)
  <2> DEFINE g == CHOOSE h : Solves(h)
  <2>1. Solves(g)
    BY <1>10
  <2> HIDE DEF g
  <2>2. \A m \in Nat : m <= n => g[n + 1 - m] = f[n + 1 - m]
    <3> DEFINE U == {m \in Nat : m <= n => g[n + 1 - m] = f[n + 1 - m]}
    <3>1. 0 \in U
      BY <1>1, <1>5, <2>1
    <3>2. ASSUME NEW m \in Nat, m \in U PROVE m + 1 \in U
      <4> SUFFICES ASSUME m + 1 <= n
                   PROVE  g[n + 1 - (m + 1)] = f[n + 1 - (m + 1)]
        OBVIOUS
      <4> DEFINE c == n + 1 - (m + 1)
      <4>1. /\ c \in 1 .. n + 1 /\ c # n + 1 /\ c + 1 = n + 1 - m /\ m <= n
        BY <1>1
      <4> HIDE DEF c
      <4>2. g[c + 1] = f[c + 1]
        BY <3>2, <4>1
      <4>3. g[c] = cut(c, g[c + 1]) /\ f[c] = cut(c, f[c + 1])
        BY <1>10, <2>1, <4>1
      <4>4. QED
        BY <4>2, <4>3 DEF c
    <3> HIDE DEF U
    <3>3. \A m \in Nat : m \in U
      BY <3>1, <3>2, NatSetInduction
    <3>4. QED
      BY <3>3 DEF U
  <2>3. n \in Nat /\ n <= n /\ n + 1 - n = 1 /\ 1 \in 1 .. n + 1
    BY <1>1
  <2>4. Erased(vec, types, type) = f[1]
    BY <1>11, <2>2, <2>3 DEF g
  <2>5. QED
    BY <1>4, <1>9, <2>3, <2>4
<1>13. /\ own \in SUBSET (1 .. n)
       /\ NodesOf(types, type) = InOrder(own)
  BY <1>1 DEF NodesOf, Remaining, n
<1>15. \A d \in own : types[d] = type
  BY DEF Remaining
<1> HIDE DEF own
<1>14. /\ InOrder(own) \in [1 .. Cardinality(own) -> own]
       /\ \A k \in 1 .. Cardinality(own) : Cardinality(UpTo(own, InOrder(own)[k])) = k
       /\ Cardinality(own) \in Nat
  <2>1. 0 \in Int
    OBVIOUS
  <2>2. QED
    BY <1>1, <1>13, <2>1, InOrderLists, UpToFinite
<1>16. /\ NodesOf(types, type) \in Seq(1 .. n)
       /\ Len(NodesOf(types, type)) = Cardinality(own)
  <2>1. InOrder(own) \in [1 .. Cardinality(own) -> 1 .. n]
    BY <1>13, <1>14
  <2>2. InOrder(own) \in Seq(1 .. n) /\ Len(InOrder(own)) = Cardinality(own)
    BY <1>14, <2>1, FunctionIsSeq
  <2>3. QED
    BY <1>13, <2>2
<1>17. /\ Len(Erased(vec, types, type)) = Cardinality(own)
       /\ \A d \in own : Erased(vec, types, type)[Cardinality(UpTo(own, d))] = vec[d]
  <2>1. \A x \in Nat : 1 - 1 + x = x
    OBVIOUS
  <2>2. \A d \in own : Cardinality(UpTo(own, d)) \in Nat
    <3> SUFFICES ASSUME NEW d \in own PROVE Cardinality(UpTo(own, d)) \in Nat
      OBVIOUS
    <3>1. d \in Int
      BY <1>1, <1>13
    <3>2. QED
      BY <1>1, <1>13, <3>1, UpToFinite
  <2> DEFINE e == Erased(vec, types, type)
  <2>3. /\ Len(e) = 1 - 1 + Cardinality(own)
        /\ \A d \in own : e[1 - 1 + Cardinality(UpTo(own, d))] = vec[d]
    BY <1>12 DEF ErasedFrom, own, n
  <2> HIDE DEF e
  <2>4. /\ Len(e) = Cardinality(own)
        /\ \A d \in own : e[Cardinality(UpTo(own, d))] = vec[d]
    BY <1>14, <2>1, <2>2, <2>3
  <2>5. QED
    BY <2>4 DEF e
<1>18. ASSUME NEW k \in DOMAIN NodesOf(types, type)
       PROVE  /\ Erased(vec, types, type)[k] = vec[NodesOf(types, type)[k]]
              /\ types[NodesOf(types, type)[k]] = type
  <2>1. k \in 1 .. Cardinality(own)
    BY <1>16
  <2>2. InOrder(own)[k] \in own /\ Cardinality(UpTo(own, InOrder(own)[k])) = k
    BY <1>14, <2>1
  <2>3. QED
    BY <1>13, <1>15, <1>17, <2>2
<1>19. QED
  BY <1>12, <1>16, <1>17, <1>18 DEF n

-----------------------------------------------------------------------------
(* The layout                                                              *)

Listed == script.streams[call]
Laid   == script.streams["layout"]

(* What spec can hold for a column.                                        *)
Port == {"null"} \cup IoTypes \cup Tiles

(* How many of the streams asked for last have been looked at.             *)
Seen == Len(Listed) - Len(left)

LeftOver ==
  /\ Len(left) <= Len(Listed)
  /\ \A k \in 1 .. Len(left) : left[k] = Listed[Seen + k]

(* The k-th stream of the layout decides on the output of column c.        *)
Decides(k, c) == Laid[k].type # "in" /\ Laid[k].id + 1 = c

(* The output of column c once d streams have been placed.                 *)
PlacedOutput(c, d) ==
  \/ spec.outputs[c] = "null" /\ \A k \in 1 .. d : ~Decides(k, c)
  \/ \E k \in 1 .. d : /\ Decides(k, c) /\ spec.outputs[c] = Laid[k].type
                       /\ \A j \in k + 1 .. d : ~Decides(j, c)

Placed(d) ==
  /\ \A k \in 1 .. d : Laid[k].id < width
  /\ \A c \in 1 .. width : PlacedOutput(c, d)

Shape ==
  /\ spec.nodes = Rows /\ ~LayoutRefused
  /\ width \in Nat
  /\ spec.inputs \in [1 .. width -> {"null", "in"}]
  /\ spec.outputs \in [1 .. width -> Port]

LEMMA RowBounds ==
  ASSUME NEW w \in Nat \ {0}, NEW h \in Nat, NEW y \in 1 .. h
  PROVE  (y - 1) * w \in Nat /\ y * w = (y - 1) * w + w /\ y * w <= w * h
<1>1. (y - 1) * w \in Nat
  OBVIOUS
<1>2. y * w = (y - 1) * w + w
  OBVIOUS
<1>3. \E z \in Nat : h = y + z
  <2>1. h - y \in Nat /\ h = y + (h - y)
    OBVIOUS
  <2>2. QED
    BY <2>1
<1>4. PICK z \in Nat : h = y + z
  BY <1>3
<1>5. w * h = y * w + w * z /\ w * z \in Nat /\ y * w \in Nat
  BY <1>4
<1>6. QED
  BY <1>1, <1>2, <1>5

(* Every position of the list of tiles lies in a row.                      *)
LEMMA RowExists ==
  ASSUME NEW w \in Nat \ {0}, NEW h \in Nat, NEW i \in 1 .. w * h
  PROVE  \E y \in 1 .. h : \E x \in 1 .. w : i = (y - 1) * w + x
<1> DEFINE T == {n \in Nat : \E q \in Nat : \E r \in 0 .. w - 1 : n = q * w + r}
<1>1. 0 \in T
  <2>1. 0 \in Nat /\ 0 \in 0 .. w - 1 /\ 0 = 0 * w + 0
    OBVIOUS
  <2>2. QED
    BY <2>1
<1>2. ASSUME NEW n \in Nat, n \in T PROVE n + 1 \in T
  <2>1. PICK q \in Nat, r \in 0 .. w - 1 : n = q * w + r
    BY <1>2
  <2>2. CASE r = w - 1
    <3>1. (q + 1) * w = q * w + w /\ q * w \in Nat
      OBVIOUS
    <3>2. n + 1 = (q + 1) * w + 0
      BY <2>1, <2>2, <3>1
    <3>3. PICK p \in Nat : p = q + 1
      OBVIOUS
    <3>4. n + 1 = p * w + 0 /\ 0 \in 0 .. w - 1 /\ n + 1 \in Nat
      BY <3>2, <3>3
    <3>5. QED
      BY <3>4
  <2>3. CASE r # w - 1
    <3>1. n + 1 = q * w + (r + 1) /\ r + 1 \in 0 .. w - 1
      BY <2>1, <2>3
    <3>2. QED
      BY <3>1
  <2>4. QED
    BY <2>2, <2>3
<1> HIDE DEF T
<1>3. w * h \in Nat
  OBVIOUS
<1>4. i - 1 \in Nat /\ i <= w * h
  BY <1>3
<1>5. i - 1 \in T
  BY <1>1, <1>2, <1>4, NatSetInduction
<1>6. PICK q \in Nat, r \in 0 .. w - 1 : i - 1 = q * w + r
  BY <1>5 DEF T
<1>7. q < h
  <2> SUFFICES ASSUME ~ (q < h) PROVE FALSE
    OBVIOUS
  <2>1. q - h \in Nat /\ q = h + (q - h)
    OBVIOUS
  <2>2. q * w = w * h + (q - h) * w /\ (q - h) * w \in Nat
    BY <2>1
  <2>3. QED
    BY <1>3, <1>4, <1>6, <2>2
<1>8. q + 1 \in 1 .. h /\ r + 1 \in 1 .. w /\ (q + 1) - 1 = q
  BY <1>7
<1>9. i = ((q + 1) - 1) * w + (r + 1)
  <2>1. q * w \in Nat
    OBVIOUS
  <2>2. QED
    BY <1>6, <1>8, <2>1
<1>10. QED
  BY <1>8, <1>9

(* What WellFormed asks of the tiles alone.                                *)
Tiled ==
  IF script.extended
  THEN /\ script.layout # <<>>
       /\ Len(script.layout[1]) > 0
       /\ \A y \in DOMAIN script.layout : /\ Len(script.layout[y]) = Len(script.layout[1])
                                          /\ script.layout[y] \in Seq(Tiles)
  ELSE script.layout \in [1 .. field_width * field_height -> Tiles]

LEMMA ScriptFacts ==
  ASSUME script \in Scripts
  PROVE  /\ script.extended \in BOOLEAN
         /\ script.layout \in IF script.extended THEN Seq(Seq(STRING)) ELSE Seq(STRING)
         /\ "layout" \in DOMAIN script.streams
         /\ \A c \in DOMAIN script.streams : script.streams[c] \in Seq(Stream)
         /\ field_width \in Nat \ {0} /\ field_height \in Nat \ {0}
         /\ uint8_max \in Nat /\ uint8_max >= C_red
BY CustomAssumption DEF IsStreams

LEMMA RowsShape ==
  ASSUME script \in Scripts, ~LayoutRefused
  PROVE  /\ Rows \in Seq(Seq(STRING))
         /\ 1 \in DOMAIN Rows
         /\ Len(Rows[1]) = IF script.extended THEN Len(script.layout[1]) ELSE field_width
         /\ Len(Rows[1]) \in Nat \ {0}
         /\ (\A y \in DOMAIN Rows : ToSet(Rows[y]) \subseteq Tiles) <=> Tiled
<1>1. CASE script.extended
  <2>1. Rows = script.layout /\ script.layout \in Seq(Seq(STRING))
    BY <1>1, ScriptFacts DEF Rows
  <2>2. /\ script.layout # <<>> /\ script.layout[1] # <<>>
        /\ \A y \in DOMAIN script.layout : Len(script.layout[y]) = Len(script.layout[1])
    BY <1>1 DEF LayoutRefused
  <2>3. 1 \in DOMAIN script.layout
    BY <2>1, <2>2
  <2>4. \A y \in DOMAIN script.layout : script.layout[y] \in Seq(STRING)
    BY <2>1
  <2>5. Len(script.layout[1]) \in Nat \ {0}
    BY <2>2, <2>3, <2>4
  <2>6. ASSUME NEW r \in Seq(STRING) PROVE ToSet(r) \subseteq Tiles <=> r \in Seq(Tiles)
    BY DEF ToSet
  <2>7. QED
    BY <1>1, <2>1, <2>2, <2>3, <2>4, <2>5, <2>6 DEF Tiled
<1>2. CASE ~script.extended
  <2> DEFINE w == field_width
             h == field_height
             l == script.layout
             row(y) == SubSeq(l, (y - 1) * w + 1, y * w)
  <2>1. /\ w \in Nat \ {0} /\ h \in Nat \ {0} /\ l \in Seq(STRING)
    BY <1>2, ScriptFacts
  <2>2. Len(l) = w * h
    BY <1>2 DEF LayoutRefused
  <2>3. Rows = [y \in 1 .. h |-> row(y)]
    BY <1>2 DEF Rows
  <2> HIDE DEF w, h, l
  <2>4. ASSUME NEW y \in 1 .. h
        PROVE  /\ row(y) \in Seq(STRING) /\ Len(row(y)) = w
               /\ \A x \in 1 .. w : /\ row(y)[x] = l[(y - 1) * w + x]
                                    /\ (y - 1) * w + x \in 1 .. w * h
    <3> DEFINE a == (y - 1) * w
               b == y * w
    <3>1. a \in Nat /\ b = a + w /\ b <= w * h /\ h \in Nat
      BY <2>1, RowBounds
    <3>2. w * h \in Nat
      BY <2>1
    <3> DEFINE N == w * h
    <3> HIDE DEF a, b, N
    <3>3. N \in Nat /\ Len(l) = N /\ b <= N
      BY <2>2, <3>1, <3>2 DEF N
    <3>4. SubSeq(l, a + 1, b) \in Seq(STRING) /\ Len(SubSeq(l, a + 1, b)) = w
      BY <2>1, <3>1, <3>3
    <3>5. \A x \in 1 .. w : SubSeq(l, a + 1, b)[x] = l[a + x] /\ a + x \in 1 .. N
      BY <2>1, <3>1, <3>3
    <3>6. QED
      BY <3>4, <3>5 DEF a, b, N, row
  <2> HIDE DEF row
  <2>5. Rows \in [1 .. h -> Seq(STRING)]
    BY <2>3, <2>4
  <2>6. Rows \in Seq(Seq(STRING)) /\ DOMAIN Rows = 1 .. h /\ 1 \in 1 .. h
    BY <2>1, <2>5, FunctionIsSeq
  <2>7. Len(Rows[1]) = w
    BY <2>3, <2>4, <2>6
  <2>8. Tiled <=> \A i \in 1 .. w * h : l[i] \in Tiles
    <3>1. Tiled <=> l \in [1 .. w * h -> Tiles]
      BY <1>2 DEF Tiled, w, h, l
    <3>2. w * h \in Nat
      BY <2>1
    <3> DEFINE N == w * h
    <3> HIDE DEF N
    <3>3. l \in [1 .. N -> STRING]
      BY <2>1, <2>2, <3>2 DEF N
    <3>4. l \in [1 .. N -> Tiles] <=> \A i \in 1 .. N : l[i] \in Tiles
      BY <3>3
    <3>5. QED
      BY <3>1, <3>4 DEF N
  <2>9. ASSUME NEW y \in 1 .. h
        PROVE  ToSet(Rows[y]) \subseteq Tiles <=> \A x \in 1 .. w : l[(y - 1) * w + x] \in Tiles
    <3>1. Rows[y] = row(y)
      BY <2>3
    <3>2. DOMAIN row(y) = 1 .. w
      BY <2>4
    <3>3. ToSet(row(y)) = {row(y)[x] : x \in 1 .. w}
      BY <3>2 DEF ToSet
    <3> DEFINE pos(x) == (y - 1) * w + x
    <3>4. \A x \in 1 .. w : row(y)[x] = l[pos(x)]
      BY <2>4
    <3> HIDE DEF pos
    <3>5. ToSet(Rows[y]) = {l[pos(x)] : x \in 1 .. w}
      BY <3>1, <3>3, <3>4
    <3>6. ToSet(Rows[y]) \subseteq Tiles <=> \A x \in 1 .. w : l[pos(x)] \in Tiles
      BY <3>5
    <3>7. QED
      BY <3>6 DEF pos
  <2>10. (\A y \in 1 .. h : ToSet(Rows[y]) \subseteq Tiles)
           <=> \A i \in 1 .. w * h : l[i] \in Tiles
    <3>1. ASSUME \A y \in 1 .. h : ToSet(Rows[y]) \subseteq Tiles, NEW i \in 1 .. w * h
          PROVE  l[i] \in Tiles
      <4>1. PICK y \in 1 .. h, x \in 1 .. w : i = (y - 1) * w + x
        BY <2>1, RowExists
      <4>2. QED
        BY <2>9, <3>1, <4>1
    <3>2. ASSUME \A i \in 1 .. w * h : l[i] \in Tiles, NEW y \in 1 .. h
          PROVE  ToSet(Rows[y]) \subseteq Tiles
      BY <2>4, <2>9, <3>2
    <3>3. QED
      BY <3>1, <3>2
  <2>11. QED
    BY <1>2, <2>1, <2>6, <2>7, <2>8, <2>10 DEF w
<1>3. QED
  BY <1>1, <1>2, ScriptFacts

LEMMA RefusedIsNotTiled ==
  ASSUME script \in Scripts, LayoutRefused
  PROVE  ~Tiled
<1>1. CASE script.extended
  <2>1. script.layout \in Seq(Seq(STRING))
    BY <1>1, ScriptFacts
  <2>2. script.layout = <<>> \/ script.layout[1] = <<>>
        \/ \E y \in DOMAIN script.layout : Len(script.layout[y]) # Len(script.layout[1])
    BY <1>1 DEF LayoutRefused
  <2>3. QED
    BY <1>1, <2>1, <2>2 DEF Tiled
<1>2. CASE ~script.extended
  <2>1. script.layout \in Seq(STRING) /\ Len(script.layout) # field_width * field_height
    BY <1>2, ScriptFacts DEF LayoutRefused
  <2> DEFINE N == field_width * field_height
  <2>2. N \in Nat
    BY ScriptFacts
  <2> HIDE DEF N
  <2>3. script.layout \notin [1 .. N -> Tiles]
    BY <2>1, <2>2, FunctionIsSeq DEF N
  <2>4. QED
    BY <1>2, <2>3 DEF Tiled, N
<1>3. QED
  BY <1>1, <1>2

-----------------------------------------------------------------------------
(* The tests                                                               *)

(* The k-th stream of the test is for the node of this type in column c.   *)
IsFor(k, c, type) == Listed[k].type = type /\ Listed[k].id + 1 = c

(* What column c holds for such a node once d streams have been taken.     *)
FilledColumn(vec, c, type, d) ==
  \/ vec = <<>> /\ \A k \in 1 .. d : ~IsFor(k, c, type)
  \/ \E k \in 1 .. d : /\ IsFor(k, c, type)
                       /\ vec \in table_to_vector(Listed[k].values, type)
                       /\ \A j \in k + 1 .. d : ~IsFor(j, c, type)

FilledAll(vecs, type, d) ==
  /\ vecs \in [1 .. width -> Seq(Int)]
  /\ \A c \in 1 .. width : FilledColumn(vecs[c], c, type, d)

Filled(d) ==
  /\ FilledAll(test.inputs, "in", d)
  /\ FilledAll(test.n_outputs, "out", d)
  /\ FilledAll(test.i_outputs, "image", d)

(***************************************************************************)
(* The inductive invariant.  TypeOK, StreamsReachTheirNodes and            *)
(* FailsForCause only speak of the ends of the loops over the streams;     *)
(* Placed and Filled say what holds after each of their iterations.        *)
(***************************************************************************)
CustomInv ==
  /\ script \in Scripts /\ call \in DOMAIN script.streams
  /\ at \in {"loading", "placing", "ready", "filling", "made", "failed"}
  /\ spec \in [nodes : Seq(Seq(STRING)), inputs : Seq(Port), outputs : Seq(Port)]
  /\ test \in [inputs : Seq(Seq(Int)), n_outputs : Seq(Seq(Int)), i_outputs : Seq(Seq(Int))]
  /\ left \in Seq(Stream)
  /\ at \in {"loading", "placing", "ready"} => call = "layout"
  /\ at \in {"filling", "made"} => call # "layout"
  /\ at \in {"placing", "filling"} => LeftOver
  /\ at \in {"placing", "ready", "filling", "made"} => Shape
  /\ at = "placing" => Placed(Seen)
  /\ at = "filling" => Filled(Seen)
  /\ TypeOK /\ StreamsReachTheirNodes /\ FailsForCause

(* The columns of the level, as WellFormed counts them, and what it asks   *)
(* of the streams.                                                         *)
Wide == IF script.extended THEN Len(script.layout[1]) ELSE field_width

StreamsFit ==
  \A k \in DOMAIN Laid :
    /\ Laid[k].id < Wide
    /\ Laid[k].type \in Tiles =>
         \E j \in DOMAIN Laid : /\ j > k /\ Laid[j].id = Laid[k].id
                                /\ Laid[j].type \in {"out", "image"}

LEMMA WellFormedParts ==
  ASSUME script \in Scripts
  PROVE  WellFormed <=> Tiled /\ StreamsFit
<1>1. CASE script.extended
  BY <1>1 DEF WellFormed, Tiled, StreamsFit, Wide, Laid
<1>2. CASE ~script.extended
  BY <1>2 DEF WellFormed, Tiled, StreamsFit, Wide, Laid
<1>3. QED
  BY <1>1, <1>2

(* The streams of a script, as the lemmas below need them.                 *)
LEMMA ListedFacts ==
  ASSUME CustomInv
  PROVE  /\ Listed \in Seq(Stream) /\ Len(Listed) \in Nat /\ DOMAIN Listed = 1 .. Len(Listed)
         /\ \A k \in 1 .. Len(Listed) : /\ Listed[k].type \in IoTypes \cup Tiles
                                        /\ Listed[k].id \in Nat
                                        /\ Listed[k].values \in Seq(Int)
         /\ Len(left) \in Nat /\ Seen \in Int
<1>1. Listed \in Seq(Stream) /\ left \in Seq(Stream)
  BY ScriptFacts DEF CustomInv, Listed
<1>2. Len(Listed) \in Nat /\ Len(left) \in Nat /\ DOMAIN Listed = 1 .. Len(Listed)
      /\ \A k \in 1 .. Len(Listed) : Listed[k] \in Stream
  BY <1>1
<1> QED
  BY <1>1, <1>2 DEF Seen, Stream

(* The stream a loop looks at next.                                        *)
LEMMA NextStream ==
  ASSUME CustomInv, LeftOver, left # <<>>
  PROVE  /\ Seen \in Nat /\ Seen + 1 \in 1 .. Len(Listed)
         /\ Head(left) = Listed[Seen + 1]
         /\ Tail(left) \in Seq(Stream)
         /\ Len(Tail(left)) = Len(left) - 1
         /\ \A k \in 1 .. Len(left) - 1 : Tail(left)[k] = Listed[Seen + 1 + k]
<1>1. left \in Seq(Stream) /\ Len(left) \in Nat \ {0} /\ Len(Listed) \in Nat
  BY ListedFacts DEF CustomInv
<1>2. Seen \in Nat /\ Seen + 1 \in 1 .. Len(Listed)
  BY <1>1 DEF Seen, LeftOver
<1>3. Head(left) = left[1] /\ 1 \in 1 .. Len(left)
  BY <1>1
<1>4. /\ Tail(left) \in Seq(Stream) /\ Len(Tail(left)) = Len(left) - 1
      /\ \A k \in 1 .. Len(left) - 1 : Tail(left)[k] = left[k + 1] /\ k + 1 \in 1 .. Len(left)
  BY <1>1
<1>5. Seen \in Nat /\ \A k \in 1 .. Len(left) : left[k] = Listed[Seen + k]
  BY <1>2 DEF LeftOver
<1>6. \A k \in 1 .. Len(left) - 1 : Seen + (k + 1) = Seen + 1 + k
  BY <1>1, <1>2
<1> HIDE DEF Seen
<1>7. \A k \in 1 .. Len(left) - 1 : Tail(left)[k] = Listed[Seen + 1 + k]
  BY <1>4, <1>5, <1>6
<1>8. QED
  BY <1>2, <1>3, <1>4, <1>5, <1>7

-----------------------------------------------------------------------------
(* Reading the layout                                                      *)

LEMMA InitInv == Init => CustomInv
<1> SUFFICES ASSUME Init PROVE CustomInv
  OBVIOUS
<1>1. script \in Scripts /\ "layout" \in DOMAIN script.streams
  BY ScriptFacts DEF Init
<1>2. /\ spec \in [nodes : Seq(Seq(STRING)), inputs : Seq(Port), outputs : Seq(Port)]
      /\ test \in [inputs : Seq(Seq(Int)), n_outputs : Seq(Seq(Int)), i_outputs : Seq(Seq(Int))]
      /\ left \in Seq(Stream)
  BY DEF Init, no_test
<1>3. at = "loading" /\ call = "layout"
  BY DEF Init
<1>4. QED
  BY <1>1, <1>2, <1>3 DEF CustomInv, TypeOK, StreamsReachTheirNodes, FailsForCause

LEMMA ReadLayoutInv ==
  ASSUME CustomInv, ReadLayout
  PROVE  CustomInv'
<1>1. /\ script \in Scripts /\ script' = script /\ call' = call /\ test' = test
      /\ call \in DOMAIN script.streams /\ call = "layout"
  BY DEF CustomInv, ReadLayout
<1>2. CASE LayoutRefused
  <2>1. at' = "failed" /\ spec' = spec /\ left' = left
    BY <1>2 DEF ReadLayout
  <2>2. ~WellFormed
    BY <1>1, <1>2, RefusedIsNotTiled, WellFormedParts
  <2>3. ~WellFormed'
    BY <1>1, <2>2 DEF WellFormed
  <2>4. QED
    BY <1>1, <2>1, <2>3 DEF CustomInv, TypeOK, StreamsReachTheirNodes, FailsForCause
<1>3. CASE ~LayoutRefused
  <2> DEFINE w == Len(Rows[1])
             nulls == [x \in DOMAIN Rows[1] |-> "null"]
  <2>1. /\ spec' = [nodes |-> Rows, inputs |-> nulls, outputs |-> nulls]
        /\ left' = script.streams["layout"] /\ at' = "placing"
    BY <1>3 DEF ReadLayout
  <2>2. Rows \in Seq(Seq(STRING)) /\ 1 \in DOMAIN Rows /\ w \in Nat \ {0}
    BY <1>1, <1>3, RowsShape
  <2>3. DOMAIN Rows[1] = 1 .. w
    BY <2>2
  <2>4. /\ nulls \in [1 .. w -> {"null"}] /\ nulls \in Seq(Port)
        /\ \A x \in 1 .. w : nulls[x] = "null"
    <3>1. nulls \in [1 .. w -> {"null"}] /\ nulls \in [1 .. w -> Port]
      BY <2>3 DEF Port
    <3>2. nulls \in Seq(Port)
      BY <2>2, <3>1, FunctionIsSeq
    <3>3. QED
      BY <3>1, <3>2
  <2> HIDE DEF nulls
  <2>5. Rows' = Rows /\ ~LayoutRefused'
    BY <1>1, <1>3 DEF Rows, LayoutRefused
  <2>6. width' = w
    BY <2>1 DEF width
  <2> HIDE DEF w
  <2>7. Shape'
    <3>1. /\ spec'.nodes = Rows /\ spec'.inputs = nulls /\ spec'.outputs = nulls
      BY <2>1
    <3>2. nulls \in [1 .. w -> {"null", "in"}] /\ nulls \in [1 .. w -> Port] /\ w \in Nat
      BY <2>2, <2>4
    <3>3. QED
      BY <2>5, <2>6, <3>1, <3>2 DEF Shape
  <2>8. left' \in Seq(Stream) /\ Len(left') \in Nat
    BY <1>1, <2>1, ScriptFacts
  <2>9. Listed' = left' /\ Seen' = 0
    BY <1>1, <2>1, <2>8 DEF Listed, Seen
  <2>10. LeftOver'
    BY <2>8, <2>9 DEF LeftOver
  <2>11. Placed(0)'
    <3>1. \A c \in 1 .. w : spec'.outputs[c] = "null"
      BY <2>1, <2>4
    <3>2. QED
      BY <2>6, <3>1 DEF Placed, PlacedOutput
  <2>12. Placed(Seen)'
    BY <2>9, <2>11 DEF Placed, PlacedOutput
  <2>13. spec' \in [nodes : Seq(Seq(STRING)), inputs : Seq(Port), outputs : Seq(Port)]
    BY <2>1, <2>2, <2>4
  <2>14. QED
    BY <1>1, <2>1, <2>7, <2>8, <2>10, <2>12, <2>13
    DEF CustomInv, TypeOK, StreamsReachTheirNodes, FailsForCause
<1>4. QED
  BY <1>2, <1>3
LEMMA WidthFacts ==
  ASSUME script \in Scripts, Shape
  PROVE  width = Wide /\ width \in Nat \ {0}
BY RowsShape DEF Shape, width, Wide

(* One more stream of the layout looked at.                                *)
LEMMA PlacingOne ==
  ASSUME CustomInv, Shape, NEW d \in Nat, d + 1 \in 1 .. Len(Laid), Placed(d),
         call = "layout",
         Laid[d + 1].id < width,
         width' = width, script' = script,
         \A c \in 1 .. width :
           spec'.outputs[c] = IF Decides(d + 1, c) THEN Laid[d + 1].type ELSE spec.outputs[c]
  PROVE  Placed(d + 1)'
<1>1. Laid' = Laid /\ \A k, c : Decides(k, c)' <=> Decides(k, c)
  BY DEF Laid, Decides
<1>2. \A k \in 1 .. d + 1 : Laid[k].id < width
  <2>1. \A k \in 1 .. d + 1 : k \in 1 .. d \/ k = d + 1
    OBVIOUS
  <2>2. QED
    BY <2>1 DEF Placed
<1>3. ASSUME NEW c \in 1 .. width
      PROVE  PlacedOutput(c, d + 1)'
  <2>1. PlacedOutput(c, d)
    BY DEF Placed
  <2>2. CASE Decides(d + 1, c)
    <3>1. spec'.outputs[c] = Laid[d + 1].type
      BY <2>2
    <3>2. \A j \in d + 1 + 1 .. d + 1 : FALSE
      OBVIOUS
    <3>3. d + 1 \in 1 .. d + 1
      OBVIOUS
    <3>4. QED
      BY <1>1, <2>2, <3>1, <3>2, <3>3 DEF PlacedOutput
  <2>3. CASE ~Decides(d + 1, c)
    <3>1. spec'.outputs[c] = spec.outputs[c]
      BY <2>3
    <3>2. CASE spec.outputs[c] = "null" /\ \A k \in 1 .. d : ~Decides(k, c)
      <4>1. \A k \in 1 .. d + 1 : ~Decides(k, c)
        BY <2>3, <3>2
      <4>2. QED
        BY <1>1, <3>1, <3>2, <4>1 DEF PlacedOutput
    <3>3. CASE \E k \in 1 .. d : /\ Decides(k, c) /\ spec.outputs[c] = Laid[k].type
                                 /\ \A j \in k + 1 .. d : ~Decides(j, c)
      <4>1. PICK k \in 1 .. d : /\ Decides(k, c) /\ spec.outputs[c] = Laid[k].type
                                /\ \A j \in k + 1 .. d : ~Decides(j, c)
        BY <3>3
      <4>2. \A j \in k + 1 .. d + 1 : ~Decides(j, c)
        BY <2>3, <4>1
      <4>3. k \in 1 .. d + 1
        OBVIOUS
      <4>4. QED
        BY <1>1, <3>1, <4>1, <4>2, <4>3 DEF PlacedOutput
    <3>4. QED
      BY <2>1, <3>2, <3>3 DEF PlacedOutput
  <2>4. QED
    BY <2>2, <2>3
<1>4. QED
  BY <1>1, <1>2, <1>3 DEF Placed

LEMMA PlaceStreamInv ==
  ASSUME CustomInv, PlaceStream
  PROVE  CustomInv'
<1> DEFINE s == Head(left)
<1>1. /\ script \in Scripts /\ script' = script /\ call' = call /\ test' = test
      /\ call \in DOMAIN script.streams /\ call = "layout"
      /\ at = "placing" /\ left # <<>> /\ LeftOver /\ Shape /\ Placed(Seen)
  BY DEF CustomInv, PlaceStream
<1>0. PICK d \in Nat : d = Seen
  BY <1>1, NextStream
<1>2. /\ d \in Nat /\ d + 1 \in 1 .. Len(Listed) /\ s = Listed[d + 1]
      /\ Tail(left) \in Seq(Stream) /\ Len(Tail(left)) = Len(left) - 1
      /\ \A k \in 1 .. Len(left) - 1 : Tail(left)[k] = Listed[d + 1 + k]
  BY <1>0, <1>1, NextStream
<1>3. s.type \in IoTypes \cup Tiles /\ s.id \in Nat /\ Listed = Laid
  BY <1>1, <1>2, ListedFacts DEF Listed, Laid
<1>4. width = Wide /\ width \in Nat
  BY <1>1, WidthFacts
<1> HIDE DEF s
<1>5. CASE OutOfRange(s)
  <2>1. at' = "failed" /\ spec' = spec /\ left' = left
    BY <1>5 DEF PlaceStream, s
  <2>2. ~(Laid[d + 1].id < Wide) /\ d + 1 \in DOMAIN Laid
    BY <1>2, <1>3, <1>4, <1>5, ListedFacts DEF OutOfRange
  <2>3. ~WellFormed
    BY <1>1, <2>2, WellFormedParts DEF StreamsFit
  <2>4. ~WellFormed'
    BY <1>1, <2>3 DEF WellFormed
  <2>5. QED
    BY <1>1, <2>1, <2>4 DEF CustomInv, TypeOK, StreamsReachTheirNodes, FailsForCause
<1>6. CASE ~OutOfRange(s)
  <2>1. /\ left' = Tail(left) /\ at' = at
        /\ spec' = IF s.type = "in" THEN [spec EXCEPT !.inputs[s.id + 1] = "in"]
                   ELSE [spec EXCEPT !.outputs[s.id + 1] = s.type]
    BY <1>6 DEF PlaceStream, s
  <2>2. s.id < width
    BY <1>3, <1>4, <1>6 DEF OutOfRange
  <2>3. spec \in [nodes : Seq(Seq(STRING)), inputs : Seq(Port), outputs : Seq(Port)]
    BY DEF CustomInv
  <2>4. spec.inputs \in [1 .. width -> {"null", "in"}] /\ spec.outputs \in [1 .. width -> Port]
    BY <1>1 DEF Shape
  <2> DEFINE c0 == s.id + 1
  <2>5. c0 \in 1 .. width
    BY <1>3, <1>4, <2>2
  <2> HIDE DEF c0
  <2>6. s.type \in Port
    BY <1>3 DEF Port
  <2>7. /\ spec'.nodes = spec.nodes
        /\ spec'.inputs \in [1 .. width -> {"null", "in"}]
        /\ spec'.outputs \in [1 .. width -> Port]
        /\ spec' \in [nodes : Seq(Seq(STRING)), inputs : Seq(Port), outputs : Seq(Port)]
        /\ \A c \in 1 .. width :
             spec'.outputs[c] = IF s.type # "in" /\ c0 = c THEN s.type ELSE spec.outputs[c]
    <3> DEFINE ins  == [spec.inputs EXCEPT ![c0] = "in"]
               outs == [spec.outputs EXCEPT ![c0] = s.type]
    <3>1. ins \in [1 .. width -> {"null", "in"}] /\ outs \in [1 .. width -> Port]
      BY <2>4, <2>6
    <3>2. ins \in Seq(Port) /\ outs \in Seq(Port)
      <4>1. ins \in [1 .. width -> Port]
        BY <3>1 DEF Port, IoTypes
      <4>2. QED
        BY <1>4, <3>1, <4>1, FunctionIsSeq
    <3>3. \A c \in 1 .. width : outs[c] = IF c0 = c THEN s.type ELSE spec.outputs[c]
      BY <2>4
    <3> HIDE DEF ins, outs
    <3>4. CASE s.type = "in"
      <4>1. spec' = [spec EXCEPT !.inputs = ins]
        BY <2>1, <3>4 DEF ins, c0
      <4>2. spec'.nodes = spec.nodes /\ spec'.inputs = ins /\ spec'.outputs = spec.outputs
            /\ spec' \in [nodes : Seq(Seq(STRING)), inputs : Seq(Port), outputs : Seq(Port)]
        BY <2>3, <3>2, <4>1
      <4>3. QED
        BY <2>4, <3>1, <3>4, <4>2
    <3>5. CASE s.type # "in"
      <4>1. spec' = [spec EXCEPT !.outputs = outs]
        BY <2>1, <3>5 DEF outs, c0
      <4>2. spec'.nodes = spec.nodes /\ spec'.inputs = spec.inputs /\ spec'.outputs = outs
            /\ spec' \in [nodes : Seq(Seq(STRING)), inputs : Seq(Port), outputs : Seq(Port)]
        BY <2>3, <3>2, <4>1
      <4>3. QED
        BY <2>4, <3>1, <3>3, <3>5, <4>2
    <3>6. QED
      BY <3>4, <3>5
  <2>8. width' = width /\ Rows' = Rows /\ ~LayoutRefused'
    BY <1>1, <2>7 DEF width, Rows, LayoutRefused, Shape
  <2>9. Shape'
    BY <1>1, <2>7, <2>8 DEF Shape
  <2>10. Listed' = Listed /\ Seen' = d + 1 /\ LeftOver'
    <3>1. Listed' = Listed
      BY <1>1 DEF Listed
    <3>2. Len(left) \in Nat /\ Len(Listed) \in Nat
      BY ListedFacts
    <3>3. Seen' = d + 1
      BY <1>0, <1>2, <2>1, <3>1, <3>2 DEF Seen
    <3>4. Len(left') <= Len(Listed)
      BY <1>1, <1>2, <2>1, <3>2 DEF LeftOver
    <3>5. \A k \in 1 .. Len(left') : left'[k] = Listed[d + 1 + k]
      BY <1>2, <2>1
    <3>6. QED
      BY <3>1, <3>3, <3>4, <3>5 DEF LeftOver
  <2>11. Placed(d + 1)'
    <3>1. \A c \in 1 .. width :
            spec'.outputs[c] = IF Decides(d + 1, c) THEN Laid[d + 1].type ELSE spec.outputs[c]
      BY <1>2, <1>3, <2>7 DEF Decides, c0
    <3>2. d + 1 \in 1 .. Len(Laid) /\ Laid[d + 1].id < width
      BY <1>2, <1>3, <2>2
    <3>3. Placed(d)
      BY <1>0, <1>1 DEF Placed, PlacedOutput
    <3>4. QED
      BY <1>1, <1>2, <2>8, <3>1, <3>2, <3>3, PlacingOne
  <2>12. Placed(Seen)'
    BY <2>10, <2>11 DEF Placed, PlacedOutput
  <2>13. QED
    BY <1>1, <1>2, <2>1, <2>7, <2>9, <2>10, <2>12
    DEF CustomInv, TypeOK, StreamsReachTheirNodes, FailsForCause
<1>7. QED
  BY <1>5, <1>6
(* Once every stream has been placed, the outputs are outputs exactly if   *)
(* the streams fit.                                                        *)
LEMMA AllPlaced ==
  ASSUME CustomInv, call = "layout", Shape, Placed(Len(Laid))
  PROVE  ToSet(spec.outputs) \subseteq {"null", "out", "image"} <=> StreamsFit
<1> DEFINE n == Len(Laid)
<1>1. /\ n \in Nat /\ DOMAIN Laid = 1 .. n
      /\ \A k \in 1 .. n : Laid[k].type \in IoTypes \cup Tiles /\ Laid[k].id \in Nat
  BY ListedFacts DEF Listed, Laid
<1>2. width = Wide /\ width \in Nat
  BY WidthFacts DEF CustomInv
<1>3. /\ \A k \in 1 .. n : Laid[k].id < width
      /\ \A c \in 1 .. width : PlacedOutput(c, n)
  BY DEF Placed
<1>4. ToSet(spec.outputs) \subseteq {"null", "out", "image"}
        <=> \A c \in 1 .. width : spec.outputs[c] \in {"null", "out", "image"}
  BY DEF ToSet, Shape
<1> HIDE DEF n
<1>5. ASSUME \A c \in 1 .. width : spec.outputs[c] \in {"null", "out", "image"},
             NEW k \in 1 .. n, Laid[k].type \in Tiles
      PROVE  \E j \in 1 .. n : /\ j > k /\ Laid[j].id = Laid[k].id
                               /\ Laid[j].type \in {"out", "image"}
  <2>1. PICK c \in 1 .. width : c = Laid[k].id + 1
    BY <1>1, <1>2, <1>3
  <2>2. Decides(k, c)
    BY <1>5, <2>1 DEF Decides, Tiles
  <2>3. PICK j \in 1 .. n : /\ Decides(j, c) /\ spec.outputs[c] = Laid[j].type
                            /\ \A i \in j + 1 .. n : ~Decides(i, c)
    BY <1>3, <2>2 DEF PlacedOutput
  <2>4. Laid[j].type \in {"out", "image"}
    BY <1>1, <1>5, <2>3 DEF IoTypes, Tiles
  <2>5. j > k
    <3>1. ~ (k \in j + 1 .. n)
      BY <2>2, <2>3
    <3>2. j # k
      BY <1>5, <2>4 DEF Tiles
    <3>3. QED
      BY <1>1, <3>1, <3>2
  <2>6. Laid[j].id = Laid[k].id
    BY <1>1, <2>1, <2>3 DEF Decides
  <2>7. QED
    BY <2>4, <2>5, <2>6
<1>6. ASSUME StreamsFit, NEW c \in 1 .. width
      PROVE  spec.outputs[c] \in {"null", "out", "image"}
  <2>1. CASE spec.outputs[c] = "null"
    BY <2>1
  <2>2. CASE \E k \in 1 .. n : /\ Decides(k, c) /\ spec.outputs[c] = Laid[k].type
                               /\ \A j \in k + 1 .. n : ~Decides(j, c)
    <3>1. PICK k \in 1 .. n : /\ Decides(k, c) /\ spec.outputs[c] = Laid[k].type
                              /\ \A j \in k + 1 .. n : ~Decides(j, c)
      BY <2>2
    <3>2. Laid[k].type \notin Tiles
      <4> SUFFICES ASSUME Laid[k].type \in Tiles PROVE FALSE
        OBVIOUS
      <4>1. PICK j \in 1 .. n : /\ j > k /\ Laid[j].id = Laid[k].id
                                /\ Laid[j].type \in {"out", "image"}
        BY <1>1, <1>6 DEF StreamsFit
      <4>2. j \in k + 1 .. n
        BY <1>1, <4>1
      <4>3. Decides(j, c)
        BY <3>1, <4>1 DEF Decides
      <4>4. QED
        BY <3>1, <4>2, <4>3
    <3>3. QED
      BY <1>1, <3>1, <3>2 DEF Decides, IoTypes
  <2>3. QED
    BY <1>3, <2>1, <2>2 DEF PlacedOutput
<1>7. ASSUME \A k \in 1 .. n : Laid[k].type \in Tiles =>
               \E j \in 1 .. n : /\ j > k /\ Laid[j].id = Laid[k].id
                                 /\ Laid[j].type \in {"out", "image"}
      PROVE  StreamsFit
  BY <1>1, <1>2, <1>3, <1>7 DEF StreamsFit
<1>8. QED
  BY <1>4, <1>5, <1>6, <1>7

LEMMA NewFieldInv ==
  ASSUME CustomInv, NewField
  PROVE  CustomInv'
<1>1. /\ script \in Scripts /\ call = "layout" /\ at = "placing" /\ left = <<>>
      /\ Shape /\ Placed(Seen) /\ call \in DOMAIN script.streams
      /\ UNCHANGED <<script, spec, call, left, test>>
  BY DEF CustomInv, NewField
<1>2. Placed(Len(Laid))
  <2>1. Seen = Len(Laid)
    BY <1>1, ListedFacts DEF Seen, Listed, Laid
  <2>2. QED
    BY <1>1, <2>1
<1>3. /\ DOMAIN spec.nodes = DOMAIN Rows
      /\ (\A y \in DOMAIN spec.nodes : ToSet(spec.nodes[y]) \subseteq Tiles) <=> Tiled
  <2>1. spec.nodes = Rows /\ ~LayoutRefused
    BY <1>1 DEF Shape
  <2>2. QED
    BY <1>1, <2>1, RowsShape
<1>4. ToSet(spec.outputs) \subseteq {"null", "out", "image"} <=> StreamsFit
  BY <1>1, <1>2, AllPlaced
<1>5. at' = IF WellFormed THEN "ready" ELSE "failed"
  BY <1>1, <1>3, <1>4, WellFormedParts DEF NewField
<1>6. WellFormed' <=> WellFormed
  BY <1>1 DEF WellFormed
<1>7. Shape'
  <2>1. width' = width
    BY <1>1 DEF width
  <2>2. Rows' = Rows /\ ~LayoutRefused'
    BY <1>1 DEF Rows, LayoutRefused, Shape
  <2>4. QED
    BY <1>1, <2>1, <2>2 DEF Shape
<1>8. QED
  BY <1>1, <1>5, <1>6, <1>7 DEF CustomInv, TypeOK, StreamsReachTheirNodes, FailsForCause
-----------------------------------------------------------------------------
(* Making a test                                                           *)

(* The steps of a test leave the layout alone.                             *)
LEMMA LayoutKept ==
  ASSUME Shape, script' = script, spec' = spec
  PROVE  Shape' /\ width' = width /\ (WellFormed' <=> WellFormed)
<1>1. width' = width /\ (WellFormed' <=> WellFormed)
  BY DEF width, WellFormed
<1>2. Rows' = Rows /\ ~LayoutRefused'
  BY DEF Rows, LayoutRefused, Shape
<1>3. QED
  BY <1>1, <1>2 DEF Shape

LEMMA RandomTestInv ==
  ASSUME CustomInv, RandomTest
  PROVE  CustomInv'
<1>1. /\ script \in Scripts /\ at \in {"ready", "made"} /\ Shape
      /\ call' \in DOMAIN script.streams \ {"layout"}
      /\ left' = script.streams[call'] /\ at' = "filling"
      /\ test' = [inputs    |-> Columns(<<>>), n_outputs |-> Columns(<<>>),
                  i_outputs |-> Columns(no_image)]
      /\ script' = script /\ spec' = spec
  BY DEF CustomInv, RandomTest
<1>2. Shape' /\ width' = width /\ (WellFormed' <=> WellFormed) /\ WellFormed
  BY <1>1, LayoutKept DEF CustomInv, FailsForCause
<1>3. left' \in Seq(Stream) /\ Len(left') \in Nat
  BY <1>1, ScriptFacts
<1>4. Listed' = left' /\ Seen' = 0
  BY <1>1, <1>3 DEF Listed, Seen
<1>5. LeftOver'
  BY <1>3, <1>4 DEF LeftOver
<1> DEFINE e == [c \in 1 .. width |-> <<>>]
<1>6. test' = [inputs |-> e, n_outputs |-> e, i_outputs |-> e]
  <2>1. DOMAIN spec.inputs = 1 .. width
    BY <1>1 DEF Shape
  <2>2. QED
    BY <1>1, <2>1 DEF Columns, no_image
<1>7. /\ e \in [1 .. width -> Seq(Int)] /\ e \in Seq(Seq(Int))
      /\ \A c \in 1 .. width : e[c] = <<>>
  <2>1. e \in [1 .. width -> Seq(Int)] /\ width \in Nat
    BY <1>1 DEF Shape
  <2>2. e \in Seq(Seq(Int))
    BY <2>1, FunctionIsSeq
  <2>3. QED
    BY <2>1, <2>2
<1> HIDE DEF e
<1>8. Filled(0)'
  BY <1>2, <1>6, <1>7 DEF Filled, FilledAll, FilledColumn
<1>9. Filled(Seen)'
  BY <1>4, <1>8 DEF Filled, FilledAll, FilledColumn
<1>10. QED
  BY <1>1, <1>2, <1>3, <1>5, <1>6, <1>7, <1>9
  DEF CustomInv, TypeOK, StreamsReachTheirNodes, FailsForCause

(* What a table becomes: a list of numbers, those that fit unchanged.      *)
LEMMA TableFacts ==
  ASSUME NEW values \in Seq(Int), NEW type, NEW v \in table_to_vector(values, type)
  PROVE  /\ v \in Seq(Int) /\ DOMAIN v = DOMAIN values
         /\ \A k \in DOMAIN values : v[k] \in element(values[k], type)
         /\ type = "image" => v \in Seq(Colour)
<1>1. \A x \in Int : element(x, type) \subseteq Int /\ (type = "image" => element(x, type) \subseteq Colour)
  <2>1. Colour \subseteq Int /\ \A x \in Int : normalize(x) \in Colour
    BY ImageAssumption DEF Colour, C_black, normalize
  <2>2. \A x \in Int : to_pixel(x) \subseteq Colour
    BY <2>1 DEF to_pixel
  <2>3. word_empty .. int16_max \subseteq Int
    OBVIOUS
  <2>4. \A x \in Int : to_word_t(x) \subseteq Int
    BY <2>3 DEF to_word_t
  <2>5. QED
    BY <2>1, <2>2, <2>4 DEF element
<1>2. DOMAIN v = DOMAIN values /\ \A k \in DOMAIN values : v[k] \in element(values[k], type)
  BY DEF table_to_vector
<1>3. v = [k \in DOMAIN values |-> v[k]]
  BY DEF table_to_vector
<1>4. \A k \in DOMAIN values : v[k] \in Int /\ (type = "image" => v[k] \in Colour)
  BY <1>1, <1>2
<1>5. Len(values) \in Nat /\ DOMAIN values = 1 .. Len(values)
  OBVIOUS
<1>6. v \in [1 .. Len(values) -> Int] /\ (type = "image" => v \in [1 .. Len(values) -> Colour])
  BY <1>3, <1>4, <1>5
<1>7. QED
  BY <1>2, <1>5, <1>6, FunctionIsSeq

(* One more stream of the test taken.                                      *)
LEMMA FillingOne ==
  ASSUME CustomInv, Shape, NEW type, NEW vecs, NEW after, NEW d \in Nat,
         d + 1 \in 1 .. Len(Listed), FilledAll(vecs, type, d),
         Listed[d + 1].id < width,
         \/ Listed[d + 1].type # type /\ after = vecs
         \/ /\ Listed[d + 1].type = type
            /\ \E v \in table_to_vector(Listed[d + 1].values, type) :
                 after = [vecs EXCEPT ![Listed[d + 1].id + 1] = v]
  PROVE  FilledAll(after, type, d + 1) /\ after \in Seq(Seq(Int))
<1> DEFINE s == Listed[d + 1]
<1>1. s.type \in IoTypes \cup Tiles /\ s.id \in Nat /\ s.values \in Seq(Int)
  BY ListedFacts
<1>2. width \in Nat /\ vecs \in [1 .. width -> Seq(Int)]
      /\ \A c \in 1 .. width : FilledColumn(vecs[c], c, type, d)
  BY DEF Shape, FilledAll
<1>3. s.id + 1 \in 1 .. width
  BY <1>1, <1>2
<1>4. ASSUME NEW c \in 1 .. width, ~IsFor(d + 1, c, type), FilledColumn(vecs[c], c, type, d)
      PROVE  FilledColumn(vecs[c], c, type, d + 1)
  <2>1. CASE vecs[c] = <<>> /\ \A k \in 1 .. d : ~IsFor(k, c, type)
    <3>1. \A k \in 1 .. d + 1 : ~IsFor(k, c, type)
      BY <1>4, <2>1
    <3>2. QED
      BY <2>1, <3>1 DEF FilledColumn
  <2>2. CASE \E k \in 1 .. d : /\ IsFor(k, c, type)
                               /\ vecs[c] \in table_to_vector(Listed[k].values, type)
                               /\ \A j \in k + 1 .. d : ~IsFor(j, c, type)
    <3>1. PICK k \in 1 .. d : /\ IsFor(k, c, type)
                              /\ vecs[c] \in table_to_vector(Listed[k].values, type)
                              /\ \A j \in k + 1 .. d : ~IsFor(j, c, type)
      BY <2>2
    <3>2. \A j \in k + 1 .. d + 1 : ~IsFor(j, c, type)
      BY <1>4, <3>1
    <3>3. k \in 1 .. d + 1
      OBVIOUS
    <3>4. QED
      BY <3>1, <3>2, <3>3 DEF FilledColumn
  <2>3. QED
    BY <1>4, <2>1, <2>2 DEF FilledColumn
<1>5. CASE s.type # type /\ after = vecs
  <2>1. \A c \in 1 .. width : ~IsFor(d + 1, c, type)
    BY <1>5 DEF IsFor
  <2>2. FilledAll(after, type, d + 1)
    BY <1>2, <1>4, <1>5, <2>1 DEF FilledAll
  <2>3. QED
    BY <1>2, <1>5, <2>2, FunctionIsSeq
<1>6. CASE s.type = type /\ \E v \in table_to_vector(s.values, type) :
                              after = [vecs EXCEPT ![s.id + 1] = v]
  <2>1. PICK v \in table_to_vector(s.values, type) : after = [vecs EXCEPT ![s.id + 1] = v]
    BY <1>6
  <2>2. v \in Seq(Int)
    BY <1>1, <2>1, TableFacts
  <2>3. after \in [1 .. width -> Seq(Int)]
    BY <1>2, <1>3, <2>1, <2>2
  <2>4. ASSUME NEW c \in 1 .. width PROVE FilledColumn(after[c], c, type, d + 1)
    <3>1. CASE c = s.id + 1
      <4>1. IsFor(d + 1, c, type)
        BY <1>6, <3>1 DEF IsFor
      <4>2. after[c] = v
        BY <1>2, <2>1, <3>1
      <4>3. d + 1 \in 1 .. d + 1 /\ \A j \in d + 1 + 1 .. d + 1 : FALSE
        OBVIOUS
      <4>4. QED
        BY <2>1, <4>1, <4>2, <4>3 DEF FilledColumn
    <3>2. CASE c # s.id + 1
      <4>1. ~IsFor(d + 1, c, type)
        BY <3>2 DEF IsFor
      <4>2. after[c] = vecs[c]
        BY <1>2, <2>1, <3>2
      <4>3. QED
        BY <1>2, <1>4, <4>1, <4>2
    <3>3. QED
      BY <3>1, <3>2
  <2>5. QED
    BY <1>2, <2>3, <2>4, FunctionIsSeq DEF FilledAll
<1>7. QED
  BY <1>5, <1>6

LEMMA FillStreamInv ==
  ASSUME CustomInv, FillStream
  PROVE  CustomInv'
<1> DEFINE s == Head(left)
<1>1. /\ script \in Scripts /\ UNCHANGED <<script, spec, call>>
      /\ call \in DOMAIN script.streams /\ call # "layout"
      /\ at = "filling" /\ left # <<>> /\ LeftOver /\ Shape /\ Filled(Seen)
  BY DEF CustomInv, FillStream
<1>2. PICK d \in Nat : d = Seen
  BY <1>1, NextStream
<1>3. /\ d + 1 \in 1 .. Len(Listed) /\ s = Listed[d + 1]
      /\ Tail(left) \in Seq(Stream) /\ Len(Tail(left)) = Len(left) - 1
      /\ \A k \in 1 .. Len(left) - 1 : Tail(left)[k] = Listed[d + 1 + k]
  BY <1>1, <1>2, NextStream
<1>4. s.type \in IoTypes \cup Tiles /\ s.id \in Nat /\ s.values \in Seq(Int)
      /\ DOMAIN Listed = 1 .. Len(Listed)
  BY <1>3, ListedFacts
<1>5. Shape' /\ width' = width /\ (WellFormed' <=> WellFormed) /\ WellFormed /\ width \in Nat
  BY <1>1, LayoutKept DEF CustomInv, FailsForCause, Shape
<1>6. Listed' = Listed
  BY <1>1 DEF Listed
<1> HIDE DEF s
<1>7. CASE OutOfRange(s) \/ s.type \notin IoTypes
  <2>1. at' = "failed" /\ UNCHANGED <<test, left>>
    BY <1>7 DEF FillStream, s
  <2>2. s.id >= width \/ s.type \in Tiles
    BY <1>4, <1>7 DEF OutOfRange
  <2>3. \E k \in DOMAIN Listed : Listed[k].id >= width \/ Listed[k].type \in Tiles
    BY <1>3, <1>4, <2>2
  <2>4. FailsForCause'
    <3>1. (\E k \in DOMAIN Listed : Listed[k].id >= width \/ Listed[k].type \in Tiles)'
      BY <1>5, <1>6, <2>3
    <3>2. QED
      BY <1>1, <2>1, <3>1 DEF FailsForCause, Listed
  <2>5. QED
    BY <1>1, <2>1, <2>4 DEF CustomInv, TypeOK, StreamsReachTheirNodes
<1>8. CASE ~OutOfRange(s) /\ s.type \in IoTypes
  <2>1. /\ left' = Tail(left) /\ at' = at
        /\ \E v \in table_to_vector(s.values, s.type) :
             \/ s.type = "in"    /\ test' = [test EXCEPT !.inputs[s.id + 1] = v]
             \/ s.type = "out"   /\ test' = [test EXCEPT !.n_outputs[s.id + 1] = v]
             \/ s.type = "image" /\ test' = [test EXCEPT !.i_outputs[s.id + 1] = v]
    BY <1>8 DEF FillStream, s
  <2>2. s.id < width
    BY <1>4, <1>5, <1>8 DEF OutOfRange
  <2>3. test \in [inputs : Seq(Seq(Int)), n_outputs : Seq(Seq(Int)), i_outputs : Seq(Seq(Int))]
    BY DEF CustomInv
  <2>4. /\ FilledAll(test.inputs, "in", d) /\ FilledAll(test.n_outputs, "out", d)
        /\ FilledAll(test.i_outputs, "image", d)
    BY <1>1, <1>2 DEF Filled
  <2> DEFINE Taken(vecs, after, type) ==
               \/ s.type # type /\ after = vecs
               \/ /\ s.type = type
                  /\ \E v \in table_to_vector(s.values, type) :
                       after = [vecs EXCEPT ![s.id + 1] = v]
  <2>5. /\ test' = [inputs |-> test'.inputs, n_outputs |-> test'.n_outputs,
                    i_outputs |-> test'.i_outputs]
        /\ Taken(test.inputs, test'.inputs, "in")
        /\ Taken(test.n_outputs, test'.n_outputs, "out")
        /\ Taken(test.i_outputs, test'.i_outputs, "image")
    BY <2>1, <2>3
  <2>6. /\ FilledAll(test'.inputs, "in", d + 1) /\ test'.inputs \in Seq(Seq(Int))
        /\ FilledAll(test'.n_outputs, "out", d + 1) /\ test'.n_outputs \in Seq(Seq(Int))
        /\ FilledAll(test'.i_outputs, "image", d + 1) /\ test'.i_outputs \in Seq(Seq(Int))
    <3>1. ASSUME NEW vecs, NEW after, NEW type, FilledAll(vecs, type, d), Taken(vecs, after, type)
          PROVE  FilledAll(after, type, d + 1) /\ after \in Seq(Seq(Int))
      BY <1>1, <1>3, <2>2, <3>1, FillingOne
    <3> HIDE DEF Taken
    <3>2. QED
      BY <2>4, <2>5, <3>1
  <2>7. Filled(d + 1)'
    BY <1>5, <1>6, <2>6 DEF Filled, FilledAll, FilledColumn, IsFor
  <2>8. Seen' = d + 1 /\ LeftOver'
    <3>1. Len(left) \in Nat /\ Len(Listed) \in Nat
      BY ListedFacts
    <3>2. Seen' = d + 1
      BY <1>2, <1>3, <1>6, <2>1, <3>1 DEF Seen
    <3>3. Len(left') <= Len(Listed)
      BY <1>1, <1>3, <2>1, <3>1 DEF LeftOver
    <3>4. \A k \in 1 .. Len(left') : left'[k] = Listed[d + 1 + k]
      BY <1>3, <2>1
    <3>5. QED
      BY <1>6, <3>2, <3>3, <3>4 DEF LeftOver
  <2>9. Filled(Seen)'
    BY <2>7, <2>8 DEF Filled, FilledAll, FilledColumn
  <2>10. QED
    BY <1>1, <1>3, <1>5, <2>1, <2>5, <2>6, <2>8, <2>9
    DEF CustomInv, TypeOK, StreamsReachTheirNodes, FailsForCause
<1>9. QED
  BY <1>7, <1>8
(* What the column's node gets is the last stream the script has for it.   *)
LEMMA MeantFacts ==
  ASSUME CustomInv, NEW type \in IoTypes, NEW c, NEW vec,
         FilledColumn(vec, c, type, Len(Listed))
  PROVE  /\ Meant(c, type).type = type /\ Meant(c, type).values \in Seq(Int)
         /\ vec \in table_to_vector(Meant(c, type).values, type)
<1> DEFINE n   == Len(Listed)
           own == {k \in DOMAIN Listed : IsFor(k, c, type)}
<1>1. /\ n \in Nat /\ DOMAIN Listed = 1 .. n
      /\ \A k \in 1 .. n : Listed[k].values \in Seq(Int)
  BY ListedFacts
<1>2. Meant(c, type) = IF own = {} THEN [type |-> type, values |-> <<>>]
                       ELSE Listed[CHOOSE k \in own : \A j \in own : j <= k]
  BY DEF Meant, Listed, IsFor
<1> HIDE DEF n
<1>3. CASE vec = <<>> /\ \A k \in 1 .. n : ~IsFor(k, c, type)
  <2>1. own = {}
    BY <1>1, <1>3
  <2>2. Meant(c, type) = [type |-> type, values |-> <<>>]
    BY <1>2, <2>1
  <2>3. <<>> \in table_to_vector(<<>>, type)
    BY DEF table_to_vector
  <2>4. <<>> \in Seq(Int)
    OBVIOUS
  <2>5. QED
    BY <1>3, <2>2, <2>3, <2>4
<1>4. CASE \E k \in 1 .. n : /\ IsFor(k, c, type)
                             /\ vec \in table_to_vector(Listed[k].values, type)
                             /\ \A j \in k + 1 .. n : ~IsFor(j, c, type)
  <2>1. PICK k \in 1 .. n : /\ IsFor(k, c, type)
                            /\ vec \in table_to_vector(Listed[k].values, type)
                            /\ \A j \in k + 1 .. n : ~IsFor(j, c, type)
    BY <1>4
  <2>2. k \in own
    BY <1>1, <2>1
  <2>3. \A j \in own : j <= k /\ j \in Nat
    BY <1>1, <2>1
  <2>4. \A i \in own : (\A j \in own : j <= i) => i = k
    BY <2>2, <2>3
  <2> HIDE DEF own
  <2>5. (CHOOSE i \in own : \A j \in own : j <= i) = k
    BY <2>2, <2>3, <2>4
  <2>6. Meant(c, type) = Listed[k]
    BY <1>2, <2>2, <2>5
  <2>7. QED
    BY <1>1, <2>1, <2>6 DEF IsFor
<1>5. QED
  BY <1>3, <1>4 DEF FilledColumn, n

Clamped(vec) == [i \in DOMAIN vec |-> clamp(vec[i], word_min, word_max)]

LEMMA TakenAgrees ==
  ASSUME NEW s, s.values \in Seq(Int), NEW vec \in table_to_vector(s.values, s.type)
  PROVE  /\ s.type = "image" => Agrees(vec, s)
         /\ s.type # "image" => Agrees(Clamped(vec), s)
<1>1. /\ vec \in Seq(Int) /\ DOMAIN vec = DOMAIN s.values
      /\ \A k \in DOMAIN s.values : vec[k] \in element(s.values[k], s.type)
  BY TableFacts
<1>2. ASSUME s.type = "image", Fits(s) PROVE vec = [k \in DOMAIN s.values |-> normalize(s.values[k])]
  <2>1. \A k \in DOMAIN s.values : vec[k] = normalize(s.values[k])
    BY <1>1, <1>2 DEF Fits, element, to_pixel
  <2>2. vec = [k \in DOMAIN s.values |-> vec[k]]
    BY <1>1
  <2>3. QED
    BY <2>1, <2>2
<1>3. ASSUME s.type # "image", Fits(s)
      PROVE  Clamped(vec) = [k \in DOMAIN s.values |-> clamp(s.values[k], word_min, word_max)]
  <2>1. \A k \in DOMAIN s.values : vec[k] = s.values[k]
    BY <1>1, <1>3 DEF Fits, element, to_word_t
  <2>2. QED
    BY <1>1, <2>1 DEF Clamped
<1>4. QED
  BY <1>2, <1>3 DEF Agrees

LEMMA ClampedFacts ==
  ASSUME NEW vec \in Seq(Int)
  PROVE  Clamped(vec) \in Seq(Word) /\ Clamped(vec) \in Seq(Int)
<1>1. \A x \in Int : LET y == clamp(x, word_min, word_max) IN y \in Word /\ y \in Int
  BY WordAssumption DEF clamp, word_min, Word
<1>2. Len(vec) \in Nat /\ DOMAIN vec = 1 .. Len(vec) /\ \A i \in DOMAIN vec : vec[i] \in Int
  OBVIOUS
<1>3. Clamped(vec) \in [1 .. Len(vec) -> Word] /\ Clamped(vec) \in [1 .. Len(vec) -> Int]
  BY <1>1, <1>2 DEF Clamped
<1>4. QED
  BY <1>2, <1>3, FunctionIsSeq

(* The node in column c is given the script's list for it, converted.      *)
Given(vec, c, type) ==
  /\ Meant(c, type).type = type /\ Meant(c, type).values \in Seq(Int)
  /\ vec \in table_to_vector(Meant(c, type).values, type)

(* The lists handed over, for one kind of node.                            *)
LEMMA HandedOver ==
  ASSUME CustomInv, Shape, NEW type \in IoTypes, NEW vecs, FilledAll(vecs, type, Len(Listed)),
         NEW types \in [1 .. width -> Port]
  PROVE  LET e   == Erased(vecs, types, type)
             own == NodesOf(types, type)
         IN /\ e \in Seq(Seq(Int)) /\ Len(e) = Len(own)
            /\ \A k \in DOMAIN e : Given(e[k], own[k], type)
<1> DEFINE e   == Erased(vecs, types, type)
           own == NodesOf(types, type)
<1>1. vecs \in Seq(Seq(Int)) /\ Len(vecs) = width /\ DOMAIN types = 1 .. width /\ width \in Nat
  BY FunctionIsSeq DEF FilledAll, Shape
<1>2. /\ e \in Seq(Seq(Int)) /\ own \in Seq(1 .. width) /\ Len(e) = Len(own)
      /\ \A k \in DOMAIN own : e[k] = vecs[own[k]]
  BY <1>1, ErasedExact
<1> HIDE DEF e, own
<1>3. ASSUME NEW k \in DOMAIN e
      PROVE  Given(e[k], own[k], type)
  <2>1. k \in DOMAIN own /\ own[k] \in 1 .. width
    <3>1. DOMAIN e = 1 .. Len(e) /\ DOMAIN own = 1 .. Len(own)
      BY <1>2
    <3>2. k \in DOMAIN own
      BY <1>2, <3>1
    <3>3. QED
      BY <1>2, <3>1, <3>2, ElementOfSeq
  <2>2. FilledColumn(e[k], own[k], type, Len(Listed))
    BY <1>2, <2>1 DEF FilledAll
  <2>3. QED
    BY <2>2, MeantFacts DEF Given
<1>4. QED
  BY <1>2, <1>3 DEF e, own

LEMMA HandOverInv ==
  ASSUME CustomInv, HandOver
  PROVE  CustomInv'
<1>1. /\ script \in Scripts /\ UNCHANGED <<script, spec, call, left>>
      /\ call \in DOMAIN script.streams /\ call # "layout"
      /\ at = "filling" /\ left = <<>> /\ at' = "made" /\ Shape /\ Filled(Seen)
  BY DEF CustomInv, HandOver
<1>2. Seen = Len(Listed)
  BY <1>1, ListedFacts DEF Seen
<1>3. Shape' /\ width' = width /\ (WellFormed' <=> WellFormed) /\ WellFormed
  BY <1>1, LayoutKept DEF CustomInv, FailsForCause
<1> DEFINE ins == Erased(test.inputs, spec.inputs, "in")
           ns  == Erased(test.n_outputs, spec.outputs, "out")
           is  == Erased(test.i_outputs, spec.outputs, "image")
           Right(vecs, types, type) ==
             /\ vecs \in Seq(Seq(Int)) /\ Len(vecs) = Len(NodesOf(types, type))
             /\ \A k \in DOMAIN vecs : Given(vecs[k], NodesOf(types, type)[k], type)
           Reach(vecs, types, type) ==
             /\ Len(vecs) = Len(NodesOf(types, type))
             /\ \A k \in DOMAIN vecs : Agrees(vecs[k], Meant(NodesOf(types, type)[k], type))
<1>4. Right(ins, spec.inputs, "in") /\ Right(ns, spec.outputs, "out")
      /\ Right(is, spec.outputs, "image")
  <2>1. /\ spec.inputs \in [1 .. width -> Port] /\ spec.outputs \in [1 .. width -> Port]
        /\ {"in", "out", "image"} \subseteq IoTypes
    <3>1. {"null", "in"} \subseteq Port
      BY DEF Port, IoTypes
    <3>2. QED
      BY <1>1, <3>1 DEF Shape, IoTypes
  <2>2. /\ FilledAll(test.inputs, "in", Len(Listed))
        /\ FilledAll(test.n_outputs, "out", Len(Listed))
        /\ FilledAll(test.i_outputs, "image", Len(Listed))
    BY <1>1, <1>2 DEF Filled
  <2>3. QED
    BY <1>1, <2>1, <2>2, HandedOver
<1>5. test' = [inputs |-> clamp_test_values(ins), n_outputs |-> clamp_test_values(ns),
               i_outputs |-> is]
  BY DEF HandOver
<1>6. ASSUME NEW vecs, NEW types, NEW type \in {"in", "out"}, Right(vecs, types, type)
      PROVE  /\ clamp_test_values(vecs) \in Seq(Seq(Word))
             /\ clamp_test_values(vecs) \in Seq(Seq(Int))
             /\ Reach(clamp_test_values(vecs), types, type)
  <2> DEFINE cl == clamp_test_values(vecs)
  <2>1. cl = [k \in DOMAIN vecs |-> Clamped(vecs[k])]
    BY DEF clamp_test_values, Clamped
  <2>2. Len(vecs) \in Nat /\ DOMAIN vecs = 1 .. Len(vecs)
        /\ \A k \in DOMAIN vecs : vecs[k] \in Seq(Int)
    BY <1>6
  <2>3. cl \in [1 .. Len(vecs) -> Seq(Word)]
    BY <2>1, <2>2, ClampedFacts
  <2>4. cl \in [1 .. Len(vecs) -> Seq(Int)]
    BY <2>1, <2>2, ClampedFacts
  <2>5. /\ cl \in Seq(Seq(Word)) /\ cl \in Seq(Seq(Int)) /\ Len(cl) = Len(vecs)
        /\ DOMAIN cl = DOMAIN vecs
    BY <2>2, <2>3, <2>4, FunctionIsSeq
  <2> HIDE DEF cl
  <2>6. ASSUME NEW k \in DOMAIN cl PROVE Agrees(cl[k], Meant(NodesOf(types, type)[k], type))
    <3> DEFINE c == NodesOf(types, type)[k]
    <3>1. Given(vecs[k], c, type)
      BY <1>6, <2>5
    <3>2. cl[k] = Clamped(vecs[k])
      BY <2>1, <2>5
    <3> HIDE DEF c
    <3>3. Agrees(Clamped(vecs[k]), Meant(c, type))
      BY <3>1, TakenAgrees DEF Given
    <3>4. QED
      BY <3>2, <3>3 DEF c
  <2>7. QED
    BY <1>6, <2>5, <2>6 DEF cl
<1>7. Reach(is, spec.outputs, "image") /\ is \in Seq(Seq(Int))
      /\ \A k \in DOMAIN is : is[k] \in Seq(Colour)
  <2>1. ASSUME NEW k \in DOMAIN is
        PROVE  /\ Agrees(is[k], Meant(NodesOf(spec.outputs, "image")[k], "image"))
               /\ is[k] \in Seq(Colour)
    <3> DEFINE c == NodesOf(spec.outputs, "image")[k]
    <3>1. Given(is[k], c, "image")
      BY <1>4
    <3> HIDE DEF c, is
    <3>2. Agrees(is[k], Meant(c, "image"))
      BY <3>1, TakenAgrees DEF Given
    <3>3. is[k] \in Seq(Colour)
      BY <3>1, TableFacts DEF Given
    <3>4. QED
      BY <3>2, <3>3 DEF c
  <2>2. QED
    BY <1>4, <2>1
<1> HIDE DEF ins, ns, is, Right
<1>8. /\ clamp_test_values(ins) \in Seq(Seq(Word)) /\ clamp_test_values(ins) \in Seq(Seq(Int))
      /\ Reach(clamp_test_values(ins), spec.inputs, "in")
      /\ clamp_test_values(ns) \in Seq(Seq(Word)) /\ clamp_test_values(ns) \in Seq(Seq(Int))
      /\ Reach(clamp_test_values(ns), spec.outputs, "out")
  <2> HIDE DEF Reach
  <2>1. QED
    BY <1>4, <1>6
<1>9. /\ test'.inputs = clamp_test_values(ins) /\ test'.n_outputs = clamp_test_values(ns)
      /\ test'.i_outputs = is
      /\ test' \in [inputs : Seq(Seq(Int)), n_outputs : Seq(Seq(Int)), i_outputs : Seq(Seq(Int))]
  BY <1>5, <1>7, <1>8
<1>10. TypeOK'
  <2>1. \A x \in Range(test'.inputs) \cup Range(test'.n_outputs) : x \in Seq(Word)
    BY <1>8, <1>9 DEF Range
  <2>2. \A i \in Range(test'.i_outputs) : i \in Seq(Colour)
    BY <1>7, <1>9 DEF Range
  <2>3. QED
    BY <1>1, <2>1, <2>2 DEF TypeOK
<1>11. StreamsReachTheirNodes'
  <2>1. \A c, type : Meant(c, type)' = Meant(c, type)
    BY <1>1 DEF Meant
  <2>2. /\ Reach(test'.inputs, spec.inputs, "in")
        /\ Reach(test'.n_outputs, spec.outputs, "out")
        /\ Reach(test'.i_outputs, spec.outputs, "image")
    BY <1>7, <1>8, <1>9
  <2>3. QED
    BY <1>1, <2>1, <2>2 DEF StreamsReachTheirNodes
<1>12. FailsForCause'
  BY <1>1, <1>3 DEF FailsForCause
<1>13. QED
  BY <1>1, <1>3, <1>9, <1>10, <1>11, <1>12 DEF CustomInv

-----------------------------------------------------------------------------
(* The theorems                                                            *)

LEMMA CustomInvIsInductive == CustomInv /\ [Next]_vars => CustomInv'
<1> SUFFICES ASSUME CustomInv, [Next]_vars PROVE CustomInv'
  OBVIOUS
<1>1. CASE ReadLayout
  BY <1>1, ReadLayoutInv
<1>2. CASE PlaceStream
  BY <1>2, PlaceStreamInv
<1>3. CASE NewField
  BY <1>3, NewFieldInv
<1>4. CASE RandomTest
  BY <1>4, RandomTestInv
<1>5. CASE FillStream
  BY <1>5, FillStreamInv
<1>6. CASE HandOver
  BY <1>6, HandOverInv
<1>7. CASE UNCHANGED vars
  <2>1. Listed' = Listed /\ Laid' = Laid /\ Seen' = Seen /\ width' = width /\ Rows' = Rows
    BY <1>7 DEF vars, Listed, Laid, Seen, width, Rows
  <2>2. (LeftOver' <=> LeftOver) /\ (Shape' <=> Shape)
    BY <1>7 DEF vars, LeftOver, Shape, Seen, Listed, width, Rows, LayoutRefused
  <2>3. Placed(Seen)' <=> Placed(Seen)
    BY <1>7 DEF vars, Placed, PlacedOutput, Decides, Laid, Seen, Listed, width
  <2>4. Filled(Seen)' <=> Filled(Seen)
    BY <1>7 DEF vars, Filled, FilledAll, FilledColumn, IsFor, Seen, Listed, width
  <2>5. (TypeOK' <=> TypeOK) /\ (StreamsReachTheirNodes' <=> StreamsReachTheirNodes)
        /\ (FailsForCause' <=> FailsForCause)
    BY <1>7 DEF vars, TypeOK, StreamsReachTheirNodes, Meant, FailsForCause, WellFormed, width
  <2>6. QED
    BY <1>7, <2>2, <2>3, <2>4, <2>5 DEF vars, CustomInv
<1>8. QED
  BY <1>1, <1>2, <1>3, <1>4, <1>5, <1>6, <1>7 DEF Next

LEMMA CustomInvAlways == Spec => []CustomInv
<1>1. QED
  BY InitInv, CustomInvIsInductive, PTL DEF Spec

(* Whatever numbers, tiles and streams a script returns, every test handed *)
(* to the field holds words a node can hold and colours an image can show  *)
(* (table_to_vector, clamp_test_values).                                   *)
THEOREM CustomTestsFitTheirNodes == Spec => []TypeOK
<1>1. CustomInv => TypeOK
  BY DEF CustomInv
<1>2. QED
  BY <1>1, CustomInvAlways, PTL

(* For every layout, every list of streams, in any order and for as many   *)
(* columns as there are, the k-th list of a test is the list the script    *)
(* meant for the k-th node of its kind (custom_level::random_test).        *)
THEOREM CustomStreamsReachTheirNodes == Spec => []StreamsReachTheirNodes
<1>1. CustomInv => StreamsReachTheirNodes
  BY DEF CustomInv
<1>2. QED
  BY <1>1, CustomInvAlways, PTL

(* A script is refused exactly if what it returns is no level, and a seed  *)
(* exactly if one of its streams has no node to go to                      *)
(* (layout_from_script, the field's constructor, random_test).             *)
THEOREM CustomFailsForCause == Spec => []FailsForCause
<1>1. CustomInv => FailsForCause
  BY DEF CustomInv
<1>2. QED
  BY <1>1, CustomInvAlways, PTL
=============================================================================
