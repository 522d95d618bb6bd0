---------------------------- MODULE SharedLemmas ----------------------------
(***************************************************************************)
(* What the proofs of several components rest on: induction and recursion  *)
(* over the naturals, the elements of a set in order, and, for every       *)
(* canvas and palette, what a word does to an image node.                  *)
(***************************************************************************)
EXTENDS ImageOutput, Ordered, Sequences, TLAPS, FiniteSetTheorems, WellFoundedInduction

-----------------------------------------------------------------------------
(***************************************************************************)
(* Induction and recursion over the naturals.  The provers cannot be given *)
(* a predicate or a step as an operator, so both are sets here: what holds *)
(* of n is n \in T, and a step is a function of the position and what the  *)
(* recursion has reached there.                                            *)
(***************************************************************************)

(* Every nonempty set of naturals has a least element.                     *)
LEMMA LeastNat ==
  ASSUME NEW T, T \subseteq Nat, T # {}
  PROVE  \E x \in T : \A y \in T : x <= y
<1> DEFINE less == {ss \in Nat \X Nat : ss[1] < ss[2]}
<1>1. IsWellFoundedOn(less, Nat)
  BY NatLessThanWellFounded DEF OpToRel
<1>2. \A x, y \in Nat : y < x => <<y, x>> \in less
  OBVIOUS
<1> HIDE DEF less
<1>3. PICK x \in T : \A y \in T : ~ (<<y, x>> \in less)
  BY <1>1, WFMin
<1>4. ASSUME NEW y \in T PROVE x <= y
  <2>1. x \in Nat /\ y \in Nat
    OBVIOUS
  <2>2. ~ (y < x)
    BY <1>2, <1>3, <2>1
  <2>3. QED
    BY <2>1, <2>2
<1>5. QED
  BY <1>4

(* A set that holds 0, and with n holds n + 1, holds every natural.        *)
LEMMA NatSetInduction ==
  ASSUME NEW T, 0 \in T, \A n \in Nat : n \in T => n + 1 \in T
  PROVE  \A n \in Nat : n \in T
<1> SUFFICES ASSUME Nat \ T # {} PROVE FALSE
  OBVIOUS
<1>1. PICK x \in Nat \ T : \A y \in Nat \ T : x <= y
  BY LeastNat
<1>2. x # 0 /\ x - 1 \in Nat
  BY <1>1
<1>3. x - 1 \in T
  BY <1>1, <1>2
<1>4. (x - 1) + 1 \in T
  BY <1>2, <1>3
<1>5. QED
  BY <1>1, <1>4

(* g is the solution of a recursion as far as n.                           *)
IsStart(g, n, base, step) ==
  /\ g[0] = base
  /\ \A m \in 1 .. n : g[m] = step[<<m, g[m - 1]>>]

LEMMA StartsExist ==
  ASSUME NEW S, NEW base \in S, NEW N \in Nat, NEW step \in [(1 .. N) \X S -> S],
         NEW n \in Nat, n <= N
  PROVE  \E g \in [0 .. n -> S] : IsStart(g, n, base, step)
<1> DEFINE T == {m \in Nat : m <= N => \E g \in [0 .. m -> S] : IsStart(g, m, base, step)}
<1>1. 0 \in T
  <2> DEFINE h == [m \in 0 .. 0 |-> base]
  <2>1. h \in [0 .. 0 -> S] /\ IsStart(h, 0, base, step)
    BY DEF IsStart
  <2>2. QED
    BY <2>1
<1>2. ASSUME NEW k \in Nat, k \in T PROVE k + 1 \in T
  <2> SUFFICES ASSUME k + 1 <= N
               PROVE  \E g \in [0 .. k + 1 -> S] : IsStart(g, k + 1, base, step)
    OBVIOUS
  <2>1. PICK g \in [0 .. k -> S] : IsStart(g, k, base, step)
    BY <1>2
  <2> DEFINE h == [m \in 0 .. k + 1 |-> IF m = k + 1 THEN step[<<k + 1, g[k]>>] ELSE g[m]]
  <2>2. step[<<k + 1, g[k]>>] \in S
    BY <2>1
  <2>3. h \in [0 .. k + 1 -> S]
    BY <2>1, <2>2
  <2>4. h[0] = base
    BY <2>1 DEF IsStart
  <2>5. ASSUME NEW m \in 1 .. k + 1 PROVE h[m] = step[<<m, h[m - 1]>>]
    <3>1. CASE m = k + 1
      BY <3>1
    <3>2. CASE m # k + 1
      <4>1. /\ m \in 1 .. k /\ m \in 0 .. k + 1
            /\ m - 1 \in 0 .. k + 1 /\ m - 1 # k + 1
        BY <3>2
      <4>2. QED
        BY <2>1, <4>1, <3>2 DEF IsStart
    <3>3. QED
      BY <3>1, <3>2
  <2>6. IsStart(h, k + 1, base, step)
    BY <2>4, <2>5 DEF IsStart
  <2> HIDE DEF h
  <2>7. QED
    BY <2>3, <2>6
<1> HIDE DEF T
<1>3. n \in T
  BY <1>1, <1>2, NatSetInduction
<1>4. QED
  BY <1>3 DEF T

(* A recursion upwards over 0 .. N has a solution.                         *)
LEMMA RecursionExists ==
  ASSUME NEW S, NEW base \in S, NEW N \in Nat, NEW step \in [(1 .. N) \X S -> S]
  PROVE  \E f \in [0 .. N -> S] : IsStart(f, N, base, step)
<1>1. N <= N
  OBVIOUS
<1>2. QED
  BY <1>1, StartsExist

(* And so has one downwards over 1 .. N + 1.                               *)
IsDown(f, N, base, step) ==
  f[N + 1] = base /\ \A c \in 1 .. N : f[c] = step[<<c, f[c + 1]>>]

LEMMA DownwardRecursionExists ==
  ASSUME NEW S, NEW base \in S, NEW N \in Nat, NEW step \in [(1 .. N) \X S -> S]
  PROVE  \E f \in [1 .. N + 1 -> S] : IsDown(f, N, base, step)
<1> DEFINE up == [ns \in (1 .. N) \X S |-> step[<<N + 1 - ns[1], ns[2]>>]]
<1>1. up \in [(1 .. N) \X S -> S]
  <2>1. ASSUME NEW ns \in (1 .. N) \X S
        PROVE  <<N + 1 - ns[1], ns[2]>> \in (1 .. N) \X S
    OBVIOUS
  <2>2. QED
    BY <2>1
<1>2. \A n \in 1 .. N : \A s \in S : up[<<n, s>>] = step[<<N + 1 - n, s>>]
  OBVIOUS
<1> HIDE DEF up
<1>3. PICK g \in [0 .. N -> S] : IsStart(g, N, base, up)
  <2>1. N <= N
    OBVIOUS
  <2>2. QED
    BY <1>1, <2>1, StartsExist
<1> DEFINE f == [c \in 1 .. N + 1 |-> g[N + 1 - c]]
<1>4. f \in [1 .. N + 1 -> S]
  OBVIOUS
<1>5. f[N + 1] = base
  BY <1>3 DEF IsStart
<1>6. ASSUME NEW c \in 1 .. N PROVE f[c] = step[<<c, f[c + 1]>>]
  <2>1. N + 1 - c \in 1 .. N /\ c + 1 \in 1 .. N + 1 /\ c \in 1 .. N + 1
    OBVIOUS
  <2>2. f[c] = up[<<N + 1 - c, g[(N + 1 - c) - 1]>>]
    BY <1>3, <2>1 DEF IsStart
  <2>3. N + 1 - (N + 1 - c) = c /\ (N + 1 - c) - 1 = N + 1 - (c + 1)
    OBVIOUS
  <2>4. f[c + 1] = g[N + 1 - (c + 1)] /\ g[N + 1 - (c + 1)] \in S
    BY <1>4, <2>1
  <2>5. QED
    BY <1>2, <2>1, <2>2, <2>3, <2>4
<1> HIDE DEF f
<1>7. QED
  BY <1>4, <1>5, <1>6 DEF IsDown

LEMMA FunctionIsSeq ==
  ASSUME NEW S, NEW n \in Nat, NEW f \in [1 .. n -> S]
  PROVE  f \in Seq(S) /\ Len(f) = n /\ DOMAIN f = 1 .. n
OBVIOUS

(***************************************************************************)
(* Elements in order.                                                      *)
(***************************************************************************)

LEMMA UpToFinite ==
  ASSUME NEW n \in Nat, NEW S \in SUBSET (1 .. n), NEW i \in Int
  PROVE  /\ IsFiniteSet(S) /\ Cardinality(S) \in Nat
         /\ IsFiniteSet(UpTo(S, i)) /\ Cardinality(UpTo(S, i)) \in Nat
         /\ UpTo(S, i) \subseteq S
         /\ Cardinality(UpTo(S, i)) <= Cardinality(S)
         /\ i \in S => Cardinality(UpTo(S, i)) \in 1 .. Cardinality(S)
<1>1. IsFiniteSet(1 .. n)
  BY FS_Interval
<1>2. IsFiniteSet(S) /\ Cardinality(S) \in Nat
  BY <1>1, FS_Subset, FS_CardinalityType
<1>3. UpTo(S, i) \subseteq S
  BY DEF UpTo
<1>4. /\ IsFiniteSet(UpTo(S, i)) /\ Cardinality(UpTo(S, i)) \in Nat
      /\ Cardinality(UpTo(S, i)) <= Cardinality(S)
  BY <1>2, <1>3, FS_Subset, FS_CardinalityType
<1>5. ASSUME i \in S PROVE Cardinality(UpTo(S, i)) # 0
  <2>1. i \in UpTo(S, i)
    BY <1>5 DEF UpTo
  <2>2. QED
    BY <1>4, <2>1, FS_EmptySet
<1>6. QED
  BY <1>2, <1>3, <1>4, <1>5

(* A later element has more elements up to it.                             *)
LEMMA UpToGrows ==
  ASSUME NEW n \in Nat, NEW S \in SUBSET (1 .. n), NEW i \in S, NEW j \in S, i < j
  PROVE  Cardinality(UpTo(S, i)) < Cardinality(UpTo(S, j))
<1>1. i \in Int /\ j \in Int
  OBVIOUS
<1>2. IsFiniteSet(UpTo(S, j))
  BY <1>1, UpToFinite
<1>2a. \A e \in S : e <= i => e <= j
  BY <1>1
<1>2b. UpTo(S, i) \in SUBSET UpTo(S, j)
  BY <1>2a DEF UpTo
<1>3. j \in UpTo(S, j) /\ j \notin UpTo(S, i)
  BY <1>1 DEF UpTo
<1>4. UpTo(S, i) # UpTo(S, j)
  BY <1>3
<1>5. Cardinality(UpTo(S, i)) <= Cardinality(UpTo(S, j))
      /\ (Cardinality(UpTo(S, i)) = Cardinality(UpTo(S, j)) => UpTo(S, i) = UpTo(S, j))
  BY <1>2, <1>2b, FS_Subset
<1>6. Cardinality(UpTo(S, i)) \in Nat /\ Cardinality(UpTo(S, j)) \in Nat
  BY <1>1, UpToFinite
<1>7. QED
  BY <1>4, <1>5, <1>6

(* The elements have all the ranks there are.                              *)
LEMMA RanksExist ==
  ASSUME NEW n \in Nat, NEW S \in SUBSET (1 .. n), NEW k \in 1 .. Cardinality(S)
  PROVE  \E i \in S : Cardinality(UpTo(S, i)) = k
<1> DEFINE T == {m \in Nat : \A R \in SUBSET (1 .. m) : \A h \in 1 .. Cardinality(R) :
                                \E i \in R : Cardinality(UpTo(R, i)) = h}
<1>1. 0 \in T
  <2> SUFFICES ASSUME NEW R \in SUBSET (1 .. 0), NEW h \in 1 .. Cardinality(R)
               PROVE  FALSE
    OBVIOUS
  <2>1. R = {}
    OBVIOUS
  <2>2. Cardinality(R) = 0
    BY <2>1, FS_EmptySet
  <2>3. QED
    BY <2>2
<1>2. ASSUME NEW m \in Nat, m \in T PROVE m + 1 \in T
  <2> SUFFICES ASSUME NEW R \in SUBSET (1 .. m + 1), NEW h \in 1 .. Cardinality(R)
               PROVE  \E i \in R : Cardinality(UpTo(R, i)) = h
    OBVIOUS
  <2> DEFINE Q == R \ {m + 1}
  <2>1. Q \in SUBSET (1 .. m)
    OBVIOUS
  <2>2. \A g \in 1 .. Cardinality(Q) : \E i \in Q : Cardinality(UpTo(Q, i)) = g
    BY <1>2, <2>1
  <2>3. \A i \in Q : UpTo(Q, i) = UpTo(R, i)
    BY <2>1 DEF UpTo
  <2>4. IsFiniteSet(R) /\ IsFiniteSet(Q) /\ Cardinality(R) \in Nat /\ Cardinality(Q) \in Nat
    <3>1. m + 1 \in Nat /\ 0 \in Int
      OBVIOUS
    <3>2. QED
      BY <2>1, <3>1, UpToFinite
  <2>5. CASE m + 1 \notin R
    <3>1. Q = R
      BY <2>5
    <3>2. QED
      BY <2>2, <3>1
  <2>6. CASE m + 1 \in R
    <3>1. Cardinality(Q) = Cardinality(R) - 1
      BY <2>4, <2>6, FS_RemoveElement
    <3>2. CASE h = Cardinality(R)
      <4>1. \A e \in R : e <= m + 1
        OBVIOUS
      <4>2. UpTo(R, m + 1) = R
        BY <4>1 DEF UpTo
      <4>3. QED
        BY <2>6, <3>2, <4>2
    <3>3. CASE h # Cardinality(R)
      <4>1. h \in 1 .. Cardinality(Q)
        BY <2>4, <3>1, <3>3
      <4>2. PICK i \in Q : Cardinality(UpTo(Q, i)) = h
        BY <2>2, <4>1
      <4>3. QED
        BY <2>3, <4>2
    <3>4. QED
      BY <3>2, <3>3
  <2>7. QED
    BY <2>5, <2>6
<1> HIDE DEF T
<1>3. n \in T
  BY <1>1, <1>2, NatSetInduction
<1>4. QED
  BY <1>3 DEF T

(* InOrder(S) lists the elements of S, each once, in order.                *)
LEMMA InOrderLists ==
  ASSUME NEW n \in Nat, NEW S \in SUBSET (1 .. n)
  PROVE  /\ InOrder(S) \in [1 .. Cardinality(S) -> S]
         /\ \A k \in 1 .. Cardinality(S) : Cardinality(UpTo(S, InOrder(S)[k])) = k
         /\ \A i \in S : InOrder(S)[Cardinality(UpTo(S, i))] = i
         /\ \A k, l \in 1 .. Cardinality(S) : k < l <=> InOrder(S)[k] < InOrder(S)[l]
<1> DEFINE N == Cardinality(S)
           Rank(i) == Cardinality(UpTo(S, i))
<1>0. N \in Nat
  <2>1. 0 \in Int
    OBVIOUS
  <2>2. QED
    BY <2>1, UpToFinite
<1>1. \A k \in 1 .. N : \E i \in S : Rank(i) = k
  BY RanksExist
<1>2. \A i \in S : Rank(i) \in 1 .. N
  <2>1. \A i \in S : i \in Int
    OBVIOUS
  <2>2. QED
    BY <2>1, UpToFinite
<1>3. \A i, j \in S : i < j => Rank(i) < Rank(j)
  BY UpToGrows
<1> DEFINE f == [k \in 1 .. N |-> CHOOSE i \in S : Rank(i) = k]
<1>4. InOrder(S) = f
  BY DEF InOrder
<1> HIDE DEF Rank, N
<1>5. \A k \in 1 .. N : f[k] \in S /\ Rank(f[k]) = k
  BY <1>1
<1>6. f \in [1 .. N -> S]
  BY <1>5
<1> HIDE DEF f
<1>7. \A i, j \in S : Rank(i) = Rank(j) => i = j
  BY <1>2, <1>3
<1>8. \A i \in S : f[Rank(i)] = i
  BY <1>2, <1>5, <1>7
<1>9. \A k, l \in 1 .. N : k < l <=> f[k] < f[l]
  <2> SUFFICES ASSUME NEW k \in 1 .. N, NEW l \in 1 .. N
               PROVE  k < l <=> f[k] < f[l]
    OBVIOUS
  <2>0. /\ f[k] \in S /\ f[l] \in S /\ Rank(f[k]) = k /\ Rank(f[l]) = l
    BY <1>5
  <2>1. f[k] \in Int /\ f[l] \in Int
    <3>1. S \subseteq Int
      OBVIOUS
    <3>2. QED
      BY <2>0, <3>1
  <2>2. /\ f[k] < f[l] => k < l
        /\ f[l] < f[k] => l < k
        /\ f[k] = f[l] => k = l
    BY <1>3, <2>0, <2>1
  <2>3. QED
    BY <1>0, <2>1, <2>2
<1>10. QED
  BY <1>4, <1>5, <1>6, <1>8, <1>9 DEF Rank, N

LEMMA InOrderIsSeq ==
  ASSUME NEW n \in Nat, NEW S \in SUBSET (1 .. n)
  PROVE  /\ Cardinality(S) \in Nat
         /\ InOrder(S) \in Seq(1 .. n) /\ Len(InOrder(S)) = Cardinality(S)
         /\ DOMAIN InOrder(S) = 1 .. Cardinality(S)
         /\ \A k \in 1 .. Cardinality(S) : InOrder(S)[k] \in S
<1>1. Cardinality(S) \in Nat
  <2>1. 0 \in Int
    OBVIOUS
  <2>2. QED
    BY <2>1, UpToFinite
<1>2. InOrder(S) \in [1 .. Cardinality(S) -> S]
  BY InOrderLists
<1>3. InOrder(S) \in [1 .. Cardinality(S) -> 1 .. n]
  BY <1>2
<1>4. QED
  BY <1>1, <1>2, <1>3, FunctionIsSeq

-----------------------------------------------------------------------------
(* Image nodes                                                             *)

ImageType ==
  [image_received : Picture, wrong_pixels : Int, c_x : Int, c_y : Int]

(* The counter of the node i is right for the picture expected.            *)
Exact(i, expected) ==
  i.wrong_pixels = Cardinality(Differing(i.image_received, expected))

LEMMA DifferingFinite ==
  ASSUME NEW p, NEW q
  PROVE  /\ IsFiniteSet(Differing(p, q))
         /\ Cardinality(Differing(p, q)) \in Nat
<1>1. IsFiniteSet(Pixels)
  <2>1. IsFiniteSet(0 .. ImageWidth - 1) /\ IsFiniteSet(0 .. ImageHeight - 1)
    BY ImageAssumption, FS_Interval
  <2>2. QED
    BY <2>1, FS_Product DEF Pixels
<1>2. QED
  BY <1>1, FS_Subset, FS_CardinalityType DEF Differing

(* No pixel is wrong exactly when the pictures agree.                      *)
LEMMA NoneDiffers ==
  ASSUME NEW p \in Picture, NEW q \in Picture
  PROVE  Cardinality(Differing(p, q)) = 0 <=> p = q
<1>1. Cardinality(Differing(p, q)) = 0 <=> Differing(p, q) = {}
  BY DifferingFinite, FS_EmptySet
<1>2. Differing(p, q) = {} <=> \A xy \in Pixels : p[xy] = q[xy]
  BY DEF Differing
<1>3. (\A xy \in Pixels : p[xy] = q[xy]) <=> p = q
  BY DEF Picture
<1>4. QED
  BY <1>1, <1>2, <1>3

LEMMA ImageResetExact ==
  ASSUME NEW expected
  PROVE  ImageReset(expected) \in ImageType /\ Exact(ImageReset(expected), expected)
<1>1. [xy \in Pixels |-> C_black] \in Picture
  BY ImageAssumption DEF Picture, Colour, C_black
<1>2. word_empty \in Int
  BY WordAssumption DEF word_empty
<1>3. QED
  BY <1>1, <1>2, DifferingFinite DEF ImageReset, ImageType, Exact

-----------------------------------------------------------------------------
(* image_output::poke                                                      *)

(* Off the canvas nothing happens; on it one pixel changes, and the        *)
(* counter takes one if it was right before and gives one if it is now.    *)
LEMMA PokeEffect ==
  ASSUME NEW i \in ImageType, NEW expected, NEW r
  PROVE  LET xy == <<i.c_x, i.c_y>>
             c  == normalize(r)
             j  == Poke(i, expected, r)
         IN /\ xy \notin Pixels => j = i
            /\ xy \in Pixels =>
                 /\ j.image_received = [i.image_received EXCEPT ![xy] = c]
                 /\ j.wrong_pixels =
                      i.wrong_pixels
                        + (IF i.image_received[xy] = expected[xy] THEN 1 ELSE 0)
                        - (IF c = expected[xy] THEN 1 ELSE 0)
            /\ j.c_x = i.c_x /\ j.c_y = i.c_y
            /\ c \in Colour
            /\ j \in ImageType
<1> DEFINE xy == <<i.c_x, i.c_y>>
           c  == normalize(r)
           k  == i.wrong_pixels
                   + (IF i.image_received[xy] = expected[xy] THEN 1 ELSE 0)
                   - (IF c = expected[xy] THEN 1 ELSE 0)
           p  == [i.image_received EXCEPT ![xy] = c]
<1>1. c \in Colour
  BY ImageAssumption DEF normalize, Colour, C_black
<1>2. k \in Int
  BY DEF ImageType
<1>3. p \in Picture
  BY <1>1 DEF ImageType, Picture
<1>4. Poke(i, expected, r) =
        IF xy \notin Pixels THEN i
        ELSE [i EXCEPT !.image_received = p, !.wrong_pixels = k]
  BY DEF Poke, ImageType
<1> HIDE DEF c, k, p
<1>5. /\ xy \in Pixels =>
           /\ Poke(i, expected, r).image_received = p
           /\ Poke(i, expected, r).wrong_pixels = k
      /\ Poke(i, expected, r).c_x = i.c_x /\ Poke(i, expected, r).c_y = i.c_y
      /\ Poke(i, expected, r) \in ImageType
  BY <1>2, <1>3, <1>4 DEF ImageType
<1>6. QED
  BY <1>1, <1>4, <1>5 DEF c, k, p

LEMMA PokeExact ==
  ASSUME NEW i \in ImageType, NEW expected, NEW r, Exact(i, expected)
  PROVE  Exact(Poke(i, expected, r), expected)
<1> DEFINE xy == <<i.c_x, i.c_y>>
           c  == normalize(r)
           p  == i.image_received
           q  == Poke(i, expected, r).image_received
           D  == Differing(p, expected)
           E  == Differing(q, expected)
<1>1. CASE xy \notin Pixels
  <2>1. Poke(i, expected, r) = i
    BY <1>1 DEF Poke
  <2>2. QED
    BY <2>1
<1>2. CASE xy \in Pixels
  <2>1. /\ q = [p EXCEPT ![xy] = c]
        /\ Poke(i, expected, r).wrong_pixels =
              Cardinality(D) + (IF p[xy] = expected[xy] THEN 1 ELSE 0)
                             - (IF c = expected[xy] THEN 1 ELSE 0)
    BY <1>2, PokeEffect DEF Exact
  <2>2. p \in Picture
    BY DEF ImageType
  <2>3. q[xy] = c /\ \A z \in Pixels \ {xy} : q[z] = p[z]
    BY <1>2, <2>1, <2>2 DEF Picture
  <2>4. IsFiniteSet(D) /\ Cardinality(D) \in Nat
    BY DifferingFinite
  <2> HIDE DEF xy, c, p, q
  <2>5. /\ p[xy] = expected[xy] <=> xy \notin D
        /\ c # expected[xy] => E = D \cup {xy}
        /\ c = expected[xy] => E = D \ {xy}
    BY <1>2, <2>3 DEF Differing
  <2> HIDE DEF D, E
  <2>6. /\ c # expected[xy] =>
             Cardinality(E) = IF xy \in D THEN Cardinality(D) ELSE Cardinality(D) + 1
        /\ c = expected[xy] =>
             Cardinality(E) = IF xy \in D THEN Cardinality(D) - 1 ELSE Cardinality(D)
    BY <2>4, <2>5, FS_AddElement, FS_RemoveElement
  <2>7. Poke(i, expected, r).wrong_pixels = Cardinality(E)
    BY <2>1, <2>4, <2>5, <2>6
  <2>8. QED
    BY <2>7 DEF Exact, E, q
<1>3. QED
  BY <1>1, <1>2

-----------------------------------------------------------------------------
(* image_output::step, once a word has been read                           *)

LEMMA ImageReadType ==
  ASSUME NEW i \in ImageType, NEW expected, NEW r \in Int
  PROVE  ImageRead(i, expected, r) \in ImageType
<1>1. word_empty \in Int /\ \A v \in Int : increment16(v) \in Int
  BY WordAssumption DEF word_empty, increment16
<1>2. Poke(i, expected, r) \in ImageType
  BY PokeEffect
<1>3. QED
  BY <1>1, <1>2 DEF ImageRead, ImageType

LEMMA ImageReadExact ==
  ASSUME NEW i \in ImageType, NEW expected, NEW r, Exact(i, expected)
  PROVE  Exact(ImageRead(i, expected, r), expected)
<1>1. Poke(i, expected, r) \in ImageType /\ Exact(Poke(i, expected, r), expected)
  BY PokeEffect, PokeExact
<1>2. QED
  BY <1>1 DEF ImageRead, Exact, ImageType
=============================================================================
