--------------------------- MODULE FieldBuild_proofs ---------------------------
(***************************************************************************)
(* Proofs about bricks and fields, for any number of dimensions, lengths   *)
(* and bricks: what an intersection is and how many elements a brick has,  *)
(* that a field is accepted exactly when its bricks tile the index space,  *)
(* and that a contiguous brick can be copied as it lies.                   *)
(***************************************************************************)
EXTENDS FieldBuild, FiniteSetTheorems, TLAPS

D == 1 .. Len(Lengths)

LEMMA VectorFacts ==
  ASSUME NEW v \in Vectors
  PROVE  v \in Seq(Nat) /\ Len(v) = Len(Lengths) /\ DOMAIN v = D /\ \A d \in D : v[d] \in Nat
  BY DEF Vectors, D

\* What has the bounds of a brick.
HasBounds(b) == b.lower \in Vectors /\ b.upper \in Vectors

LEMMA BoundsFacts ==
  ASSUME NEW b, HasBounds(b)
  PROVE  Dims(b) = D /\ \A d \in D : b.lower[d] \in Nat /\ b.upper[d] \in Nat
  BY VectorFacts DEF HasBounds, Dims, D

LEMMA BrickHasBounds ==
  ASSUME NEW b \in AllBricks
  PROVE  b \in Brick /\ HasBounds(b)
  BY FieldAssumption DEF Brick, HasBounds

\* So has the brick that is the whole field.
LEMMA WholeHasBounds ==
  LET w == WholeField(Lengths)
  IN  HasBounds(w) /\ \A d \in D : w.lower[d] = 0 /\ w.upper[d] = Lengths[d]
  <1> DEFINE w == WholeField(Lengths)
  <1>1. w.lower = [d \in D |-> 0] /\ w.upper = Lengths
    BY DEF WholeField, D
  <1>2. Len(Lengths) \in Nat /\ Lengths \in Vectors
    BY FieldAssumption DEF Vectors
  <1>3. [d \in D |-> 0] \in Vectors
    BY <1>2 DEF Vectors, D
  <1> HIDE DEF w
  <1>4. HasBounds(w) /\ \A d \in D : w.lower[d] = 0 /\ w.upper[d] = Lengths[d]
    BY <1>1, <1>2, <1>3 DEF HasBounds
  <1> QED
    BY <1>4 DEF w

\* A coordinate of a brick is between its bounds in every dimension, and
\* nothing else is.
LEMMA CoordsAre ==
  ASSUME NEW b, Dims(b) = D, \A d \in D : b.lower[d] \in Int /\ b.upper[d] \in Int, NEW c
  PROVE  c \in Coords(b) <=>
           /\ c \in [D -> Int]
           /\ \A d \in D : b.lower[d] <= c[d] /\ c[d] < b.upper[d]
  <1>1. ASSUME c \in Coords(b)
        PROVE  c \in [D -> Int] /\ \A d \in D : b.lower[d] <= c[d] /\ c[d] < b.upper[d]
    <2>1. /\ c \in [D -> UNION {b.lower[d] .. (b.upper[d] - 1) : d \in D}]
          /\ \A d \in D : b.lower[d] <= c[d] /\ c[d] < b.upper[d]
      BY <1>1 DEF Coords
    <2>2. \A n \in UNION {b.lower[d] .. (b.upper[d] - 1) : d \in D} : n \in Int
      OBVIOUS
    <2> QED
      BY <2>1, <2>2
  <1>2. ASSUME c \in [D -> Int], \A d \in D : b.lower[d] <= c[d] /\ c[d] < b.upper[d]
        PROVE  c \in Coords(b)
    <2>1. \A d \in D : c[d] \in b.lower[d] .. (b.upper[d] - 1)
      BY <1>2
    <2>2. \A d \in D : c[d] \in UNION {b.lower[e] .. (b.upper[e] - 1) : e \in D}
      BY <2>1
    <2>3. c \in [D -> UNION {b.lower[d] .. (b.upper[d] - 1) : d \in D}]
      BY <1>2, <2>2
    <2> QED
      BY <1>2, <2>3 DEF Coords
  <1> QED
    BY <1>1, <1>2

------------------------------------------------------------------------------
(* Intersections *)

LEMMA IntersectBounds ==
  ASSUME NEW b \in Brick, NEW c, HasBounds(c)
  PROVE  /\ Dims(b) = D /\ HasBounds(Intersect(b, c))
         /\ Intersect(b, c).lower = [d \in D |-> MaxOf(b.lower[d], c.lower[d])]
         /\ Intersect(b, c).upper = [d \in D |-> MinOf(b.upper[d], c.upper[d])]
  <1>1. HasBounds(b) /\ Dims(b) = D
    BY BoundsFacts DEF Brick, HasBounds
  <1>2. /\ Intersect(b, c).lower = [d \in D |-> MaxOf(b.lower[d], c.lower[d])]
        /\ Intersect(b, c).upper = [d \in D |-> MinOf(b.upper[d], c.upper[d])]
    BY <1>1 DEF Intersect, Brick
  <1>3. \A d \in D : MaxOf(b.lower[d], c.lower[d]) \in Nat /\ MinOf(b.upper[d], c.upper[d]) \in Nat
    BY <1>1, BoundsFacts DEF MaxOf, MinOf
  <1>4. Len(Lengths) \in Nat
    BY FieldAssumption
  <1>5. /\ [d \in D |-> MaxOf(b.lower[d], c.lower[d])] \in Vectors
        /\ [d \in D |-> MinOf(b.upper[d], c.upper[d])] \in Vectors
    BY <1>3, <1>4 DEF Vectors, D
  <1> QED
    BY <1>1, <1>2, <1>5 DEF HasBounds

\* rocfft_brick_t::intersect gives the coordinates that two bricks share.
LEMMA IntersectIsCommon ==
  ASSUME NEW b \in Brick, NEW c, HasBounds(c)
  PROVE  Coords(Intersect(b, c)) = Coords(b) \cap Coords(c)
  <1> DEFINE m == Intersect(b, c)
  <1>0. HasBounds(b) /\ HasBounds(m)
    BY IntersectBounds DEF Brick, HasBounds
  <1>1. /\ Dims(m) = D /\ \A d \in D : m.lower[d] \in Nat /\ m.upper[d] \in Nat
        /\ \A d \in D : /\ m.lower[d] = MaxOf(b.lower[d], c.lower[d])
                        /\ m.upper[d] = MinOf(b.upper[d], c.upper[d])
    <2>1. Dims(m) = D /\ \A d \in D : m.lower[d] \in Nat /\ m.upper[d] \in Nat
      BY <1>0, BoundsFacts
    <2>2. /\ m.lower = [d \in D |-> MaxOf(b.lower[d], c.lower[d])]
          /\ m.upper = [d \in D |-> MinOf(b.upper[d], c.upper[d])]
      BY IntersectBounds
    <2> HIDE DEF m
    <2> QED
      BY <2>1, <2>2
  <1>2. /\ Dims(b) = D /\ Dims(c) = D
        /\ \A d \in D : b.lower[d] \in Nat /\ b.upper[d] \in Nat /\ c.lower[d] \in Nat /\ c.upper[d] \in Nat
    BY <1>0, BoundsFacts
  <1> HIDE DEF m
  <1>3. ASSUME NEW x
        PROVE  x \in Coords(m) <=> x \in Coords(b) /\ x \in Coords(c)
    <2>1. x \in Coords(m) <=> /\ x \in [D -> Int]
                              /\ \A d \in D : m.lower[d] <= x[d] /\ x[d] < m.upper[d]
      BY <1>1, CoordsAre
    <2>2. x \in Coords(b) <=> /\ x \in [D -> Int]
                              /\ \A d \in D : b.lower[d] <= x[d] /\ x[d] < b.upper[d]
      BY <1>2, CoordsAre
    <2>3. x \in Coords(c) <=> /\ x \in [D -> Int]
                              /\ \A d \in D : c.lower[d] <= x[d] /\ x[d] < c.upper[d]
      BY <1>2, CoordsAre
    <2>4. ASSUME x \in [D -> Int], NEW d \in D
          PROVE  m.lower[d] <= x[d] /\ x[d] < m.upper[d] <=>
                   /\ b.lower[d] <= x[d] /\ x[d] < b.upper[d]
                   /\ c.lower[d] <= x[d] /\ x[d] < c.upper[d]
      BY <1>1, <1>2, <2>4 DEF MaxOf, MinOf
    <2> QED
      BY <2>1, <2>2, <2>3, <2>4
  <1> QED
    BY <1>3 DEF m

\* The overlap of no two bricks is a multiple of 2^IntBits long: what empty()
\* stores in an int is 0 for no length but 0.
OverlapsFit ==
  \A b, c \in AllBricks : \A d \in Dims(b) :
    ToInt(Length(Intersect(b, c))[d]) = 0 <=> Length(Intersect(b, c))[d] = 0

\* A brick that empty() says is empty has no coordinates.
LEMMA EmptyHasNone ==
  ASSUME OverlapsFit, NEW b \in AllBricks, NEW c \in AllBricks, Empty(Intersect(b, c))
  PROVE  Coords(b) \cap Coords(c) = {}
  <1> DEFINE m == Intersect(b, c)
  <1>1. b \in Brick /\ HasBounds(c)
    BY BrickHasBounds
  <1>2. Dims(b) = D /\ HasBounds(m)
    BY <1>1, IntersectBounds
  <1>3. Dims(m) = D /\ \A d \in D : m.lower[d] \in Nat /\ m.upper[d] \in Nat
    BY <1>2, BoundsFacts
  <1>4. PICK d \in D : Length(m)[d] = 0
    BY <1>2, <1>3 DEF Empty, OverlapsFit
  <1>5. ~(m.upper[d] > m.lower[d])
    BY <1>3, <1>4 DEF Length
  <1>6. ASSUME NEW x \in Coords(m)
        PROVE  FALSE
    <2>1. x \in [D -> Int] /\ m.lower[d] <= x[d] /\ x[d] < m.upper[d]
      BY <1>3, <1>6, CoordsAre
    <2> QED
      BY <1>3, <1>5, <2>1
  <1> QED
    BY <1>1, <1>6, IntersectIsCommon

\* A brick that ValidateFields finds inside the field is.
LEMMA EqualIsInside ==
  ASSUME NEW b \in AllBricks, EqualCoords(b, Intersect(b, WholeField(Lengths)))
  PROVE  Coords(b) \subseteq Coords(WholeField(Lengths))
  <1> DEFINE w == WholeField(Lengths)
  <1>1. b \in Brick /\ HasBounds(b) /\ HasBounds(w)
    BY BrickHasBounds, WholeHasBounds
  <1>2. HasBounds(Intersect(b, w))
    BY <1>1, IntersectBounds
  <1>3. \A x : x \in Coords(b) <=> x \in Coords(Intersect(b, w))
    <2>1. b.lower = Intersect(b, w).lower /\ b.upper = Intersect(b, w).upper
      BY DEF EqualCoords
    <2> HIDE DEF w
    <2> QED
      BY <2>1 DEF Coords, Dims
  <1> HIDE DEF w
  <1>4. Coords(b) = Coords(b) \cap Coords(w)
    BY <1>1, <1>3, IntersectIsCommon
  <1> QED
    BY <1>4 DEF w

------------------------------------------------------------------------------
(* Induction *)

\* A set of numbers has a least one.
LEMMA LeastNumber ==
  ASSUME NEW T, T \subseteq Nat, T # {}
  PROVE  \E x \in T : \A y \in T : x <= y
  <1>1. PICK x \in T : \A y \in T : ~(<<y, x>> \in OpToRel(<, Nat))
    BY NatLessThanWellFounded, WFMin
  <1>2. \A y \in T : ~(y < x)
    BY <1>1 DEF OpToRel
  <1> QED
    BY <1>2

\* A set that has 0 and with every number its successor has them all.
LEMMA SetInduction ==
  ASSUME NEW S, 0 \in S, \A n \in Nat : n \in S => n + 1 \in S
  PROVE  \A n \in Nat : n \in S
  <1> DEFINE T == Nat \ S
  <1>1. SUFFICES ASSUME T # {} PROVE FALSE
    BY DEF T
  <1>2. PICK x \in T : \A y \in T : x <= y
    BY <1>1, LeastNumber
  <1>3. x # 0 /\ x \in Nat /\ x - 1 \in Nat
    BY <1>2 DEF T
  <1>4. x - 1 \in S
    BY <1>2, <1>3 DEF T
  <1>5. (x - 1) + 1 = x
    BY <1>3
  <1> QED
    BY <1>2, <1>3, <1>4, <1>5 DEF T
------------------------------------------------------------------------------
(* Sums and products *)

\* The recursive functions of SumOf and Product exist, for every length.
LEMMA SumExists ==
  ASSUME NEW v \in Seq(Int)
  PROVE  \E f : f = [i \in 0 .. Len(v) |-> IF i = 0 THEN 0 ELSE f[i - 1] + v[i]]
  <1> DEFINE Good(n) == \E f : f = [i \in 0 .. n |-> IF i = 0 THEN 0 ELSE f[i - 1] + v[i]]
             G == {n \in Nat : Good(n)}
  <1>1. 0 \in G
    <2>1. [i \in 0 .. 0 |-> 0] =
            [i \in 0 .. 0 |-> IF i = 0 THEN 0 ELSE [j \in 0 .. 0 |-> 0][i - 1] + v[i]]
      OBVIOUS
    <2> QED
      BY <2>1
  <1>2. ASSUME NEW n \in Nat, n \in G
        PROVE  n + 1 \in G
    <2>1. PICK f : f = [i \in 0 .. n |-> IF i = 0 THEN 0 ELSE f[i - 1] + v[i]]
      BY <1>2
    <2> DEFINE g == [i \in 0 .. (n + 1) |-> IF i <= n THEN f[i] ELSE f[n] + v[n + 1]]
    <2>2. ASSUME NEW i \in 0 .. (n + 1)
          PROVE  g[i] = IF i = 0 THEN 0 ELSE g[i - 1] + v[i]
      <3>1. CASE i = 0
        BY <2>1, <3>1
      <3>2. CASE i \in 1 .. n
        <4>1. f[i] = f[i - 1] + v[i]
          BY <2>1, <3>2
        <4>2. g[i] = f[i] /\ g[i - 1] = f[i - 1]
          BY <3>2
        <4> QED
          BY <3>2, <4>1, <4>2
      <3>3. CASE i = n + 1
        <4>1. g[i] = f[n] + v[n + 1] /\ g[n] = f[n] /\ i - 1 = n /\ i # 0
          BY <3>3
        <4> QED
          BY <3>3, <4>1
      <3> QED
        BY <3>1, <3>2, <3>3
    <2>3. g = [i \in 0 .. (n + 1) |-> IF i = 0 THEN 0 ELSE g[i - 1] + v[i]]
      BY <2>2
    <2> HIDE DEF g
    <2>4. Good(n + 1)
      BY <2>3
    <2>5. n + 1 \in Nat
      OBVIOUS
    <2> HIDE DEF Good
    <2> QED
      BY <2>4, <2>5
  <1> HIDE DEF G
  <1>3. \A n \in Nat : n \in G
    BY <1>1, <1>2, SetInduction
  <1>4. Len(v) \in G
    BY <1>3
  <1> QED
    BY <1>4 DEF G

LEMMA ProductExists ==
  ASSUME NEW v \in Seq(Nat)
  PROVE  \E f : f = [i \in 0 .. Len(v) |-> IF i = 0 THEN 1 ELSE f[i - 1] * v[i]]
  <1> DEFINE Good(n) == \E f : f = [i \in 0 .. n |-> IF i = 0 THEN 1 ELSE f[i - 1] * v[i]]
             G == {n \in Nat : Good(n)}
  <1>1. 0 \in G
    <2>1. [i \in 0 .. 0 |-> 1] =
            [i \in 0 .. 0 |-> IF i = 0 THEN 1 ELSE [j \in 0 .. 0 |-> 1][i - 1] * v[i]]
      OBVIOUS
    <2> QED
      BY <2>1
  <1>2. ASSUME NEW n \in Nat, n \in G
        PROVE  n + 1 \in G
    <2>1. PICK f : f = [i \in 0 .. n |-> IF i = 0 THEN 1 ELSE f[i - 1] * v[i]]
      BY <1>2
    <2> DEFINE g == [i \in 0 .. (n + 1) |-> IF i <= n THEN f[i] ELSE f[n] * v[n + 1]]
    <2>2. ASSUME NEW i \in 0 .. (n + 1)
          PROVE  g[i] = IF i = 0 THEN 1 ELSE g[i - 1] * v[i]
      <3>1. CASE i = 0
        BY <2>1, <3>1
      <3>2. CASE i \in 1 .. n
        <4>1. f[i] = f[i - 1] * v[i]
          BY <2>1, <3>2
        <4>2. g[i] = f[i] /\ g[i - 1] = f[i - 1]
          BY <3>2
        <4> QED
          BY <3>2, <4>1, <4>2
      <3>3. CASE i = n + 1
        <4>1. g[i] = f[n] * v[n + 1] /\ g[n] = f[n] /\ i - 1 = n /\ i # 0
          BY <3>3
        <4> QED
          BY <3>3, <4>1
      <3> QED
        BY <3>1, <3>2, <3>3
    <2>3. g = [i \in 0 .. (n + 1) |-> IF i = 0 THEN 1 ELSE g[i - 1] * v[i]]
      BY <2>2
    <2> HIDE DEF g
    <2>4. Good(n + 1)
      BY <2>3
    <2>5. n + 1 \in Nat
      OBVIOUS
    <2> HIDE DEF Good
    <2> QED
      BY <2>4, <2>5
  <1> HIDE DEF G
  <1>3. \A n \in Nat : n \in G
    BY <1>1, <1>2, SetInduction
  <1>4. Len(v) \in G
    BY <1>3
  <1> QED
    BY <1>4 DEF G

\* The partial sums of a vector.
SumsOf(S, v) ==
  /\ S \in [0 .. Len(v) -> Int] /\ S[0] = 0
  /\ \A i \in 1 .. Len(v) : S[i] = S[i - 1] + v[i]

LEMMA SumFacts ==
  ASSUME NEW v \in Seq(Int)
  PROVE  \E S : SumsOf(S, v) /\ SumOf(v) = S[Len(v)]
  <1> DEFINE Is(S) == S = [i \in 0 .. Len(v) |-> IF i = 0 THEN 0 ELSE S[i - 1] + v[i]]
             P == CHOOSE S : Is(S)
  <1>1. \E S : Is(S)
    BY SumExists
  <1> HIDE DEF Is
  <1>2. Is(P)
    BY <1>1
  <1>3. SumOf(v) = P[Len(v)]
    BY DEF SumOf, Is
  <1> HIDE DEF P
  <1>4. P = [i \in 0 .. Len(v) |-> IF i = 0 THEN 0 ELSE P[i - 1] + v[i]]
    BY <1>2 DEF Is
  <1>5. P[0] = 0 /\ \A i \in 1 .. Len(v) : P[i] = P[i - 1] + v[i]
    BY <1>4
  <1> DEFINE G == {n \in Nat : n <= Len(v) => P[n] \in Int}
  <1>6. 0 \in G
    BY <1>5
  <1>7. ASSUME NEW n \in Nat, n \in G
        PROVE  n + 1 \in G
    <2>1. n + 1 <= Len(v) => P[n + 1] = P[n] + v[n + 1] /\ v[n + 1] \in Int /\ P[n] \in Int
      BY <1>5, <1>7
    <2> QED
      BY <2>1
  <1> HIDE DEF G
  <1>8. \A n \in Nat : n \in G
    BY <1>6, <1>7, SetInduction
  <1>9. \A n \in 0 .. Len(v) : P[n] \in Int
    BY <1>8 DEF G
  <1>10. P \in [0 .. Len(v) -> Int]
    BY <1>4, <1>9
  <1> QED
    BY <1>3, <1>5, <1>10 DEF SumsOf

\* The partial products of a vector.
ProductsOf(P, v) ==
  /\ P \in [0 .. Len(v) -> Nat] /\ P[0] = 1
  /\ \A i \in 1 .. Len(v) : P[i] = P[i - 1] * v[i]

LEMMA ProductFacts ==
  ASSUME NEW v \in Seq(Nat)
  PROVE  \E P : ProductsOf(P, v) /\ Product(v) = P[Len(v)]
  <1> DEFINE Is(S) == S = [i \in 0 .. Len(v) |-> IF i = 0 THEN 1 ELSE S[i - 1] * v[i]]
             P == CHOOSE S : Is(S)
  <1>1. \E S : Is(S)
    BY ProductExists
  <1> HIDE DEF Is
  <1>2. Is(P)
    BY <1>1
  <1>3. Product(v) = P[Len(v)]
    BY DEF Product, Is
  <1> HIDE DEF P
  <1>4. P = [i \in 0 .. Len(v) |-> IF i = 0 THEN 1 ELSE P[i - 1] * v[i]]
    BY <1>2 DEF Is
  <1>5. P[0] = 1 /\ \A i \in 1 .. Len(v) : P[i] = P[i - 1] * v[i]
    BY <1>4
  <1> DEFINE G == {n \in Nat : n <= Len(v) => P[n] \in Nat}
  <1>6. 0 \in G
    BY <1>5
  <1>7. ASSUME NEW n \in Nat, n \in G
        PROVE  n + 1 \in G
    <2>1. n + 1 <= Len(v) => P[n + 1] = P[n] * v[n + 1] /\ v[n + 1] \in Nat /\ P[n] \in Nat
      BY <1>5, <1>7
    <2>2. \A x, y \in Nat : x * y \in Nat
      OBVIOUS
    <2> QED
      BY <2>1, <2>2
  <1> HIDE DEF G
  <1>8. \A n \in Nat : n \in G
    BY <1>6, <1>7, SetInduction
  <1>9. \A n \in 0 .. Len(v) : P[n] \in Nat
    BY <1>8 DEF G
  <1>10. P \in [0 .. Len(v) -> Nat]
    BY <1>4, <1>9
  <1> QED
    BY <1>3, <1>5, <1>10 DEF ProductsOf

\* Sums add up.
LEMMA SumAdds ==
  ASSUME NEW u \in Seq(Int), NEW v \in Seq(Int), NEW w \in Seq(Int),
         Len(u) = Len(v), Len(w) = Len(v), \A i \in 1 .. Len(v) : w[i] = u[i] + v[i]
  PROVE  SumOf(w) = SumOf(u) + SumOf(v)
  <1>1. PICK U : SumsOf(U, u) /\ SumOf(u) = U[Len(u)]
    BY SumFacts
  <1>2. PICK V : SumsOf(V, v) /\ SumOf(v) = V[Len(v)]
    BY SumFacts
  <1>3. PICK W : SumsOf(W, w) /\ SumOf(w) = W[Len(w)]
    BY SumFacts
  <1> DEFINE G == {n \in Nat : n <= Len(v) => W[n] = U[n] + V[n]}
  <1>4. 0 \in G
    BY <1>1, <1>2, <1>3 DEF SumsOf
  <1>5. ASSUME NEW n \in Nat, n \in G
        PROVE  n + 1 \in G
    <2> SUFFICES ASSUME n + 1 <= Len(v) PROVE W[n + 1] = U[n + 1] + V[n + 1]
      OBVIOUS
    <2>1. n \in 0 .. Len(v) /\ n + 1 \in 1 .. Len(v) /\ (n + 1) - 1 = n
      OBVIOUS
    <2>2. /\ W[n + 1] = W[n] + w[n + 1] /\ U[n + 1] = U[n] + u[n + 1] /\ V[n + 1] = V[n] + v[n + 1]
          /\ W[n] \in Int /\ U[n] \in Int /\ V[n] \in Int
      BY <1>1, <1>2, <1>3, <2>1 DEF SumsOf
    <2>3. u[n + 1] \in Int /\ v[n + 1] \in Int /\ w[n + 1] = u[n + 1] + v[n + 1]
      BY <2>1
    <2>4. W[n] = U[n] + V[n]
      BY <1>5, <2>1
    <2>5. (U[n] + V[n]) + (u[n + 1] + v[n + 1]) = (U[n] + u[n + 1]) + (V[n] + v[n + 1])
      <3>1. U[n] \in Int /\ V[n] \in Int /\ u[n + 1] \in Int /\ v[n + 1] \in Int
        BY <2>2, <2>3
      <3>2. ASSUME NEW a \in Int, NEW b \in Int, NEW c \in Int, NEW d \in Int
            PROVE  (a + b) + (c + d) = (a + c) + (b + d)
        OBVIOUS
      <3> QED
        BY <3>1, <3>2
    <2>6. W[n + 1] = (U[n] + V[n]) + (u[n + 1] + v[n + 1])
      BY <2>2, <2>3, <2>4
    <2>7. U[n + 1] + V[n + 1] = (U[n] + u[n + 1]) + (V[n] + v[n + 1])
      BY <2>2
    <2> QED
      BY <2>5, <2>6, <2>7
  <1> HIDE DEF G
  <1>6. \A n \in Nat : n \in G
    BY <1>4, <1>5, SetInduction
  <1>7. Len(v) \in G
    BY <1>6
  <1> QED
    BY <1>1, <1>2, <1>3, <1>7 DEF G
------------------------------------------------------------------------------
(* What can be copied as it lies *)

\* The part of a vector before dimension d.
LEMMA PrefixFacts ==
  ASSUME NEW v \in Seq(Nat), NEW d \in 1 .. Len(v)
  PROVE  /\ SubSeq(v, 1, d - 1) \in Seq(Nat) /\ Len(SubSeq(v, 1, d - 1)) = d - 1
         /\ SubSeq(v, 1, d - 1) = [i \in 1 .. (d - 1) |-> v[i]]
  OBVIOUS

LEMMA PackedFacts ==
  ASSUME NEW v \in Seq(Nat)
  PROVE  /\ DOMAIN PackedStrides(v) = 1 .. Len(v)
         /\ \A d \in 1 .. Len(v) : PackedStrides(v)[d] = Product(SubSeq(v, 1, d - 1))
         /\ \A d \in 1 .. Len(v) : PackedStrides(v)[d] \in Nat
         /\ 1 \in 1 .. Len(v) => PackedStrides(v)[1] = 1
  <1>1. /\ DOMAIN PackedStrides(v) = 1 .. Len(v)
        /\ \A d \in 1 .. Len(v) : PackedStrides(v)[d] = Product(SubSeq(v, 1, d - 1))
    BY DEF PackedStrides
  <1>2. ASSUME NEW d \in 1 .. Len(v)
        PROVE  Product(SubSeq(v, 1, d - 1)) \in Nat /\ (d = 1 => Product(SubSeq(v, 1, d - 1)) = 1)
    <2> DEFINE s == SubSeq(v, 1, d - 1)
    <2>1. s \in Seq(Nat) /\ Len(s) = d - 1
      BY PrefixFacts
    <2> HIDE DEF s
    <2>2. PICK P : ProductsOf(P, s) /\ Product(s) = P[Len(s)]
      BY <2>1, ProductFacts
    <2>3. Product(s) \in Nat /\ (d = 1 => Product(s) = 1)
      BY <2>1, <2>2 DEF ProductsOf
    <2> QED
      BY <2>3 DEF s
  <1> QED
    BY <1>1, <1>2

\* Lengths that agree below dimension d have the same stride there.
LEMMA PackedAgree ==
  ASSUME NEW u \in Seq(Nat), NEW v \in Seq(Nat), Len(u) = Len(v),
         NEW d \in 1 .. Len(v), \A e \in 1 .. (d - 1) : u[e] = v[e]
  PROVE  PackedStrides(u)[d] = PackedStrides(v)[d]
  <1>1. SubSeq(u, 1, d - 1) = SubSeq(v, 1, d - 1)
    BY PrefixFacts
  <1> QED
    BY <1>1, PackedFacts

\* The lengths of a brick, and what they say of its coordinates.
LEMMA LengthFacts ==
  ASSUME NEW b, HasBounds(b)
  PROVE  /\ Length(b) \in Seq(Nat) /\ Len(Length(b)) = Len(Lengths)
         /\ \A d \in D : Length(b)[d] = IF b.upper[d] > b.lower[d] THEN b.upper[d] - b.lower[d] ELSE 0
  <1>1. Dims(b) = D /\ \A d \in D : b.lower[d] \in Nat /\ b.upper[d] \in Nat
    BY BoundsFacts
  <1>2. Len(Lengths) \in Nat
    BY FieldAssumption
  <1>3. Length(b) = [d \in D |-> IF b.upper[d] > b.lower[d] THEN b.upper[d] - b.lower[d] ELSE 0]
    BY <1>1 DEF Length
  <1>4. \A d \in D : (IF b.upper[d] > b.lower[d] THEN b.upper[d] - b.lower[d] ELSE 0) \in Nat
    BY <1>1
  <1> QED
    BY <1>2, <1>3, <1>4 DEF D

\* The place of an element, as a sum over the dimensions.
PlaceOf(b, c, stride) == SumOf([d \in D |-> (c[d] - b.lower[d]) * stride[d]])

LEMMA PlaceFacts ==
  ASSUME NEW b, HasBounds(b), NEW c
  PROVE  InMemory(b, c) = PlaceOf(b, c, b.stride) /\ InBox(b, c) = PlaceOf(b, c, PackedStrides(Length(b)))
  <1>1. Dims(b) = D /\ Len(Lengths) \in Nat
    BY BoundsFacts, FieldAssumption
  <1> DEFINE v == [d \in D |-> c[d] - b.lower[d]]
  <1>2. Len(v) = Len(Lengths)
    BY <1>1 DEF D
  <1>3. ASSUME NEW stride
        PROVE  InnerProduct(v, stride) = PlaceOf(b, c, stride)
    <2>1. 1 .. Len(v) = D
      BY <1>2 DEF D
    <2>2. [i \in 1 .. Len(v) |-> v[i] * stride[i]] = [d \in D |-> (c[d] - b.lower[d]) * stride[d]]
      BY <2>1
    <2> QED
      BY <2>2 DEF InnerProduct, PlaceOf
  <1>4. InMemory(b, c) = InnerProduct(v, b.stride) /\ InBox(b, c) = InnerProduct(v, PackedStrides(Length(b)))
    BY <1>1 DEF InMemory, InBox, ContiguousStrides
  <1> HIDE DEF v
  <1> QED
    BY <1>3, <1>4

\* is_contiguous looks at the strides of the slower dimensions the brick
\* extends in; in the others an element's place has a factor 0.
LEMMA ContiguousPlaces ==
  ASSUME NEW b \in Brick, IsContiguous(b), b.stride[1] = 1, NEW c \in Coords(b)
  PROVE  InMemory(b, c) = InBox(b, c)
  <1> DEFINE len == Length(b)
             packed == PackedStrides(Length(b))
  <1>1. HasBounds(b) /\ Dims(b) = D /\ \A d \in D : b.lower[d] \in Nat /\ b.upper[d] \in Nat
    BY BoundsFacts DEF Brick, HasBounds
  <1>2. b.stride \in Vectors
    BY DEF Brick
  <1>3. \A d \in D : b.stride[d] \in Nat
    BY <1>2, VectorFacts
  <1>4. /\ len \in Seq(Nat) /\ 1 .. Len(len) = D
        /\ \A d \in D : len[d] = IF b.upper[d] > b.lower[d] THEN b.upper[d] - b.lower[d] ELSE 0
    BY <1>1, LengthFacts DEF D
  <1>5. (\A d \in D : packed[d] \in Nat) /\ (1 \in D => packed[1] = 1)
    BY <1>4, PackedFacts
  <1>6. \A d \in D : c[d] \in Int /\ b.lower[d] <= c[d] /\ c[d] < b.upper[d]
    BY <1>1, CoordsAre
  <1>7. \A d \in D : d > 1 /\ len[d] > 1 => b.stride[d] = packed[d]
    BY <1>1 DEF IsContiguous, ContiguousStrides
  <1>8. D \subseteq Nat /\ \A d \in D : d >= 1
    BY DEF D
  <1> HIDE DEF len, packed
  <1>9. ASSUME NEW d \in D
        PROVE  (c[d] - b.lower[d]) * b.stride[d] = (c[d] - b.lower[d]) * packed[d]
    <2>1. CASE d = 1
      BY <1>5, <2>1
    <2>2. CASE d > 1 /\ len[d] > 1
      BY <1>7, <2>2
    <2>3. CASE len[d] <= 1
      <3>1. c[d] - b.lower[d] = 0
        BY <1>1, <1>4, <1>6, <2>3
      <3>2. 0 * b.stride[d] = 0 /\ 0 * packed[d] = 0
        BY <1>3, <1>5
      <3> QED
        BY <3>1, <3>2
    <2>4. len[d] \in Nat
      BY <1>1, <1>4
    <2> QED
      BY <1>8, <2>1, <2>2, <2>3, <2>4
  <1>10. PlaceOf(b, c, b.stride) = PlaceOf(b, c, packed)
    BY <1>9 DEF PlaceOf
  <1> QED
    BY <1>1, <1>10, PlaceFacts DEF packed
\* The bounds of a brick that has a coordinate and lies in the field.
LEMMA InsideBounds ==
  ASSUME NEW b, HasBounds(b), NEW c \in Coords(b), Coords(b) \subseteq Coords(WholeField(Lengths))
  PROVE  \A d \in D : b.lower[d] < b.upper[d] /\ b.upper[d] <= Lengths[d]
  <1> DEFINE w == WholeField(Lengths)
  <1>1. Dims(b) = D /\ \A d \in D : b.lower[d] \in Nat /\ b.upper[d] \in Nat
    BY BoundsFacts
  <1>2. HasBounds(w) /\ \A d \in D : w.lower[d] = 0 /\ w.upper[d] = Lengths[d]
    BY WholeHasBounds
  <1> HIDE DEF w
  <1>3. Dims(w) = D /\ \A d \in D : w.lower[d] \in Nat /\ w.upper[d] \in Nat
    BY <1>2, BoundsFacts
  <1>4. c \in [D -> Int] /\ \A d \in D : b.lower[d] <= c[d] /\ c[d] < b.upper[d]
    BY <1>1, CoordsAre
  <1>5. ASSUME NEW d \in D
        PROVE  b.lower[d] < b.upper[d] /\ b.upper[d] <= Lengths[d]
    <2> DEFINE x == [c EXCEPT ![d] = b.upper[d] - 1]
    <2>1. b.lower[d] < b.upper[d]
      BY <1>1, <1>4
    <2>2. x \in [D -> Int] /\ x[d] = b.upper[d] - 1 /\ \A e \in D : e # d => x[e] = c[e]
      BY <1>1, <1>4
    <2> HIDE DEF x
    <2>3. \A e \in D : b.lower[e] <= x[e] /\ x[e] < b.upper[e]
      BY <1>1, <1>4, <2>1, <2>2
    <2>4. x \in Coords(w)
      BY <1>1, <2>2, <2>3, CoordsAre DEF w
    <2>5. x[d] < w.upper[d]
      BY <1>3, <2>4, CoordsAre
    <2> QED
      BY <1>1, <1>2, <1>3, <2>1, <2>2, <2>5
  <1> QED
    BY <1>5

\* is_contiguous_in_field: below the dimension in which the brick is short it
\* has the strides of the field, and above it one coordinate only.
LEMMA InFieldStrides ==
  ASSUME NEW b \in Brick, IsContiguousInField(b, Lengths), NEW c \in Coords(b),
         Coords(b) \subseteq Coords(WholeField(Lengths)), NEW d \in D
  PROVE  c[d] = b.lower[d] \/ PackedStrides(Length(b))[d] = PackedStrides(Lengths)[d]
  <1> DEFINE len == Length(b)
             long == {e \in D : Lengths[e] # 1}
             short == {e \in long : len[e] < Lengths[e]}
  <1>1. HasBounds(b) /\ Dims(b) = D /\ \A e \in D : b.lower[e] \in Nat /\ b.upper[e] \in Nat
    BY BoundsFacts DEF Brick, HasBounds
  <1>2. Lengths \in Seq(Nat) /\ D = 1 .. Len(Lengths) /\ \A e \in D : Lengths[e] \in Nat
    BY FieldAssumption DEF D
  <1>3. \A e \in D : b.lower[e] < b.upper[e] /\ b.upper[e] <= Lengths[e]
    BY <1>1, InsideBounds
  <1>4. len \in Seq(Nat) /\ Len(len) = Len(Lengths) /\ \A e \in D : len[e] = b.upper[e] - b.lower[e]
    BY <1>1, <1>3, LengthFacts
  <1>5. \A e \in D : c[e] \in Int /\ b.lower[e] <= c[e] /\ c[e] < b.upper[e]
    BY <1>1, CoordsAre
  <1>6. long = {} \/ \E e \in short : short = {e} /\ \A f \in long : f <= e
    BY <1>1 DEF IsContiguousInField
  <1> HIDE DEF len
  <1>7. ASSUME NEW e \in D, Lengths[e] = 1
        PROVE  c[e] = b.lower[e] /\ len[e] = 1
    <2>1. /\ b.lower[e] \in Nat /\ b.upper[e] \in Nat /\ c[e] \in Int /\ len[e] = b.upper[e] - b.lower[e]
          /\ b.lower[e] < b.upper[e] /\ b.upper[e] <= 1 /\ b.lower[e] <= c[e] /\ c[e] < b.upper[e]
      BY <1>1, <1>3, <1>4, <1>5, <1>7
    <2>2. b.lower[e] = 0 /\ b.upper[e] = 1
      BY <2>1
    <2> QED
      BY <2>1, <2>2
  <1>8. CASE long = {}
    BY <1>7, <1>8
  <1>9. CASE \E e \in short : short = {e} /\ \A f \in long : f <= e
    <2>1. PICK e \in short : short = {e} /\ \A f \in long : f <= e
      BY <1>9
    <2>2. CASE d > e
      <3>1. d \notin long
        BY <1>2, <2>1, <2>2
      <3> QED
        BY <1>7, <3>1
    <2>3. CASE d <= e
      <3>1. ASSUME NEW f \in 1 .. (d - 1)
            PROVE  len[f] = Lengths[f]
        <4>1. f \in D /\ f # e
          BY <1>2, <2>1, <2>3
        <4>2. CASE f \in long
          <5>1. ~(len[f] < Lengths[f])
            BY <2>1, <4>1, <4>2
          <5>2. /\ b.lower[f] \in Nat /\ b.upper[f] \in Nat /\ Lengths[f] \in Nat
                /\ len[f] = b.upper[f] - b.lower[f] /\ b.upper[f] <= Lengths[f]
            BY <1>1, <1>2, <1>3, <1>4, <4>1
          <5> QED
            BY <5>1, <5>2
        <4>3. CASE f \notin long
          BY <1>7, <4>1, <4>3
        <4> QED
          BY <4>2, <4>3
      <3>2. PackedStrides(len)[d] = PackedStrides(Lengths)[d]
        BY <1>2, <1>4, <3>1, PackedAgree
      <3> QED
        BY <3>2 DEF len
    <2>4. d > e \/ d <= e
      BY <1>2, <2>1
    <2> QED
      BY <2>2, <2>3, <2>4
  <1> QED
    BY <1>6, <1>8, <1>9

\* The offsets of the bricks in a field without gaps fit in an int.
OffsetsFit ==
  \A b \in AllBricks :
    OffsetInField(b, PackedStrides(Lengths)) = InnerProduct(b.lower, PackedStrides(Lengths))

LEMMA InFieldPlaces ==
  ASSUME OffsetsFit, NEW b \in AllBricks, IsContiguousInField(b, Lengths),
         Coords(b) \subseteq Coords(WholeField(Lengths)), NEW c \in Coords(b)
  PROVE  InMemory(WholeField(Lengths), c) =
           OffsetInField(b, WholeField(Lengths).stride) + InBox(b, c)
  <1> DEFINE w == WholeField(Lengths)
             s == PackedStrides(Lengths)
             p == PackedStrides(Length(b))
             first == [d \in D |-> b.lower[d] * s[d]]
             rest == [d \in D |-> (c[d] - b.lower[d]) * p[d]]
             all == [d \in D |-> (c[d] - w.lower[d]) * s[d]]
  <1>1. b \in Brick /\ HasBounds(b) /\ Dims(b) = D /\ \A d \in D : b.lower[d] \in Nat /\ b.upper[d] \in Nat
    BY BrickHasBounds, BoundsFacts
  <1>2. HasBounds(w) /\ (\A d \in D : w.lower[d] = 0) /\ w.stride = s
    BY WholeHasBounds DEF WholeField
  <1>3. Lengths \in Seq(Nat) /\ D = 1 .. Len(Lengths) /\ Len(Lengths) \in Nat
    BY FieldAssumption DEF D
  <1>4. Length(b) \in Seq(Nat) /\ Len(Length(b)) = Len(Lengths)
    BY <1>1, LengthFacts
  <1>5. \A d \in D : s[d] \in Nat /\ p[d] \in Nat
    BY <1>3, <1>4, PackedFacts
  <1>6. \A d \in D : c[d] \in Int
    BY <1>1, CoordsAre
  <1>7. \A d \in D : c[d] = b.lower[d] \/ p[d] = s[d]
    BY <1>1, InFieldStrides
  <1>8. InMemory(w, c) = SumOf(all)
    BY <1>2, PlaceFacts DEF PlaceOf
  <1>9. InBox(b, c) = SumOf(rest)
    BY <1>1, PlaceFacts DEF PlaceOf
  <1>10. OffsetInField(b, w.stride) = SumOf(first)
    <2>1. 1 .. Len(b.lower) = D
      BY <1>1 DEF Dims
    <2>2. InnerProduct(b.lower, s) = SumOf(first)
      BY <2>1 DEF InnerProduct
    <2> QED
      BY <1>2, <2>2 DEF OffsetsFit
  <1>11. ASSUME NEW d \in D
         PROVE  /\ first[d] \in Int /\ rest[d] \in Int /\ all[d] \in Int
                /\ all[d] = first[d] + rest[d]
    <2>1. b.lower[d] \in Int /\ c[d] \in Int /\ s[d] \in Int /\ p[d] \in Int /\ w.lower[d] = 0
      BY <1>1, <1>2, <1>5, <1>6
    <2>2. first[d] = b.lower[d] * s[d] /\ rest[d] = (c[d] - b.lower[d]) * p[d] /\ all[d] = (c[d] - 0) * s[d]
      BY <2>1
    <2> HIDE DEF first, rest, all, s, p, w
    <2>3. ASSUME NEW x \in Int, NEW y \in Int, NEW m \in Int, NEW n \in Int, x = y \/ n = m
          PROVE  /\ y * m \in Int /\ (x - y) * n \in Int /\ (x - 0) * m \in Int
                 /\ (x - 0) * m = y * m + (x - y) * n
      <3>1. CASE x = y
        BY <2>3, <3>1
      <3>2. CASE n = m
        BY <2>3, <3>2
      <3> QED
        BY <2>3, <3>1, <3>2
    <2>4. c[d] = b.lower[d] \/ p[d] = s[d]
      BY <1>7
    <2>5. /\ b.lower[d] * s[d] \in Int /\ (c[d] - b.lower[d]) * p[d] \in Int /\ (c[d] - 0) * s[d] \in Int
          /\ (c[d] - 0) * s[d] = b.lower[d] * s[d] + (c[d] - b.lower[d]) * p[d]
      BY <2>1, <2>3, <2>4
    <2> QED
      BY <2>2, <2>5
  <1> HIDE DEF s, p, w
  <1>12. /\ first \in Seq(Int) /\ rest \in Seq(Int) /\ all \in Seq(Int)
         /\ Len(first) = Len(Lengths) /\ Len(rest) = Len(Lengths) /\ Len(all) = Len(Lengths)
    BY <1>3, <1>11
  <1> HIDE DEF first, rest, all
  <1>13. SumOf(all) = SumOf(first) + SumOf(rest)
    BY <1>3, <1>11, <1>12, SumAdds
  <1> QED
    BY <1>8, <1>9, <1>10, <1>13 DEF w

------------------------------------------------------------------------------
(* Counting coordinates *)

\* The coordinates of a brick in its first k dimensions.
Part(b, k) == {c \in [1 .. k -> Int] : \A d \in 1 .. k : b.lower[d] <= c[d] /\ c[d] < b.upper[d]}

LEMMA PartGrows ==
  ASSUME NEW b, HasBounds(b), NEW k \in Nat, k + 1 \in D
  PROVE  ExistsBijection(Part(b, k) \X (b.lower[k + 1] .. (b.upper[k + 1] - 1)), Part(b, k + 1))
  <1> DEFINE I == b.lower[k + 1] .. (b.upper[k + 1] - 1)
             S == Part(b, k) \X I
             T == Part(b, k + 1)
             Join(p) == [d \in 1 .. (k + 1) |-> IF d <= k THEN p[1][d] ELSE p[2]]
             F == [p \in S |-> Join(p)]
  <1>1. b.lower[k + 1] \in Nat /\ b.upper[k + 1] \in Nat
    BY BoundsFacts
  <1>2. ASSUME NEW p \in S
        PROVE  Join(p) \in T
    <2>1. /\ p[1] \in [1 .. k -> Int] /\ \A d \in 1 .. k : b.lower[d] <= p[1][d] /\ p[1][d] < b.upper[d]
          /\ p[2] \in Int /\ b.lower[k + 1] <= p[2] /\ p[2] < b.upper[k + 1]
      BY <1>1 DEF Part
    <2>2. \A d \in 1 .. (k + 1) : d \in 1 .. k \/ (d = k + 1 /\ ~(d <= k))
      OBVIOUS
    <2>3. \A d \in 1 .. (k + 1) : /\ Join(p)[d] \in Int
                                  /\ b.lower[d] <= Join(p)[d] /\ Join(p)[d] < b.upper[d]
      BY <2>1, <2>2
    <2> QED
      BY <2>3 DEF Part
  <1>3. ASSUME NEW p \in S, NEW q \in S, Join(p) = Join(q)
        PROVE  p = q
    <2>1. p[1] \in [1 .. k -> Int] /\ q[1] \in [1 .. k -> Int] /\ p = <<p[1], p[2]>> /\ q = <<q[1], q[2]>>
      BY DEF Part
    <2>2. ASSUME NEW d \in 1 .. k
          PROVE  p[1][d] = q[1][d]
      <3>1. d \in 1 .. (k + 1) /\ d <= k
        OBVIOUS
      <3>2. Join(p)[d] = p[1][d] /\ Join(q)[d] = q[1][d]
        BY <3>1
      <3> QED
        BY <1>3, <3>2
    <2>3. p[2] = q[2]
      <3>1. k + 1 \in 1 .. (k + 1) /\ ~(k + 1 <= k)
        OBVIOUS
      <3>2. Join(p)[k + 1] = p[2] /\ Join(q)[k + 1] = q[2]
        BY <3>1
      <3> QED
        BY <1>3, <3>2
    <2>4. p[1] = q[1]
      BY <2>1, <2>2
    <2> QED
      BY <2>1, <2>3, <2>4
  <1>4. ASSUME NEW c \in T
        PROVE  \E p \in S : Join(p) = c
    <2> DEFINE p == <<[d \in 1 .. k |-> c[d]], c[k + 1]>>
    <2>1. c \in [1 .. (k + 1) -> Int] /\ \A d \in 1 .. (k + 1) : b.lower[d] <= c[d] /\ c[d] < b.upper[d]
      BY DEF Part
    <2>2. \A d \in 1 .. k : d \in 1 .. (k + 1)
      OBVIOUS
    <2>3. [d \in 1 .. k |-> c[d]] \in Part(b, k)
      BY <2>1, <2>2 DEF Part
    <2>4. c[k + 1] \in I
      BY <1>1, <2>1
    <2>5. p \in S
      BY <2>3, <2>4
    <2>6. \A d \in 1 .. (k + 1) : (IF d <= k THEN p[1][d] ELSE p[2]) = c[d]
      OBVIOUS
    <2>7. Join(p) = c
      BY <2>1, <2>6
    <2> HIDE DEF p, Join, S
    <2> QED
      BY <2>5, <2>7
  <1> HIDE DEF S, T, Join
  <1>5. F \in [S -> T] /\ \A p \in S : F[p] = Join(p)
    BY <1>2
  <1>6. F \in Injection(S, T)
    BY <1>3, <1>5 DEF Injection, IsInjective
  <1>7. F \in Surjection(S, T)
    BY <1>4, <1>5 DEF Surjection
  <1>8. ExistsBijection(S, T)
    BY <1>6, <1>7 DEF ExistsBijection, Bijection
  <1> QED
    BY <1>8 DEF S, T

\* count_elems is the number of coordinates.
LEMMA CountCoords ==
  ASSUME NEW b, HasBounds(b)
  PROVE  IsFiniteSet(Coords(b)) /\ Cardinality(Coords(b)) = CountElems(b) /\ CountElems(b) \in Nat
  <1> DEFINE len == Length(b)
  <1>1. len \in Seq(Nat) /\ Len(len) = Len(Lengths) /\ Len(Lengths) \in Nat /\ D = 1 .. Len(Lengths)
    BY LengthFacts, FieldAssumption DEF D
  <1>2. /\ Dims(b) = D /\ \A d \in D : b.lower[d] \in Nat /\ b.upper[d] \in Nat
        /\ \A d \in D : len[d] = IF b.upper[d] > b.lower[d] THEN b.upper[d] - b.lower[d] ELSE 0
    BY BoundsFacts, LengthFacts
  <1> HIDE DEF len
  <1>3. PICK P : ProductsOf(P, len) /\ Product(len) = P[Len(len)]
    BY <1>1, ProductFacts
  <1> DEFINE Good(n) == IsFiniteSet(Part(b, n)) /\ Cardinality(Part(b, n)) = P[n]
             G == {n \in Nat : n <= Len(Lengths) => Good(n)}
  <1>4. 0 \in G
    <2>1. Part(b, 0) = {[d \in 1 .. 0 |-> 0]}
      <3>1. 1 .. 0 = {}
        OBVIOUS
      <3>2. \A c \in [1 .. 0 -> Int] : c = [d \in 1 .. 0 |-> 0]
        BY <3>1
      <3>3. [d \in 1 .. 0 |-> 0] \in Part(b, 0)
        BY <3>1 DEF Part
      <3>4. \A c \in Part(b, 0) : c = [d \in 1 .. 0 |-> 0]
        BY <3>2 DEF Part
      <3> QED
        BY <3>3, <3>4
    <2>2. P[0] = 1
      BY <1>3 DEF ProductsOf
    <2>3. Good(0)
      BY <2>1, <2>2, FS_Singleton
    <2> HIDE DEF Good
    <2> QED
      BY <2>3
  <1>5. ASSUME NEW n \in Nat, n \in G
        PROVE  n + 1 \in G
    <2> SUFFICES ASSUME n + 1 <= Len(Lengths) PROVE Good(n + 1)
      OBVIOUS
    <2>1. Good(n) /\ n + 1 \in D
      BY <1>1, <1>5
    <2> DEFINE I == b.lower[n + 1] .. (b.upper[n + 1] - 1)
    <2>2. IsFiniteSet(I) /\ Cardinality(I) = len[n + 1]
      <3>1. b.lower[n + 1] \in Int /\ b.upper[n + 1] - 1 \in Int
        BY <1>2, <2>1
      <3>2. /\ IsFiniteSet(I)
            /\ Cardinality(I) = IF b.lower[n + 1] > b.upper[n + 1] - 1 THEN 0
                                ELSE (b.upper[n + 1] - 1) - b.lower[n + 1] + 1
        BY <3>1, FS_Interval
      <3>3. len[n + 1] = IF b.upper[n + 1] > b.lower[n + 1] THEN b.upper[n + 1] - b.lower[n + 1] ELSE 0
        BY <1>2, <2>1
      <3>4. ASSUME NEW x \in Int, NEW y \in Int
            PROVE  (IF x > y - 1 THEN 0 ELSE (y - 1) - x + 1) = IF y > x THEN y - x ELSE 0
        OBVIOUS
      <3>5. b.lower[n + 1] \in Int /\ b.upper[n + 1] \in Int
        BY <1>2, <2>1
      <3>6. (IF b.lower[n + 1] > b.upper[n + 1] - 1 THEN 0
             ELSE (b.upper[n + 1] - 1) - b.lower[n + 1] + 1) = len[n + 1]
        BY <3>3, <3>4, <3>5
      <3> HIDE DEF I
      <3> QED
        BY <3>2, <3>6
    <2> HIDE DEF I
    <2>3. IsFiniteSet(Part(b, n) \X I) /\ Cardinality(Part(b, n) \X I) = P[n] * len[n + 1]
      BY <2>1, <2>2, FS_Product
    <2>4. ExistsBijection(Part(b, n) \X I, Part(b, n + 1))
      BY <2>1, PartGrows DEF I
    <2>5. IsFiniteSet(Part(b, n + 1)) /\ Cardinality(Part(b, n + 1)) = P[n] * len[n + 1]
      BY <2>3, <2>4, FS_Bijection
    <2>6. P[n + 1] = P[n] * len[n + 1]
      <3>1. n + 1 \in 1 .. Len(len) /\ (n + 1) - 1 = n
        BY <1>1, <2>1
      <3> QED
        BY <1>3, <3>1 DEF ProductsOf
    <2> QED
      BY <2>5, <2>6
  <1> HIDE DEF Good, G
  <1>6. \A n \in Nat : n \in G
    BY <1>4, <1>5, SetInduction
  <1>7. Good(Len(Lengths))
    BY <1>1, <1>6 DEF G
  <1>8. Coords(b) = Part(b, Len(Lengths))
    <2>1. \A c : c \in Coords(b) <=> c \in Part(b, Len(Lengths))
      BY <1>1, <1>2, CoordsAre DEF Part
    <2> QED
      BY <2>1
  <1>9. CountElems(b) = P[Len(Lengths)] /\ P[Len(Lengths)] \in Nat
    BY <1>1, <1>3 DEF CountElems, ProductsOf, len
  <1> QED
    BY <1>7, <1>8, <1>9 DEF Good

\* Bricks that share no coordinate have together as many as their sum.
LEMMA CountBricks ==
  ASSUME NEW f, f \in Seq(AllBricks),
         \A i, j \in 1 .. Len(f) : i # j => Coords(f[i]) \cap Coords(f[j]) = {}
  PROVE  LET U == UNION {Coords(f[i]) : i \in 1 .. Len(f)}
         IN  IsFiniteSet(U) /\ Cardinality(U) = SumElems(f)
  <1> DEFINE v == [i \in 1 .. Len(f) |-> CountElems(f[i])]
             U(n) == UNION {Coords(f[i]) : i \in 1 .. n}
  <1>1. \A i \in 1 .. Len(f) : /\ IsFiniteSet(Coords(f[i])) /\ Cardinality(Coords(f[i])) = CountElems(f[i])
                               /\ CountElems(f[i]) \in Nat
    <2>1. \A i \in 1 .. Len(f) : HasBounds(f[i])
      BY BrickHasBounds
    <2> QED
      BY <2>1, CountCoords
  <1>2. v \in Seq(Int) /\ Len(v) = Len(f)
    BY <1>1
  <1>3. \A i \in 1 .. Len(f) : v[i] = CountElems(f[i])
    OBVIOUS
  <1>4. SumElems(f) = SumOf(v)
    BY DEF SumElems
  <1> HIDE DEF v
  <1>5. PICK S : SumsOf(S, v) /\ SumOf(v) = S[Len(v)]
    BY <1>2, SumFacts
  <1> DEFINE Good(n) == IsFiniteSet(U(n)) /\ Cardinality(U(n)) = S[n]
             G == {n \in Nat : n <= Len(f) => Good(n)}
  <1>6. 0 \in G
    <2>1. U(0) = {}
      OBVIOUS
    <2>2. S[0] = 0
      BY <1>5 DEF SumsOf
    <2>3. Good(0)
      BY <2>1, <2>2, FS_EmptySet
    <2> HIDE DEF Good
    <2> QED
      BY <2>3
  <1>7. ASSUME NEW n \in Nat, n \in G
        PROVE  n + 1 \in G
    <2> SUFFICES ASSUME n + 1 <= Len(f) PROVE Good(n + 1)
      OBVIOUS
    <2>1. Good(n) /\ n + 1 \in 1 .. Len(f)
      BY <1>7
    <2>2. U(n + 1) = U(n) \cup Coords(f[n + 1])
      <3>1. 1 .. (n + 1) = (1 .. n) \cup {n + 1}
        OBVIOUS
      <3> QED
        BY <3>1
    <2>3. U(n) \cap Coords(f[n + 1]) = {}
      <3>1. \A i \in 1 .. n : i \in 1 .. Len(f) /\ i # n + 1
        BY <2>1
      <3>2. \A i \in 1 .. n : Coords(f[i]) \cap Coords(f[n + 1]) = {}
        BY <2>1, <3>1
      <3> QED
        BY <3>2
    <2> HIDE DEF U
    <2>4. /\ IsFiniteSet(U(n) \cup Coords(f[n + 1]))
          /\ Cardinality(U(n) \cup Coords(f[n + 1])) = S[n] + CountElems(f[n + 1]) - 0
      <3>1. /\ IsFiniteSet(U(n)) /\ IsFiniteSet(Coords(f[n + 1])) /\ Cardinality(U(n)) = S[n]
            /\ Cardinality(Coords(f[n + 1])) = CountElems(f[n + 1])
        BY <1>1, <2>1
      <3>2. /\ IsFiniteSet(U(n) \cup Coords(f[n + 1]))
            /\ Cardinality(U(n) \cup Coords(f[n + 1])) =
                 Cardinality(U(n)) + Cardinality(Coords(f[n + 1])) - Cardinality(U(n) \cap Coords(f[n + 1]))
        BY <3>1, FS_Union
      <3>3. Cardinality(U(n) \cap Coords(f[n + 1])) = 0
        BY <2>3, FS_EmptySet
      <3> QED
        BY <3>1, <3>2, <3>3
    <2>5. S[n + 1] = S[n] + CountElems(f[n + 1]) /\ S[n] \in Int /\ CountElems(f[n + 1]) \in Int
      <3>1. n + 1 \in 1 .. Len(v) /\ (n + 1) - 1 = n /\ n \in 0 .. Len(v)
        BY <1>2, <2>1
      <3>2. S[n + 1] = S[n] + v[n + 1] /\ S[n] \in Int
        BY <1>5, <3>1 DEF SumsOf
      <3> QED
        BY <1>1, <1>3, <2>1, <3>2
    <2>6. S[n] + CountElems(f[n + 1]) - 0 = S[n + 1]
      BY <2>5
    <2> QED
      BY <2>2, <2>4, <2>6
  <1> HIDE DEF Good, G
  <1>8. \A n \in Nat : n \in G
    BY <1>6, <1>7, SetInduction
  <1>9. Good(Len(f))
    BY <1>8 DEF G
  <1> QED
    BY <1>2, <1>4, <1>5, <1>9 DEF Good
------------------------------------------------------------------------------
(* What ValidateFields accepts *)

Inside(f) == \A i \in 1 .. Len(f) : Coords(f[i]) \subseteq Coords(WholeField(Lengths))

Apart(f) == \A i, j \in 1 .. Len(f) : i # j => Coords(f[i]) \cap Coords(f[j]) = {}

\* The bricks of a field that have coordinate c.
Holding(f, c) == {i \in 1 .. Len(f) : c \in Coords(f[i])}

Once(f) == \A c \in Coords(WholeField(Lengths)) : Cardinality(Holding(f, c)) = 1

\* Its comparisons of bounds say of the sets of coordinates what they should.
LEMMA ValidIsApart ==
  ASSUME OverlapsFit, NEW f, f \in Seq(AllBricks), ValidateField(Lengths, f)
  PROVE  Inside(f) /\ Apart(f)
  <1>1. DOMAIN f = 1 .. Len(f) /\ \A i \in 1 .. Len(f) : f[i] \in AllBricks
    OBVIOUS
  <1>2. ASSUME NEW i \in 1 .. Len(f)
        PROVE  Coords(f[i]) \subseteq Coords(WholeField(Lengths))
    BY <1>1, EqualIsInside DEF ValidateField
  <1>3. ASSUME NEW i \in 1 .. Len(f), NEW j \in 1 .. Len(f), i < j
        PROVE  Coords(f[i]) \cap Coords(f[j]) = {}
    BY <1>1, <1>3, EmptyHasNone DEF ValidateField
  <1>4. \A i, j \in 1 .. Len(f) : i # j => i < j \/ j < i
    OBVIOUS
  <1> QED
    BY <1>2, <1>3, <1>4 DEF Inside, Apart

LEMMA HoldingFacts ==
  ASSUME NEW f, f \in Seq(AllBricks), NEW c
  PROVE  IsFiniteSet(Holding(f, c)) /\ (Cardinality(Holding(f, c)) = 1 <=> \E i : Holding(f, c) = {i})
  <1>1. IsFiniteSet(1 .. Len(f))
    BY FS_Interval
  <1>2. Holding(f, c) \in SUBSET (1 .. Len(f))
    BY DEF Holding
  <1>3. IsFiniteSet(Holding(f, c))
    BY <1>1, <1>2, FS_Subset
  <1> QED
    BY <1>3, FS_Singleton

\* The whole field's elements are its coordinates.
LEMMA WholeCount ==
  /\ IsFiniteSet(Coords(WholeField(Lengths)))
  /\ Cardinality(Coords(WholeField(Lengths))) = CountElems(WholeField(Lengths))
  BY WholeHasBounds, CountCoords

\* Bricks that lie in the field, do not overlap and have as many elements as
\* the field leave no gap.
LEMMA ValidIsTiled ==
  ASSUME OverlapsFit, NEW f, f \in Seq(AllBricks), ValidateField(Lengths, f)
  PROVE  Inside(f) /\ Once(f)
  <1> DEFINE W == Coords(WholeField(Lengths))
             U == UNION {Coords(f[i]) : i \in 1 .. Len(f)}
  <1>1. Inside(f) /\ Apart(f)
    BY ValidIsApart
  <1>2. IsFiniteSet(U) /\ Cardinality(U) = SumElems(f)
    BY <1>1, CountBricks DEF Apart
  <1>3. IsFiniteSet(W) /\ Cardinality(W) = SumElems(f)
    BY WholeCount DEF ValidateField
  <1>4. U \in SUBSET W
    BY <1>1 DEF Inside
  <1> HIDE DEF U, W
  <1>5. W = U
    BY <1>2, <1>3, <1>4, FS_Subset
  <1>6. ASSUME NEW c \in W
        PROVE  Cardinality(Holding(f, c)) = 1
    <2>1. PICK i \in 1 .. Len(f) : c \in Coords(f[i])
      BY <1>5, <1>6 DEF U
    <2>2. \A j \in 1 .. Len(f) : c \in Coords(f[j]) => j = i
      BY <1>1, <2>1 DEF Apart
    <2>3. Holding(f, c) = {i}
      BY <2>1, <2>2 DEF Holding
    <2> QED
      BY <2>3, HoldingFacts
  <1> QED
    BY <1>1, <1>6 DEF Once, W

\* And the other way round, for bricks that have elements.
LEMMA TiledIsApart ==
  ASSUME NEW f, f \in Seq(AllBricks), Inside(f), Once(f)
  PROVE  Apart(f)
  <1> SUFFICES ASSUME NEW i \in 1 .. Len(f), NEW j \in 1 .. Len(f), i # j,
                      NEW c, c \in Coords(f[i]), c \in Coords(f[j])
               PROVE  FALSE
    BY DEF Apart
  <1>1. c \in Coords(WholeField(Lengths))
    BY DEF Inside
  <1>2. \E k : Holding(f, c) = {k}
    BY <1>1, HoldingFacts DEF Once
  <1>3. i \in Holding(f, c) /\ j \in Holding(f, c)
    BY DEF Holding
  <1> QED
    BY <1>2, <1>3

LEMMA ApartIsEmpty ==
  ASSUME OverlapsFit, NEW b \in AllBricks, NEW c \in AllBricks, Coords(b) \cap Coords(c) = {}
  PROVE  Empty(Intersect(b, c))
  <1> DEFINE m == Intersect(b, c)
  <1>1. b \in Brick /\ HasBounds(c)
    BY BrickHasBounds
  <1>2. Dims(b) = D /\ HasBounds(m) /\ Coords(m) = {}
    BY <1>1, IntersectBounds, IntersectIsCommon
  <1>3. \A d \in D : ToInt(Length(m)[d]) = 0 <=> Length(m)[d] = 0
    BY <1>2 DEF OverlapsFit
  <1> HIDE DEF m
  <1>4. /\ Dims(m) = D /\ \A d \in D : m.lower[d] \in Nat /\ m.upper[d] \in Nat
        /\ m.lower \in Vectors
    BY <1>2, BoundsFacts DEF HasBounds
  <1>5. \E d \in D : ~(m.lower[d] < m.upper[d])
    <2> SUFFICES ASSUME \A d \in D : m.lower[d] < m.upper[d] PROVE FALSE
      OBVIOUS
    <2>1. m.lower \in [D -> Int]
      BY <1>4 DEF Vectors, D
    <2>2. \A d \in D : m.lower[d] <= m.lower[d] /\ m.lower[d] < m.upper[d]
      BY <1>4
    <2>3. m.lower \in Coords(m)
      BY <1>4, <2>1, <2>2, CoordsAre
    <2> QED
      BY <1>2, <2>3
  <1>6. PICK d \in D : Length(m)[d] = 0
    <2>1. PICK d \in D : ~(m.lower[d] < m.upper[d])
      BY <1>5
    <2>2. Length(m)[d] = IF m.upper[d] > m.lower[d] THEN m.upper[d] - m.lower[d] ELSE 0
      BY <1>2, LengthFacts
    <2>3. Length(m)[d] = 0
      BY <1>4, <2>1, <2>2
    <2> QED
      BY <2>3
  <1>7. Empty(m)
    BY <1>3, <1>4, <1>6 DEF Empty
  <1> QED
    BY <1>7 DEF m

LEMMA InsideIsEqual ==
  ASSUME NEW b \in AllBricks, Coords(b) # {}, Coords(b) \subseteq Coords(WholeField(Lengths))
  PROVE  EqualCoords(b, Intersect(b, WholeField(Lengths)))
  <1> DEFINE w == WholeField(Lengths)
  <1>1. b \in Brick /\ HasBounds(b) /\ b.lower \in Vectors /\ b.upper \in Vectors
    BY BrickHasBounds DEF HasBounds
  <1>2. HasBounds(w) /\ \A d \in D : w.lower[d] = 0 /\ w.upper[d] = Lengths[d]
    BY WholeHasBounds
  <1>3. \A d \in D : b.lower[d] \in Nat /\ b.upper[d] \in Nat /\ w.upper[d] \in Nat
    BY <1>1, <1>2, BoundsFacts
  <1>4. \A d \in D : b.upper[d] <= w.upper[d]
    BY <1>1, <1>2, InsideBounds
  <1>5. /\ Intersect(b, w).lower = [d \in D |-> MaxOf(b.lower[d], w.lower[d])]
        /\ Intersect(b, w).upper = [d \in D |-> MinOf(b.upper[d], w.upper[d])]
    BY <1>1, <1>2, IntersectBounds
  <1> HIDE DEF w
  <1>6. \A d \in D : MaxOf(b.lower[d], w.lower[d]) = b.lower[d] /\ MinOf(b.upper[d], w.upper[d]) = b.upper[d]
    BY <1>2, <1>3, <1>4 DEF MaxOf, MinOf
  <1>7. b.lower = [d \in D |-> b.lower[d]] /\ b.upper = [d \in D |-> b.upper[d]]
    BY <1>1 DEF Vectors, D
  <1>8. b.lower = Intersect(b, w).lower /\ b.upper = Intersect(b, w).upper
    BY <1>5, <1>6, <1>7
  <1> QED
    BY <1>8 DEF EqualCoords, w

LEMMA TiledIsValid ==
  ASSUME OverlapsFit, NEW f, f \in Seq(AllBricks), Inside(f), Once(f),
         \A i \in 1 .. Len(f) : Coords(f[i]) # {}
  PROVE  ValidateField(Lengths, f)
  <1> DEFINE W == Coords(WholeField(Lengths))
             U == UNION {Coords(f[i]) : i \in 1 .. Len(f)}
  <1>1. DOMAIN f = 1 .. Len(f) /\ \A i \in 1 .. Len(f) : f[i] \in AllBricks
    OBVIOUS
  <1>2. Apart(f)
    BY TiledIsApart
  <1>3. \A i, j \in 1 .. Len(f) : i < j => i # j
    OBVIOUS
  <1>4. \A i, j \in 1 .. Len(f) : i < j => Empty(Intersect(f[i], f[j]))
    BY <1>1, <1>2, <1>3, ApartIsEmpty DEF Apart
  <1>5. \A i \in 1 .. Len(f) : EqualCoords(f[i], Intersect(f[i], WholeField(Lengths)))
    BY <1>1, InsideIsEqual DEF Inside
  <1>6. Cardinality(U) = SumElems(f)
    BY <1>2, CountBricks DEF Apart
  <1>7. U = W
    <2>1. \A c \in U : c \in W
      BY DEF Inside
    <2>2. ASSUME NEW c \in W
          PROVE  c \in U
      <3>1. PICK i : Holding(f, c) = {i}
        BY HoldingFacts DEF Once
      <3>2. i \in 1 .. Len(f) /\ c \in Coords(f[i])
        BY <3>1 DEF Holding
      <3> QED
        BY <3>2
    <2> QED
      BY <2>1, <2>2
  <1>8. SumElems(f) = CountElems(WholeField(Lengths))
    BY <1>6, <1>7, WholeCount
  <1> QED
    BY <1>1, <1>4, <1>5, <1>8 DEF ValidateField

\* The verdict is that of ValidateField on the bricks that were added.
FieldInv ==
  /\ bricks \in Seq(AllBricks) /\ verdict \in {"none", "accepted", "refused"}
  /\ verdict = "accepted" => ValidateField(Lengths, bricks)
  /\ verdict = "refused" => ~ValidateField(Lengths, bricks)

LEMMA FieldInvariant == Spec => []FieldInv
  <1>1. Init => FieldInv
    BY DEF Init, FieldInv
  <1>2. FieldInv /\ [Next]_vars => FieldInv'
    <2> SUFFICES ASSUME FieldInv, [Next]_vars PROVE FieldInv'
      OBVIOUS
    <2>1. CASE Validate
      BY <2>1 DEF Validate, FieldInv
    <2>2. ASSUME NEW b \in AllBricks, AddBrick(b)
          PROVE  FieldInv'
      BY <2>2 DEF AddBrick, FieldInv
    <2>3. CASE UNCHANGED vars
      BY <2>3 DEF vars, FieldInv
    <2> QED
      BY <2>1, <2>2, <2>3 DEF Next
  <1> QED
    BY <1>1, <1>2, PTL DEF Spec

\* ValidateFields accepts exactly the fields that tile the index space of the
\* transform: in any number of dimensions, for any lengths and any bricks with
\* elements, comparing bounds in pairs and adding up element counts is enough,
\* as long as no overlap is so long that an int takes its length for 0.
THEOREM FieldsTile ==
  ASSUME OverlapsFit
  PROVE  Spec => []AcceptedIffTiled
  <1>1. FieldInv => AcceptedIffTiled
    <2> SUFFICES ASSUME FieldInv PROVE AcceptedIffTiled
      OBVIOUS
    <2>1. bricks \in Seq(AllBricks) /\ DOMAIN bricks = 1 .. Len(bricks)
      BY DEF FieldInv
    <2>2. Inside(bricks) <=> \A i \in DOMAIN bricks : Coords(bricks[i]) \subseteq Coords(WholeField(Lengths))
      BY <2>1 DEF Inside
    <2>3. Once(bricks) <=> \A c \in Coords(WholeField(Lengths)) :
                             Cardinality({i \in DOMAIN bricks : c \in Coords(bricks[i])}) = 1
      BY <2>1 DEF Once, Holding
    <2>4. verdict = "accepted" => Inside(bricks) /\ Once(bricks)
      BY <2>1, ValidIsTiled DEF FieldInv
    <2>5. verdict = "refused" => ~Inside(bricks) \/ ~Once(bricks) \/ \E i \in DOMAIN bricks : Coords(bricks[i]) = {}
      BY <2>1, TiledIsValid DEF FieldInv
    <2> QED
      BY <2>2, <2>3, <2>4, <2>5 DEF AcceptedIffTiled
  <1> QED
    BY <1>1, FieldInvariant, PTL

\* A brick that is_contiguous says is contiguous can be copied as it lies, and one
\* that is_contiguous_in_field says is contiguous can be copied between a packed
\* buffer and the field from offset_in_field on, in any number of dimensions,
\* as long as the offset fits in the int in which it is accumulated.
THEOREM ContiguousIsCopied ==
  ASSUME OffsetsFit
  PROVE  Spec => []ContiguousCanBeCopied
  <1>1. FieldInv => ContiguousCanBeCopied
    <2> SUFFICES ASSUME FieldInv, Len(bricks) = 1
                 PROVE  LET b == bricks[1]
                            whole == WholeField(Lengths)
                        IN  /\ IsContiguous(b) /\ b.stride[1] = 1 =>
                                 \A c \in Coords(b) : InMemory(b, c) = InBox(b, c)
                            /\ IsContiguousInField(b, Lengths) /\ Coords(b) \subseteq Coords(whole) =>
                                 \A c \in Coords(b) : InMemory(whole, c) =
                                                        OffsetInField(b, whole.stride) + InBox(b, c)
      BY DEF ContiguousCanBeCopied
    <2>1. bricks[1] \in AllBricks /\ bricks[1] \in Brick
      BY FieldAssumption DEF FieldInv
    <2> QED
      BY <2>1, ContiguousPlaces, InFieldPlaces
  <1> QED
    BY <1>1, FieldInvariant, PTL
==============================================================================
