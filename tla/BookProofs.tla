----------------------------- MODULE BookProofs -----------------------------
(***************************************************************************)
(* Proofs about the book of replay and about the books of the index.       *)
(*                                                                         *)
(* LadderBook, for any prices, quantities and max_depth: the vectors stay  *)
(* sorted, so that the bisection finds what it looks for; the sorted       *)
(* vectors implement the ordered map of BTreeBook; and what a truncated    *)
(* book shows is true.                                                     *)
(*                                                                         *)
(* PitIndex, for any instruments, any size of a block and stores of any    *)
(* length: the book folded from the latest snapshot is the book of the     *)
(* whole stream, and an exported series is true.                           *)
(***************************************************************************)
EXTENDS LadderBook, PitIndex, FiniteSetTheorems, WellFoundedInduction, TLAPS

-----------------------------------------------------------------------------
(* Induction over the naturals, by a least element. *)

\* A set of naturals has a least element.
LEMMA LeastElement ==
  ASSUME NEW T, T \subseteq Nat, T # {}
  PROVE  \E m \in T : \A k \in T : m <= k
<1>1. PICK m \in T : \A k \in T : ~ (<<k, m>> \in OpToRel(<, Nat))
  BY WFMin, NatLessThanWellFounded, Zenon
<1>2. \A k \in T : ~ (k < m)
  BY <1>1, Zenon DEF OpToRel
<1>3. \A k \in T : m <= k
  BY <1>2
<1> QED BY <1>3

\* A set that holds zero and the successor of each of its naturals holds all.
LEMMA Induction ==
  ASSUME NEW T, 0 \in T, \A k \in Nat : k \in T => k + 1 \in T, NEW n \in Nat
  PROVE  n \in T
<1> DEFINE U == {k \in Nat : k \notin T}
<1> SUFFICES ASSUME n \notin T PROVE FALSE
  OBVIOUS
<1>1. U \subseteq Nat /\ U # {}
  OBVIOUS
<1>2. PICK m \in U : \A k \in U : m <= k
  <2> HIDE DEF U
  <2> QED BY <1>1, LeastElement
<1>3. m # 0 /\ m \in Nat
  OBVIOUS
<1>4. m - 1 \in Nat /\ m - 1 \notin U
  BY <1>2, <1>3
<1>5. m - 1 \in T /\ (m - 1) + 1 = m
  BY <1>4
<1> QED BY <1>4, <1>5

-----------------------------------------------------------------------------
(* The bisection. *)

LevelSet == Prices \X Quantities

\* The best level is the last, and no price occurs twice.
Sorted(v, side) ==
  \A i, j \in 1 .. Len(v) : i < j => Worse(side, v[i][1], v[j][1])
IsSide(v, side) == v \in Seq(LevelSet) /\ Sorted(v, side)

\* k levels of the vector are worse than the price, and they come first.
Parts(v, side, price, k) ==
  /\ k \in 0 .. Len(v)
  /\ \A i \in 1 .. k : Worse(side, v[i][1], price)
  /\ \A i \in k + 1 .. Len(v) : ~Worse(side, v[i][1], price)

LEMMA LevelTypes ==
  ASSUME NEW v \in Seq(LevelSet)
  PROVE  /\ Len(v) \in Nat
         /\ \A i \in 1 .. Len(v) :
              v[i] \in LevelSet /\ v[i][1] \in Prices /\ v[i][1] \in Int /\ v[i][2] \in Quantities
<1>1. \A i \in 1 .. Len(v) : v[i] \in LevelSet
  OBVIOUS
<1>2. \A l \in LevelSet : l[1] \in Prices /\ l[1] \in Int /\ l[2] \in Quantities
  BY LadderAssumption DEF LevelSet
<1> QED BY <1>1, <1>2

LEMMA WorseOrder ==
  ASSUME NEW side \in Sides, NEW p \in Int, NEW q \in Int, NEW r \in Int
  PROVE  /\ Worse(side, p, q) /\ Worse(side, q, r) => Worse(side, p, r)
         /\ ~Worse(side, p, p)
         /\ Worse(side, p, q) \/ Worse(side, q, p) \/ p = q
         /\ ~(Worse(side, p, q) /\ Worse(side, q, p))
BY DEF Worse, Sides

\* There is such a place in a sorted vector.
LEMMA PartsExists ==
  ASSUME NEW side \in Sides, NEW v, IsSide(v, side), NEW price \in Int
  PROVE  \E k : Parts(v, side, price, k)
<1> DEFINE n == Len(v)
           T == {i \in 1 .. n + 1 : i = n + 1 \/ ~Worse(side, v[i][1], price)}
<1>1. n \in Nat /\ \A i \in 1 .. n : v[i][1] \in Int
  BY LevelTypes DEF IsSide
<1>2. T \subseteq Nat /\ n + 1 \in T
  BY <1>1
<1>3. PICK m \in T : \A k \in T : m <= k
  <2> HIDE DEF T
  <2> QED BY <1>2, LeastElement
<1>4. m \in 1 .. n + 1 /\ (m = n + 1 \/ ~Worse(side, v[m][1], price))
  OBVIOUS
<1>5. ASSUME NEW i \in 1 .. m - 1 PROVE Worse(side, v[i][1], price)
  <2>1. i \in 1 .. n /\ i < m
    BY <1>1, <1>4
  <2>2. i \notin T
    <3> HIDE DEF T
    <3> QED BY <1>3, <2>1, <1>4
  <2> QED BY <2>1, <2>2
<1>6. ASSUME NEW i \in m .. n PROVE ~Worse(side, v[i][1], price)
  <2>1. i \in 1 .. n /\ m \in 1 .. n /\ ~Worse(side, v[m][1], price)
    BY <1>1, <1>4
  <2>2. i = m \/ Worse(side, v[m][1], v[i][1])
    BY <2>1, <1>4 DEF IsSide, Sorted
  <2> QED BY <1>1, <2>1, <2>2, WorseOrder
<1>7. Parts(v, side, price, m - 1)
  <2>1. m - 1 \in 0 .. n /\ (m - 1) + 1 = m
    BY <1>1, <1>4
  <2> QED BY <2>1, <1>5, <1>6 DEF Parts
<1> QED BY <1>7

\* The bisection as one unfolding of its recursive function.
Halved(g, v, side, price) ==
  [range \in (0 .. Len(v)) \X (0 .. Len(v)) |->
     LET mid == (range[1] + range[2]) \div 2
     IN  IF range[1] = range[2] THEN range[1]
         ELSE IF Worse(side, v[mid + 1][1], price) THEN g[<<mid + 1, range[2]>>]
         ELSE g[<<range[1], mid>>]]
Halves(g, v, side, price) == g = Halved(g, v, side, price)
Bisection(v, side, price) == CHOOSE g : Halves(g, v, side, price)

LEMMA FindUnfolds ==
  ASSUME NEW v, NEW side, NEW price
  PROVE  Find(v, side, price) = Bisection(v, side, price)[<<0, Len(v)>>]
BY DEF Find, Bisection, Halves, Halved

\* The place, as a bisection that has come down to lo .. hi sees it; 0 if
\* there is no such range.
Within(k, lo, hi) ==
  IF hi < lo THEN 0 ELSE IF k < lo THEN lo ELSE IF hi < k THEN hi ELSE k

LEMMA Middle ==
  ASSUME NEW lo \in Nat, NEW hi \in Nat
  PROVE  LET mid == (lo + hi) \div 2
         IN
         /\ mid \in Nat
         /\ lo < hi => lo <= mid /\ mid < hi
         /\ hi < lo => hi <= mid /\ mid < lo
OBVIOUS

\* Either half is chosen so that the place is in it.
LEMMA HalfIsRight ==
  ASSUME NEW side \in Sides, NEW v, IsSide(v, side), NEW price,
         NEW k, Parts(v, side, price, k),
         NEW lo \in 0 .. Len(v), NEW hi \in 0 .. Len(v), lo < hi
  PROVE  LET mid == (lo + hi) \div 2
         IN  /\ mid \in lo .. hi - 1
             /\ Worse(side, v[mid + 1][1], price) =>
                  Within(k, lo, hi) = Within(k, mid + 1, hi)
             /\ ~Worse(side, v[mid + 1][1], price) =>
                  Within(k, lo, hi) = Within(k, lo, mid)
<1> DEFINE n == Len(v)
           mid == (lo + hi) \div 2
<1>1. n \in Nat /\ k \in 0 .. n
  BY LevelTypes DEF IsSide, Parts
<1>2. mid \in Nat /\ lo <= mid /\ mid < hi
  BY <1>1, Middle
<1> HIDE DEF mid
<1>3. mid + 1 \in 0 .. n /\ mid \in 0 .. n /\ mid + 1 \in 1 .. n
  BY <1>1, <1>2
<1>4. ASSUME Worse(side, v[mid + 1][1], price)
      PROVE  Within(k, lo, hi) = Within(k, mid + 1, hi)
  <2>1. mid + 1 <= k
    <3> SUFFICES ASSUME k < mid + 1 PROVE FALSE
      BY <1>1, <1>3
    <3>1. mid + 1 \in k + 1 .. n
      BY <1>1, <1>3
    <3> QED BY <3>1, <1>4 DEF Parts
  <2> QED BY <1>1, <1>2, <1>3, <2>1 DEF Within
<1>5. ASSUME ~Worse(side, v[mid + 1][1], price)
      PROVE  Within(k, lo, hi) = Within(k, lo, mid)
  <2>1. k <= mid
    <3> SUFFICES ASSUME mid < k PROVE FALSE
      BY <1>1, <1>3
    <3>1. mid + 1 \in 1 .. k
      BY <1>1, <1>3
    <3> QED BY <3>1, <1>5 DEF Parts
  <2> QED BY <1>1, <1>2, <1>3, <2>1 DEF Within
<1>6. mid \in lo .. hi - 1
  BY <1>2
<1> QED BY <1>4, <1>5, <1>6 DEF mid

\* There is a function that satisfies the recursion...
LEMMA BisectionExists ==
  ASSUME NEW side \in Sides, NEW v, IsSide(v, side), NEW price \in Int,
         NEW k, Parts(v, side, price, k)
  PROVE  Halves(Bisection(v, side, price), v, side, price)
<1> DEFINE n == Len(v)
           D == (0 .. n) \X (0 .. n)
           g == [range \in D |-> Within(k, range[1], range[2])]
<1>1. n \in Nat /\ k \in 0 .. n
  BY LevelTypes DEF IsSide, Parts
<1>2. ASSUME NEW range \in D
      PROVE  g[range] =
               LET mid == (range[1] + range[2]) \div 2
               IN  IF range[1] = range[2] THEN range[1]
                   ELSE IF Worse(side, v[mid + 1][1], price) THEN g[<<mid + 1, range[2]>>]
                   ELSE g[<<range[1], mid>>]
  <2> DEFINE lo == range[1]
             hi == range[2]
             mid == (lo + hi) \div 2
  <2>1. lo \in 0 .. n /\ hi \in 0 .. n /\ range = <<lo, hi>>
    OBVIOUS
  <2>2. mid \in Nat /\ (lo < hi => lo <= mid /\ mid < hi) /\ (hi < lo => hi <= mid /\ mid < lo)
    <3>1. lo \in Nat /\ hi \in Nat
      BY <2>1
    <3> HIDE DEF lo, hi
    <3> QED BY <3>1, Middle
  <2>3. \A a, b \in 0 .. n : g[<<a, b>>] = Within(k, a, b)
    OBVIOUS
  <2>4. g[range] = Within(k, lo, hi)
    OBVIOUS
  <2> HIDE DEF g
  <2>5. CASE lo = hi
    BY <1>1, <2>1, <2>4, <2>5 DEF Within
  <2>6. CASE lo < hi
    <3>1. /\ mid \in lo .. hi - 1
          /\ Worse(side, v[mid + 1][1], price) => Within(k, lo, hi) = Within(k, mid + 1, hi)
          /\ ~Worse(side, v[mid + 1][1], price) => Within(k, lo, hi) = Within(k, lo, mid)
      BY <2>1, <2>6, HalfIsRight
    <3>2. mid + 1 \in 0 .. n /\ mid \in 0 .. n
      BY <1>1, <2>1, <3>1
    <3>3. g[<<mid + 1, hi>>] = Within(k, mid + 1, hi) /\ g[<<lo, mid>>] = Within(k, lo, mid)
      BY <2>1, <2>3, <3>2
    <3>4. lo # hi
      BY <2>1, <2>6
    <3> HIDE DEF mid, lo, hi
    <3> QED BY <2>4, <3>1, <3>3, <3>4 DEF mid, lo, hi
  <2>7. CASE hi < lo
    <3>1. mid + 1 \in 0 .. n /\ mid \in 0 .. n
      BY <1>1, <2>1, <2>2, <2>7
    <3>2. Within(k, lo, hi) = 0 /\ Within(k, mid + 1, hi) = 0
      BY <2>1, <2>2, <2>7 DEF Within
    <3>3. Within(k, lo, mid) = 0
      BY <2>1, <2>2, <2>7 DEF Within
    <3>4. g[<<mid + 1, hi>>] = 0 /\ g[<<lo, mid>>] = 0
      BY <2>1, <2>3, <3>1, <3>2, <3>3
    <3> QED BY <2>4, <2>7, <3>2, <3>4, <2>1
  <2> QED BY <2>1, <2>5, <2>6, <2>7
<1>3. Halves(g, v, side, price)
  <2>1. g = [range \in D |-> g[range]]
    OBVIOUS
  <2>2. Halved(g, v, side, price) = [range \in D |-> g[range]]
    <3> HIDE DEF g
    <3> QED BY <1>2 DEF Halved
  <2> QED BY <2>1, <2>2, Zenon DEF Halves
<1> QED BY <1>3, Zenon DEF Bisection

\* ... and any comes down to the place.
LEMMA FindIsPlace ==
  ASSUME NEW side \in Sides, NEW v, IsSide(v, side), NEW price \in Int,
         NEW k, Parts(v, side, price, k)
  PROVE  Find(v, side, price) = k
<1> DEFINE n == Len(v)
           b == Bisection(v, side, price)
           T == {d \in Nat : \E lo, hi \in 0 .. n :
                   lo <= hi /\ hi - lo = d /\ b[<<lo, hi>>] # Within(k, lo, hi)}
<1>1. n \in Nat /\ k \in 0 .. n
  BY LevelTypes DEF IsSide, Parts
<1>2. Halves(b, v, side, price)
  BY BisectionExists
<1>3. \A lo, hi \in 0 .. n :
        b[<<lo, hi>>] =
          LET mid == (lo + hi) \div 2
          IN  IF lo = hi THEN lo
              ELSE IF Worse(side, v[mid + 1][1], price) THEN b[<<mid + 1, hi>>]
              ELSE b[<<lo, mid>>]
  <2> HIDE DEF b
  <2> QED BY <1>2 DEF Halves, Halved
<1>4. T = {}
  <2> SUFFICES ASSUME T # {} PROVE FALSE
    OBVIOUS
  <2>1. PICK m \in T : \A d \in T : m <= d
    <3>1. T \subseteq Nat
      OBVIOUS
    <3> HIDE DEF T
    <3> QED BY <3>1, LeastElement
  <2>2. PICK lo \in 0 .. n, hi \in 0 .. n :
          lo <= hi /\ hi - lo = m /\ b[<<lo, hi>>] # Within(k, lo, hi)
    OBVIOUS
  <2>3. \A a, c \in 0 .. n :
          a <= c /\ c - a < m => b[<<a, c>>] = Within(k, a, c)
    <3> SUFFICES ASSUME NEW a \in 0 .. n, NEW c \in 0 .. n, a <= c, c - a < m,
                        b[<<a, c>>] # Within(k, a, c)
                 PROVE  FALSE
      OBVIOUS
    <3>1. c - a \in T
      <4>1. c - a \in Nat
        BY <1>1
      <4> HIDE DEF b
      <4>2. \E lo1, hi1 \in 0 .. n :
              lo1 <= hi1 /\ hi1 - lo1 = c - a /\ b[<<lo1, hi1>>] # Within(k, lo1, hi1)
        <5> WITNESS a \in 0 .. n, c \in 0 .. n
        <5> QED OBVIOUS
      <4> QED BY <4>1, <4>2
    <3>2. m <= c - a
      <4> HIDE DEF T
      <4> QED BY <2>1, <3>1
    <3> QED BY <2>2, <3>2
  <2> HIDE DEF T, b
  <2>4. CASE lo = hi
    <3>1. b[<<lo, hi>>] = lo
      BY <1>3, <2>2, <2>4
    <3> QED BY <1>1, <2>2, <2>4, <3>1 DEF Within
  <2>5. CASE lo < hi
    <3> DEFINE mid == (lo + hi) \div 2
    <3>1. /\ mid \in lo .. hi - 1
          /\ Worse(side, v[mid + 1][1], price) => Within(k, lo, hi) = Within(k, mid + 1, hi)
          /\ ~Worse(side, v[mid + 1][1], price) => Within(k, lo, hi) = Within(k, lo, mid)
      BY <2>5, HalfIsRight
    <3>2. b[<<lo, hi>>] = IF Worse(side, v[mid + 1][1], price) THEN b[<<mid + 1, hi>>]
                          ELSE b[<<lo, mid>>]
      BY <1>3, <2>5
    <3> HIDE DEF mid
    <3>3. /\ mid + 1 \in 0 .. n /\ mid \in 0 .. n
          /\ mid + 1 <= hi /\ hi - (mid + 1) < m /\ lo <= mid /\ mid - lo < m
      BY <1>1, <2>2, <3>1
    <3>4. b[<<mid + 1, hi>>] = Within(k, mid + 1, hi) /\ b[<<lo, mid>>] = Within(k, lo, mid)
      BY <2>3, <3>3
    <3> QED BY <2>2, <3>1, <3>2, <3>4
  <2> QED BY <2>2, <2>4, <2>5
<1>5. b[<<0, n>>] = Within(k, 0, n)
  <2> SUFFICES ASSUME b[<<0, n>>] # Within(k, 0, n) PROVE FALSE
    OBVIOUS
  <2>1. n - 0 \in T
    <3> HIDE DEF b
    <3> QED BY <1>1
  <2> QED BY <1>4, <2>1
<1>6. Within(k, 0, n) = k
  BY <1>1 DEF Within
<1> QED BY <1>5, <1>6, FindUnfolds

-----------------------------------------------------------------------------
(* What an update makes of a vector. *)

\* u is v without its k + 1st level, or with a level put there.
Without(u, v, k) ==
  /\ Len(u) = Len(v) - 1
  /\ \A i \in 1 .. k : u[i] = v[i]
  /\ \A i \in k + 1 .. Len(v) - 1 : u[i] = v[i + 1]
With(u, v, k, l) ==
  /\ Len(u) = Len(v) + 1
  /\ \A i \in 1 .. k : u[i] = v[i]
  /\ u[k + 1] = l
  /\ \A i \in k + 1 .. Len(v) : u[i + 1] = v[i]

LEMMA Removed ==
  ASSUME NEW v \in Seq(LevelSet), NEW k \in 0 .. Len(v) - 1
  PROVE  /\ RemoveAt(v, k + 1) \in Seq(LevelSet)
         /\ Without(RemoveAt(v, k + 1), v, k)
<1> DEFINE a == SubSeq(v, 1, k)
           b == SubSeq(v, k + 2, Len(v))
           u == RemoveAt(v, k + 1)
<1>1. Len(v) \in Nat /\ k \in Nat /\ k < Len(v)
  OBVIOUS
<1>2. u = a \o b
  <2>1. (k + 1) - 1 = k /\ (k + 1) + 1 = k + 2
    BY <1>1
  <2> QED BY <2>1 DEF RemoveAt
<1>3. a \in Seq(LevelSet) /\ Len(a) = k /\ \A i \in 1 .. k : a[i] = v[i]
  BY <1>1
<1>4. /\ b \in Seq(LevelSet) /\ Len(b) = Len(v) - (k + 1)
      /\ \A i \in 1 .. Len(v) - (k + 1) : b[i] = v[i + (k + 1)]
  BY <1>1
<1> HIDE DEF a, b, u
<1>5. u \in Seq(LevelSet) /\ Len(u) = Len(v) - 1
  BY <1>1, <1>2, <1>3, <1>4
<1>6. ASSUME NEW i \in 1 .. k PROVE u[i] = v[i]
  BY <1>1, <1>2, <1>3, <1>4
<1>7. ASSUME NEW i \in k + 1 .. Len(v) - 1 PROVE u[i] = v[i + 1]
  <2>1. u[i] = b[i - k]
    BY <1>1, <1>2, <1>3, <1>4
  <2>2. i - k \in 1 .. Len(v) - (k + 1) /\ (i - k) + (k + 1) = i + 1
    BY <1>1
  <2> QED BY <1>4, <2>1, <2>2
<1>8. u \in Seq(LevelSet) /\ Without(u, v, k)
  BY <1>5, <1>6, <1>7 DEF Without
<1> QED BY <1>8 DEF u

LEMMA Inserted ==
  ASSUME NEW v \in Seq(LevelSet), NEW k \in 0 .. Len(v), NEW l \in LevelSet
  PROVE  /\ InsertAt(v, k + 1, l) \in Seq(LevelSet)
         /\ With(InsertAt(v, k + 1, l), v, k, l)
<1> DEFINE a == SubSeq(v, 1, k)
           b == SubSeq(v, k + 1, Len(v))
           u == InsertAt(v, k + 1, l)
<1>1. Len(v) \in Nat /\ k \in Nat /\ k <= Len(v)
  OBVIOUS
<1>2. u = a \o <<l>> \o b
  <2>1. (k + 1) - 1 = k
    BY <1>1
  <2> QED BY <2>1 DEF InsertAt
<1>3. a \in Seq(LevelSet) /\ Len(a) = k /\ \A i \in 1 .. k : a[i] = v[i]
  BY <1>1
<1>4. /\ b \in Seq(LevelSet) /\ Len(b) = Len(v) - k
      /\ \A i \in 1 .. Len(v) - k : b[i] = v[i + k]
  BY <1>1
<1> HIDE DEF a, b, u
<1>5. PICK c : c = a \o <<l>>
  OBVIOUS
<1>6. c \in Seq(LevelSet) /\ Len(c) = k + 1 /\ c[k + 1] = l /\ \A i \in 1 .. k : c[i] = a[i]
  BY <1>1, <1>3, <1>5
<1>7. u = c \o b
  BY <1>2, <1>5
<1>8. u \in Seq(LevelSet) /\ Len(u) = Len(v) + 1
  BY <1>1, <1>4, <1>6, <1>7
<1>9. u[k + 1] = l /\ \A i \in 1 .. k : u[i] = v[i]
  BY <1>1, <1>3, <1>4, <1>6, <1>7
<1>10. ASSUME NEW i \in k + 1 .. Len(v) PROVE u[i + 1] = v[i]
  <2>1. u[i + 1] = b[i - k]
    BY <1>1, <1>4, <1>6, <1>7
  <2>2. i - k \in 1 .. Len(v) - k /\ (i - k) + k = i
    BY <1>1
  <2> QED BY <1>4, <2>1, <2>2
<1>11. u \in Seq(LevelSet) /\ With(u, v, k, l)
  BY <1>8, <1>9, <1>10 DEF With
<1> QED BY <1>11 DEF u

\* The levels once the one at the price is set.
SetIn(levels, price, qty) ==
  {l \in levels : l[1] # price} \cup (IF qty = 0 THEN {} ELSE {<<price, qty>>})

LEMMA LevelsAre ==
  ASSUME NEW v \in Seq(LevelSet)
  PROVE  \A l : l \in Levels(v) <=> \E i \in 1 .. Len(v) : v[i] = l
BY DEF Levels

\* The levels of other prices keep their order.
LEMMA RemovedIs ==
  ASSUME NEW side \in Sides, NEW v, IsSide(v, side), NEW price \in Int,
         NEW k \in 0 .. Len(v) - 1, v[k + 1][1] = price,
         NEW u \in Seq(LevelSet), Without(u, v, k)
  PROVE  IsSide(u, side) /\ Levels(u) = {l \in Levels(v) : l[1] # price}
<1> DEFINE n == Len(v)
           At(i) == IF i <= k THEN i ELSE i + 1
<1>1. /\ n \in Nat /\ k \in 0 .. n - 1 /\ k + 1 \in 1 .. n
      /\ \A i \in 1 .. n : v[i] \in LevelSet /\ v[i][1] \in Int
  <2>1. v \in Seq(LevelSet) /\ n \in Nat
    BY DEF IsSide
  <2> QED BY <2>1, LevelTypes
<1>2. Len(u) = n - 1
  BY DEF Without
<1>3. \A i \in 1 .. n - 1 : At(i) \in 1 .. n /\ At(i) # k + 1 /\ u[i] = v[At(i)]
  BY <1>1 DEF Without
<1>4. \A i, j \in 1 .. n - 1 : i < j => At(i) < At(j)
  BY <1>1
<1>5. \A j \in 1 .. n : j # k + 1 => \E i \in 1 .. n - 1 : At(i) = j
  <2> SUFFICES ASSUME NEW j \in 1 .. n, j # k + 1 PROVE \E i \in 1 .. n - 1 : At(i) = j
    OBVIOUS
  <2>1. CASE j <= k
    <3>1. j \in 1 .. n - 1 /\ At(j) = j
      BY <1>1, <2>1
    <3> QED BY <3>1
  <2>2. CASE k + 1 < j
    <3>1. j - 1 \in 1 .. n - 1 /\ At(j - 1) = j
      BY <1>1, <2>2
    <3> QED BY <3>1
  <2> QED BY <1>1, <2>1, <2>2
<1> HIDE DEF At
<1>6. \A j \in 1 .. n : j # k + 1 => v[j][1] # price
  <2> SUFFICES ASSUME NEW j \in 1 .. n, j # k + 1 PROVE v[j][1] # price
    OBVIOUS
  <2>1. Worse(side, v[j][1], v[k + 1][1]) \/ Worse(side, v[k + 1][1], v[j][1])
    BY <1>1 DEF IsSide, Sorted
  <2> QED BY <1>1, <2>1, WorseOrder
<1>7. Sorted(u, side)
  BY <1>1, <1>2, <1>3, <1>4 DEF Sorted, IsSide
<1>8. ASSUME NEW l PROVE l \in Levels(u) <=> l \in Levels(v) /\ l[1] # price
  <2>1. l \in Levels(u) <=> \E i \in 1 .. n - 1 : v[At(i)] = l
    <3>1. l \in Levels(u) <=> \E i \in 1 .. Len(u) : u[i] = l
      BY LevelsAre
    <3> QED BY <1>2, <1>3, <3>1
  <2>2. l \in Levels(v) <=> \E j \in 1 .. n : v[j] = l
    BY LevelsAre DEF IsSide
  <2>3. (\E i \in 1 .. n - 1 : v[At(i)] = l) <=> \E j \in 1 .. n : j # k + 1 /\ v[j] = l
    BY <1>3, <1>5
  <2>4. (\E j \in 1 .. n : j # k + 1 /\ v[j] = l) <=> (\E j \in 1 .. n : v[j] = l) /\ l[1] # price
    BY <1>1, <1>6
  <2> QED BY <2>1, <2>2, <2>3, <2>4
<1> QED BY <1>7, <1>8 DEF IsSide

LEMMA InsertedIs ==
  ASSUME NEW side \in Sides, NEW v, IsSide(v, side), NEW price \in Int, NEW qty,
         NEW k, Parts(v, side, price, k), k + 1 \in 1 .. Len(v) => v[k + 1][1] # price,
         NEW u \in Seq(LevelSet), With(u, v, k, <<price, qty>>)
  PROVE  /\ IsSide(u, side)
         /\ Levels(u) = {l \in Levels(v) : l[1] # price} \cup {<<price, qty>>}
<1> DEFINE n == Len(v)
           At(i) == IF i <= k THEN i ELSE i + 1
<1>1. /\ n \in Nat /\ k \in 0 .. n /\ v \in Seq(LevelSet)
      /\ \A i \in 1 .. n : v[i] \in LevelSet /\ v[i][1] \in Int
  BY LevelTypes DEF IsSide, Parts
<1>2. Len(u) = n + 1 /\ u[k + 1] = <<price, qty>> /\ u[k + 1][1] = price
  BY DEF With
<1>3. \A i \in 1 .. n : At(i) \in 1 .. n + 1 /\ At(i) # k + 1 /\ u[At(i)] = v[i]
  BY <1>1 DEF With
<1>4. \A i, j \in 1 .. n : At(i) < At(j) => i < j
  BY <1>1
<1>5. \A j \in 1 .. n + 1 : j # k + 1 => \E i \in 1 .. n : At(i) = j
  <2> SUFFICES ASSUME NEW j \in 1 .. n + 1, j # k + 1 PROVE \E i \in 1 .. n : At(i) = j
    OBVIOUS
  <2>1. CASE j <= k
    BY <1>1, <2>1
  <2>2. CASE k + 1 < j
    <3>1. j - 1 \in 1 .. n /\ At(j - 1) = j
      BY <1>1, <2>2
    <3> QED BY <3>1
  <2> QED BY <1>1, <2>1, <2>2
<1>6. ASSUME NEW i \in 1 .. n
      PROVE  /\ v[i][1] # price
             /\ i <= k => Worse(side, v[i][1], price)
             /\ k < i => Worse(side, price, v[i][1])
  <2>1. CASE i <= k
    <3>1. Worse(side, v[i][1], price)
      BY <1>1, <2>1 DEF Parts
    <3> QED BY <1>1, <2>1, <3>1, WorseOrder
  <2>2. CASE k < i
    <3>1. ~Worse(side, v[i][1], price)
      BY <1>1, <2>2 DEF Parts
    <3>2. v[i][1] # price
      <4>1. k + 1 \in 1 .. n /\ v[k + 1][1] # price /\ ~Worse(side, v[k + 1][1], price)
        BY <1>1, <2>2 DEF Parts
      <4>2. i = k + 1 \/ Worse(side, v[k + 1][1], v[i][1])
        BY <1>1, <2>2, <4>1 DEF IsSide, Sorted
      <4> QED BY <1>1, <4>1, <4>2, WorseOrder
    <3> QED BY <1>1, <2>2, <3>1, <3>2, WorseOrder
  <2> QED BY <1>1, <2>1, <2>2
<1>7. \A i \in 1 .. n : (At(i) < k + 1 => i <= k) /\ (k + 1 < At(i) => k < i)
  BY <1>1
<1> HIDE DEF At
<1>8. Sorted(u, side)
  <2> SUFFICES ASSUME NEW i \in 1 .. n + 1, NEW j \in 1 .. n + 1, i < j
               PROVE  Worse(side, u[i][1], u[j][1])
    BY <1>2 DEF Sorted
  <2>1. CASE i # k + 1 /\ j # k + 1
    <3>1. PICK a \in 1 .. n : At(a) = i
      BY <1>5, <2>1
    <3>2. PICK b \in 1 .. n : At(b) = j
      BY <1>5, <2>1
    <3>3. a < b
      BY <1>4, <3>1, <3>2
    <3> QED BY <1>3, <3>1, <3>2, <3>3 DEF IsSide, Sorted
  <2>2. CASE i = k + 1
    <3>1. PICK b \in 1 .. n : At(b) = j
      BY <1>1, <1>5, <2>2
    <3>2. u[j] = v[b] /\ k < b
      BY <1>3, <1>7, <2>2, <3>1
    <3>3. Worse(side, price, v[b][1])
      BY <1>6, <3>2
    <3> QED BY <1>2, <2>2, <3>2, <3>3
  <2>3. CASE j = k + 1
    <3>1. PICK a \in 1 .. n : At(a) = i
      BY <1>1, <1>5, <2>3
    <3>2. u[i] = v[a] /\ a <= k
      BY <1>3, <1>7, <2>3, <3>1
    <3>3. Worse(side, v[a][1], price)
      BY <1>6, <3>2
    <3> QED BY <1>2, <2>3, <3>2, <3>3
  <2> QED BY <2>1, <2>2, <2>3
<1>9. ASSUME NEW l
      PROVE  l \in Levels(u) <=> (l \in Levels(v) /\ l[1] # price) \/ l = <<price, qty>>
  <2>1. l \in Levels(u) <=> \E j \in 1 .. n + 1 : u[j] = l
    BY <1>2, LevelsAre
  <2>2. l \in Levels(v) <=> \E i \in 1 .. n : v[i] = l
    BY <1>1, LevelsAre
  <2>3. (\E j \in 1 .. n + 1 : u[j] = l) <=>
          (\E i \in 1 .. n : v[i] = l) \/ l = <<price, qty>>
    <3>1. k + 1 \in 1 .. n + 1
      BY <1>1
    <3> QED BY <1>2, <1>3, <1>5, <3>1
  <2>4. (\E i \in 1 .. n : v[i] = l) => l[1] # price
    <3> SUFFICES ASSUME NEW i \in 1 .. n, v[i] = l PROVE l[1] # price
      OBVIOUS
    <3>1. v[i][1] # price
      BY <1>6
    <3> QED BY <3>1
  <2> QED BY <2>1, <2>2, <2>3, <2>4
<1> QED BY <1>8, <1>9 DEF IsSide

Replaces(u, v, k, l) == u = [v EXCEPT ![k + 1] = l]

\* The level at the price, if the bisection has hit one.
LEMMA ReplacedIs ==
  ASSUME NEW side \in Sides, NEW v, IsSide(v, side), NEW price \in Prices, NEW qty \in Quantities,
         NEW k \in 0 .. Len(v) - 1, v[k + 1][1] = price,
         NEW u, Replaces(u, v, k, <<price, qty>>)
  PROVE  /\ IsSide(u, side)
         /\ Levels(u) = {l \in Levels(v) : l[1] # price} \cup {<<price, qty>>}
<1> DEFINE n == Len(v)
<1>1. /\ n \in Nat /\ v \in Seq(LevelSet) /\ k + 1 \in 1 .. n
      /\ \A i \in 1 .. n : v[i] \in LevelSet /\ v[i][1] \in Int
  <2>1. v \in Seq(LevelSet) /\ n \in Nat
    BY DEF IsSide
  <2> QED BY <2>1, LevelTypes
<1>2. /\ u \in Seq(LevelSet) /\ Len(u) = n
      /\ \A i \in 1 .. n : u[i] = IF i = k + 1 THEN <<price, qty>> ELSE v[i]
  <2>1. <<price, qty>> \in LevelSet
    BY DEF LevelSet
  <2> QED BY <1>1, <2>1 DEF Replaces
<1>3. \A i \in 1 .. n : u[i][1] = v[i][1]
  BY <1>1, <1>2
<1>4. Sorted(u, side)
  BY <1>2, <1>3 DEF IsSide, Sorted
<1>5. \A j \in 1 .. n : j # k + 1 => v[j][1] # price
  <2> SUFFICES ASSUME NEW j \in 1 .. n, j # k + 1 PROVE v[j][1] # price
    OBVIOUS
  <2>1. Worse(side, v[j][1], v[k + 1][1]) \/ Worse(side, v[k + 1][1], v[j][1])
    BY <1>1 DEF IsSide, Sorted
  <2> QED BY <1>1, <2>1, WorseOrder
<1>6. ASSUME NEW l
      PROVE  l \in Levels(u) <=> (l \in Levels(v) /\ l[1] # price) \/ l = <<price, qty>>
  <2>1. l \in Levels(u) <=> \E j \in 1 .. n : u[j] = l
    BY <1>2, LevelsAre
  <2>2. l \in Levels(v) <=> \E i \in 1 .. n : v[i] = l
    BY <1>1, LevelsAre
  <2>3. (\E j \in 1 .. n : u[j] = l) <=>
          (\E i \in 1 .. n : i # k + 1 /\ v[i] = l) \/ l = <<price, qty>>
    BY <1>1, <1>2
  <2>4. (\E i \in 1 .. n : i # k + 1 /\ v[i] = l) <=> (\E i \in 1 .. n : v[i] = l) /\ l[1] # price
    BY <1>1, <1>5
  <2> QED BY <2>1, <2>2, <2>3, <2>4
<1>7. Levels(u) = {l \in Levels(v) : l[1] # price} \cup {<<price, qty>>}
  BY <1>6
<1> QED BY <1>2, <1>4, <1>7 DEF IsSide

\* set_level sets what it is asked to set, and the vector stays sorted.
LEMMA UpdatedIs ==
  ASSUME NEW side \in Sides, NEW v, IsSide(v, side), NEW price \in Prices, NEW qty \in Quantities
  PROVE  /\ IsSide(Updated(v, side, price, qty), side)
         /\ Levels(Updated(v, side, price, qty)) = SetIn(Levels(v), price, qty)
<1> DEFINE n == Len(v)
           u == Updated(v, side, price, qty)
<1>1. price \in Int /\ <<price, qty>> \in LevelSet
  BY LadderAssumption DEF LevelSet
<1>2. PICK k : Parts(v, side, price, k)
  BY <1>1, PartsExists
<1>3. Find(v, side, price) = k
  BY <1>1, <1>2, FindIsPlace
<1>4. /\ n \in Nat /\ k \in 0 .. n /\ v \in Seq(LevelSet)
      /\ \A i \in 1 .. n : v[i] \in LevelSet /\ v[i][1] \in Int
  BY <1>2, LevelTypes DEF IsSide, Parts
<1>5. u = IF k + 1 <= n /\ v[k + 1][1] = price
          THEN IF qty = 0 THEN RemoveAt(v, k + 1) ELSE [v EXCEPT ![k + 1] = <<price, qty>>]
          ELSE IF qty = 0 THEN v ELSE InsertAt(v, k + 1, <<price, qty>>)
  BY <1>3 DEF Updated
<1>6. CASE k + 1 <= n /\ v[k + 1][1] = price
  <2>1. k \in 0 .. n - 1
    BY <1>4, <1>6
  <2>2. CASE qty = 0
    <3>1. u = RemoveAt(v, k + 1)
      BY <1>5, <1>6, <2>2
    <3>2. u \in Seq(LevelSet) /\ Without(u, v, k)
      BY <1>4, <2>1, <3>1, Removed
    <3> HIDE DEF u
    <3>3. IsSide(u, side) /\ Levels(u) = {l \in Levels(v) : l[1] # price}
      BY <1>1, <1>6, <2>1, <3>2, RemovedIs
    <3>4. IsSide(u, side) /\ Levels(u) = SetIn(Levels(v), price, qty)
      BY <2>2, <3>3 DEF SetIn
    <3> QED BY <3>4 DEF u
  <2>3. CASE qty # 0
    <3>1. Replaces(u, v, k, <<price, qty>>)
      BY <1>5, <1>6, <2>3 DEF Replaces
    <3> HIDE DEF u
    <3>2. IsSide(u, side) /\ Levels(u) = {l \in Levels(v) : l[1] # price} \cup {<<price, qty>>}
      BY <1>6, <2>1, <3>1, ReplacedIs
    <3>3. IsSide(u, side) /\ Levels(u) = SetIn(Levels(v), price, qty)
      BY <2>3, <3>2 DEF SetIn
    <3> QED BY <3>3 DEF u
  <2> QED BY <2>2, <2>3
<1>7. CASE ~(k + 1 <= n /\ v[k + 1][1] = price)
  <2>1. k + 1 \in 1 .. n => v[k + 1][1] # price
    BY <1>7
  <2>2. CASE qty = 0
    <3>1. u = v
      BY <1>5, <1>7, <2>2
    <3>2. ASSUME NEW i \in 1 .. n PROVE v[i][1] # price
      <4>1. CASE i <= k
        <5>1. Worse(side, v[i][1], price)
          BY <1>2, <1>4, <4>1 DEF Parts
        <5> QED BY <1>1, <1>4, <5>1, WorseOrder
      <4>2. CASE k < i
        <5>1. k + 1 \in 1 .. n /\ v[k + 1][1] # price /\ ~Worse(side, v[k + 1][1], price)
          BY <1>2, <1>4, <2>1, <4>2 DEF Parts
        <5>2. i = k + 1 \/ Worse(side, v[k + 1][1], v[i][1])
          BY <1>4, <4>2, <5>1 DEF IsSide, Sorted
        <5> QED BY <1>1, <1>4, <5>1, <5>2, WorseOrder
      <4> QED BY <1>4, <4>1, <4>2
    <3>3. \A l \in Levels(v) : l[1] # price
      BY <1>4, <3>2, LevelsAre
    <3>4. Levels(v) = SetIn(Levels(v), price, qty)
      BY <2>2, <3>3 DEF SetIn
    <3> QED BY <3>1, <3>4
  <2>3. CASE qty # 0
    <3>1. u = InsertAt(v, k + 1, <<price, qty>>)
      BY <1>5, <1>7, <2>3
    <3>2. u \in Seq(LevelSet) /\ With(u, v, k, <<price, qty>>)
      BY <1>1, <1>4, <3>1, Inserted
    <3> HIDE DEF u
    <3>3. IsSide(u, side) /\ Levels(u) = {l \in Levels(v) : l[1] # price} \cup {<<price, qty>>}
      BY <1>1, <1>2, <2>1, <3>2, InsertedIs
    <3>4. IsSide(u, side) /\ Levels(u) = SetIn(Levels(v), price, qty)
      BY <2>3, <3>3 DEF SetIn
    <3> QED BY <3>4 DEF u
  <2> QED BY <2>2, <2>3
<1> QED BY <1>6, <1>7

-----------------------------------------------------------------------------
(* What truncation makes of a vector. *)

\* How many levels truncation takes away.
Excess(v) == IF MaxDepth = 0 \/ Len(v) <= MaxDepth THEN 0 ELSE Len(v) - MaxDepth

LEMMA TruncatedIs ==
  ASSUME NEW side \in Sides, NEW v, IsSide(v, side)
  PROVE  /\ IsSide(Truncate(v), side)
         /\ Excess(v) \in 0 .. Len(v)
         /\ Len(Truncate(v)) = Len(v) - Excess(v)
         /\ \A i \in 1 .. Len(v) - Excess(v) : Truncate(v)[i] = v[i + Excess(v)]
<1> DEFINE n == Len(v)
           d == Excess(v)
           t == Truncate(v)
<1>1. n \in Nat /\ MaxDepth \in Nat /\ v \in Seq(LevelSet) /\ d \in 0 .. n
  BY LadderAssumption DEF IsSide, Excess
<1>2. t = IF d = 0 THEN v ELSE SubSeq(v, d + 1, n)
  BY <1>1 DEF Truncate, Excess
<1> HIDE DEF d, t
<1>3. t \in Seq(LevelSet) /\ Len(t) = n - d /\ \A i \in 1 .. n - d : t[i] = v[i + d]
  <2>1. CASE d = 0
    BY <1>1, <1>2, <2>1
  <2>2. CASE d # 0
    BY <1>1, <1>2, <2>2
  <2> QED BY <2>1, <2>2
<1>4. Sorted(t, side)
  <2> SUFFICES ASSUME NEW i \in 1 .. n - d, NEW j \in 1 .. n - d, i < j
               PROVE  Worse(side, t[i][1], t[j][1])
    BY <1>3 DEF Sorted
  <2>1. i + d \in 1 .. n /\ j + d \in 1 .. n /\ i + d < j + d
    BY <1>1
  <2>2. Worse(side, v[i + d][1], v[j + d][1])
    BY <2>1 DEF IsSide, Sorted
  <2> QED BY <1>3, <2>2
<1> QED BY <1>1, <1>3, <1>4 DEF IsSide, t, d

-----------------------------------------------------------------------------
(* What a truncated book shows. *)

\* Every price of b is covered by one of c that is as good.
CoveredBy(side, b, c) == \A p \in b : \E q \in c : ~Worse(side, q, p)

\* TruncatedIsTrue for one side: `shown` is the vector of the truncated book,
\* `whole` that of the other, b what was beyond max_depth.
Truth(side, shown, whole, b) ==
  /\ Levels(shown) \subseteq Levels(whole)
  /\ \A l \in Levels(whole) \ Levels(shown) : \E p \in b : ~Worse(side, p, l[1])

\* A level with n levels above it in the one book has as many in any book
\* that has those levels too.
LEMMA DeepStaysDeep ==
  ASSUME NEW side \in Sides, NEW v, IsSide(v, side), NEW w, IsSide(w, side),
         Levels(v) \subseteq Levels(w),
         NEW i \in 1 .. Len(v), NEW j \in 1 .. Len(w), v[i] = w[j]
  PROVE  Len(v) - i <= Len(w) - j
<1> DEFINE n == Len(v)
           m == Len(w)
           S == i + 1 .. n
           T == j + 1 .. m
           g == [h \in S |-> CHOOSE x \in 1 .. m : w[x] = v[h]]
<1>1. /\ n \in Nat /\ m \in Nat
      /\ \A h \in 1 .. n : v[h][1] \in Int
      /\ \A x \in 1 .. m : w[x][1] \in Int
  BY LevelTypes DEF IsSide
<1>2. ASSUME NEW h \in S PROVE g[h] \in T /\ w[g[h]] = v[h]
  <2>1. h \in 1 .. n
    BY <1>1
  <2>2. v[h] \in Levels(w)
    BY <2>1, LevelsAre DEF IsSide
  <2>3. \E x \in 1 .. m : w[x] = v[h]
    BY <2>2, LevelsAre DEF IsSide
  <2>4. g[h] \in 1 .. m /\ w[g[h]] = v[h]
    BY <2>3
  <2> HIDE DEF g
  <2>5. Worse(side, w[j][1], w[g[h]][1])
    <3>1. Worse(side, v[i][1], v[h][1])
      <4>1. i \in 1 .. n /\ h \in 1 .. n /\ i < h
        BY <1>1, <2>1
      <4> HIDE DEF n, S
      <4> QED BY <4>1 DEF IsSide, Sorted, n
    <3> QED BY <2>4, <3>1
  <2>6. ~(g[h] < j) /\ g[h] # j
    <3>1. g[h] < j => Worse(side, w[g[h]][1], w[j][1])
      BY <2>4 DEF IsSide, Sorted
    <3>2. w[g[h]][1] \in Int /\ w[j][1] \in Int
      BY <1>1, <2>4
    <3>3. ~Worse(side, w[g[h]][1], w[j][1]) /\ w[g[h]][1] # w[j][1]
      BY <2>5, <3>2, WorseOrder
    <3> QED BY <3>1, <3>3
  <2> QED BY <1>1, <2>4, <2>6
<1>3. g \in Injection(S, T)
  <2>1. g \in [S -> T]
    BY <1>2
  <2>2. ASSUME NEW a \in S, NEW b \in S, g[a] = g[b] PROVE a = b
    <3>1. v[a] = v[b]
      BY <1>2, <2>2
    <3>2. a \in 1 .. n /\ b \in 1 .. n
      BY <1>1
    <3>3. a < b => Worse(side, v[a][1], v[b][1])
      BY <3>2 DEF IsSide, Sorted
    <3>4. b < a => Worse(side, v[b][1], v[a][1])
      BY <3>2 DEF IsSide, Sorted
    <3> QED BY <1>1, <3>1, <3>2, <3>3, <3>4, WorseOrder
  <2> HIDE DEF g
  <2> QED BY <2>1, <2>2 DEF Injection, IsInjective
<1>4. /\ IsFiniteSet(S) /\ Cardinality(S) = n - i
      /\ IsFiniteSet(T) /\ Cardinality(T) = m - j
  <2>1. i + 1 \in Int /\ n \in Int /\ j + 1 \in Int /\ m \in Int
    BY <1>1
  <2>2. IsFiniteSet(S) /\ Cardinality(S) = IF i + 1 > n THEN 0 ELSE n - (i + 1) + 1
    BY <2>1, FS_Interval
  <2>3. IsFiniteSet(T) /\ Cardinality(T) = IF j + 1 > m THEN 0 ELSE m - (j + 1) + 1
    BY <2>1, FS_Interval
  <2> HIDE DEF S, T
  <2> QED BY <1>1, <2>2, <2>3
<1>5. Cardinality(S) <= Cardinality(T)
  <2> HIDE DEF S, T, g
  <2> QED BY <1>3, <1>4, FS_Injection
<1> HIDE DEF S, T
<1> QED BY <1>4, <1>5

Updates(vv, v, side, price, qty) == vv = Updated(v, side, price, qty)

\* A level set in both books, and the one of them truncated.
LEMMA TruthAfterSet ==
  ASSUME NEW side \in Sides, NEW v, IsSide(v, side), NEW w, IsSide(w, side),
         NEW price \in Prices, NEW qty \in Quantities,
         NEW b, b \subseteq Int, NEW c, c \subseteq Int,
         NEW vv, Updates(vv, v, side, price, qty),
         NEW ww, Updates(ww, w, side, price, qty),
         Truth(side, v, w, b), CoveredBy(side, b, c),
         MaxDepth # 0 => CoveredBy(side, Hidden(ww), c)
  PROVE  Truth(side, Truncate(vv), ww, c)
<1> DEFINE n == Len(vv)
           d == Excess(vv)
           t == Truncate(vv)
<1>1. IsSide(vv, side) /\ Levels(vv) = SetIn(Levels(v), price, qty)
  BY UpdatedIs DEF Updates
<1>2. IsSide(ww, side) /\ Levels(ww) = SetIn(Levels(w), price, qty)
  BY UpdatedIs DEF Updates
<1>3. /\ IsSide(t, side) /\ d \in 0 .. n /\ n \in Nat /\ Len(t) = n - d
      /\ \A i \in 1 .. n - d : t[i] = vv[i + d]
  <2>1. n \in Nat
    BY <1>1 DEF IsSide
  <2> QED BY <1>1, <2>1, TruncatedIs
<1>4. Levels(vv) \subseteq Levels(ww)
  BY <1>1, <1>2 DEF SetIn, Truth
<1> HIDE DEF t, d
<1>5. \A i \in d + 1 .. n : t[i - d] = vv[i] /\ i - d \in 1 .. n - d
  <2> SUFFICES ASSUME NEW i \in d + 1 .. n PROVE t[i - d] = vv[i] /\ i - d \in 1 .. n - d
    OBVIOUS
  <2>1. i - d \in 1 .. n - d /\ (i - d) + d = i
    BY <1>3
  <2> QED BY <1>3, <2>1
<1>6. Levels(t) \subseteq Levels(vv)
  <2> SUFFICES ASSUME NEW l \in Levels(t) PROVE l \in Levels(vv)
    OBVIOUS
  <2>1. PICK i \in 1 .. n - d : t[i] = l
    BY <1>3, LevelsAre DEF IsSide
  <2>2. i + d \in 1 .. n /\ vv[i + d] = l
    BY <1>3, <2>1
  <2> QED BY <1>1, <2>2, LevelsAre DEF IsSide
<1>7. ASSUME NEW l \in Levels(ww), l \notin Levels(t) PROVE \E p \in c : ~Worse(side, p, l[1])
  <2>1. l \in LevelSet /\ l[1] \in Int
    <3>1. PICK j \in 1 .. Len(ww) : ww[j] = l
      BY <1>2, LevelsAre DEF IsSide
    <3> QED BY <1>2, <3>1, LevelTypes DEF IsSide
  <2>2. CASE l \notin Levels(vv)
    <3>1. l \in Levels(w) \ Levels(v)
      BY <1>1, <1>2, <1>7, <2>2 DEF SetIn
    <3>2. PICK p \in b : ~Worse(side, p, l[1])
      BY <3>1 DEF Truth
    <3>3. PICK q \in c : ~Worse(side, q, p)
      BY DEF CoveredBy
    <3> QED BY <2>1, <3>2, <3>3, WorseOrder
  <2>3. CASE l \in Levels(vv)
    <3>1. PICK i \in 1 .. n : vv[i] = l
      BY <1>1, <2>3, LevelsAre DEF IsSide
    <3>2. i <= d
      <4> SUFFICES ASSUME d < i PROVE FALSE
        BY <1>3
      <4>1. i \in d + 1 .. n
        BY <1>3
      <4>2. t[i - d] = l /\ i - d \in 1 .. Len(t)
        BY <1>3, <1>5, <3>1, <4>1
      <4> QED BY <1>3, <1>7, <4>2, LevelsAre DEF IsSide
    <3>3. MaxDepth # 0 /\ d = n - MaxDepth
      BY <1>3, <3>1, <3>2 DEF d, Excess
    <3>4. PICK j \in 1 .. Len(ww) : ww[j] = l
      BY <1>2, <1>7, LevelsAre DEF IsSide
    <3>5. n - i <= Len(ww) - j
      BY <1>1, <1>2, <1>4, <3>1, <3>4, DeepStaysDeep
    <3>6. Len(ww) \in Nat /\ MaxDepth \in Nat
      BY <1>2, LadderAssumption DEF IsSide
    <3>7. j + MaxDepth <= Len(ww)
      BY <1>3, <3>2, <3>3, <3>5, <3>6
    <3>8. j \in DOMAIN ww
      BY <1>2 DEF IsSide
    <3>9. l[1] \in Hidden(ww)
      BY <3>4, <3>7, <3>8 DEF Hidden
    <3> QED BY <3>3, <3>9 DEF CoveredBy
  <2> QED BY <2>2, <2>3
<1>8. Truth(side, t, ww, c)
  BY <1>4, <1>6, <1>7 DEF Truth
<1> QED BY <1>8 DEF t

\* c is what `beyond` becomes of b, with w the vector without max_depth.
IsBeyond(c, side, b, w) ==
  c = IF MaxDepth = 0 THEN {} ELSE BestOf(side, b \cup Hidden(w))

\* What has been beyond max_depth is kept in its best price.
LEMMA BestCovers ==
  ASSUME NEW side \in Sides, NEW w, IsSide(w, side), MaxDepth # 0,
         NEW b, b \subseteq Prices, \A p, q \in b : p = q,
         NEW c, IsBeyond(c, side, b, w)
  PROVE  /\ c \subseteq Prices /\ \A p, q \in c : p = q
         /\ CoveredBy(side, b, c) /\ CoveredBy(side, Hidden(w), c)
<1> DEFINE n == Len(w)
           H == Hidden(w)
           k == n - MaxDepth
<1>1. /\ n \in Nat /\ MaxDepth \in Nat /\ Prices \subseteq Int
      /\ \A i \in 1 .. n : w[i][1] \in Prices /\ w[i][1] \in Int
  BY LevelTypes, LadderAssumption DEF IsSide
<1>2. \A p : p \in H <=> \E i \in 1 .. n : i + MaxDepth <= n /\ w[i][1] = p
  <2>1. DOMAIN w = 1 .. n
    BY DEF IsSide
  <2> QED BY <2>1 DEF Hidden
<1>3. H \subseteq Prices
  BY <1>1, <1>2
<1>4. c = {p \in b \cup H : \A q \in b \cup H : ~Worse(side, p, q)}
  BY DEF BestOf, IsBeyond
<1> HIDE DEF H
<1>5. H = {} \/ \E h \in H : \A p \in H : ~Worse(side, h, p)
  <2>1. CASE k < 1
    BY <1>1, <1>2, <2>1
  <2>2. CASE k >= 1
    <3>1. k \in 1 .. n /\ k + MaxDepth <= n
      BY <1>1, <2>2
    <3>2. w[k][1] \in H
      BY <1>2, <3>1
    <3>3. ASSUME NEW p \in H PROVE ~Worse(side, w[k][1], p)
      <4>1. PICK i \in 1 .. n : i + MaxDepth <= n /\ w[i][1] = p
        BY <1>2
      <4>2. i = k \/ i < k
        BY <1>1, <4>1
      <4>3. i < k => Worse(side, w[i][1], w[k][1])
        BY <3>1 DEF IsSide, Sorted
      <4> QED BY <1>1, <3>1, <4>1, <4>2, <4>3, WorseOrder
    <3> QED BY <3>2, <3>3
  <2> QED BY <1>1, <2>1, <2>2
<1>6. b \cup H = {} \/ \E m \in b \cup H : \A p \in b \cup H : ~Worse(side, m, p)
  <2>1. CASE b = {}
    BY <1>5, <2>1
  <2>2. ASSUME NEW x \in b PROVE \E m \in b \cup H : \A p \in b \cup H : ~Worse(side, m, p)
    <3>1. b = {x} /\ x \in Int
      BY <1>1
    <3>2. CASE H = {}
      BY <3>1, <3>2, WorseOrder
    <3>3. ASSUME NEW h \in H, \A p \in H : ~Worse(side, h, p)
          PROVE  \E m \in b \cup H : \A p \in b \cup H : ~Worse(side, m, p)
      <4>1. h \in Int /\ \A p \in H : p \in Int
        BY <1>1, <1>3
      <4>2. CASE Worse(side, x, h)
        <5>1. \A p \in b \cup H : ~Worse(side, h, p)
          BY <3>1, <3>3, <4>1, <4>2, WorseOrder
        <5> QED BY <5>1
      <4>3. CASE ~Worse(side, x, h)
        <5>1. \A p \in b \cup H : ~Worse(side, x, p)
          BY <3>1, <3>3, <4>1, <4>3, WorseOrder
        <5> QED BY <5>1, <3>1
      <4> QED BY <4>2, <4>3
    <3> QED BY <1>5, <3>2, <3>3
  <2> QED BY <2>1, <2>2
<1>7. CoveredBy(side, b \cup H, c)
  BY <1>4, <1>6 DEF CoveredBy
<1>8. c \subseteq Prices
  BY <1>3, <1>4
<1>9. \A p, q \in c : p = q
  BY <1>1, <1>4, <1>8, WorseOrder
<1>10. CoveredBy(side, b, c) /\ CoveredBy(side, H, c)
  BY <1>7 DEF CoveredBy
<1> QED BY <1>8, <1>9, <1>10 DEF H

-----------------------------------------------------------------------------
(* A sorted vector as a map. *)

LEMMA OnePerPrice ==
  ASSUME NEW side \in Sides, NEW v, IsSide(v, side),
         NEW l \in Levels(v), NEW m \in Levels(v), l[1] = m[1]
  PROVE  l = m
<1>1. PICK i \in 1 .. Len(v) : v[i] = l
  BY LevelsAre DEF IsSide
<1>2. PICK j \in 1 .. Len(v) : v[j] = m
  BY LevelsAre DEF IsSide
<1>3. v[i][1] \in Int /\ v[j][1] \in Int /\ Len(v) \in Nat
  BY LevelTypes DEF IsSide
<1>4. i < j => Worse(side, v[i][1], v[j][1])
  BY DEF IsSide, Sorted
<1>5. j < i => Worse(side, v[j][1], v[i][1])
  BY DEF IsSide, Sorted
<1> QED BY <1>1, <1>2, <1>3, <1>4, <1>5, WorseOrder

\* The map holds the levels of the vector and no others.
IsMapOf(m, v) ==
  /\ m = [p \in PricesOf(v) |-> m[p]]
  /\ \A l \in Levels(v) : m[l[1]] = l[2]

LEMMA AsMapIs ==
  ASSUME NEW side \in Sides, NEW v, IsSide(v, side)
  PROVE  IsMapOf(AsMap(v), v)
<1> DEFINE m == AsMap(v)
<1>1. m = [p \in PricesOf(v) |-> (CHOOSE l \in Levels(v) : l[1] = p)[2]]
  BY DEF AsMap
<1>2. ASSUME NEW l \in Levels(v) PROVE m[l[1]] = l[2]
  <2>1. l[1] \in PricesOf(v)
    BY DEF PricesOf
  <2> DEFINE x == CHOOSE y \in Levels(v) : y[1] = l[1]
  <2>2. x \in Levels(v) /\ x[1] = l[1]
    OBVIOUS
  <2>3. m[l[1]] = x[2]
    BY <1>1, <2>1
  <2> HIDE DEF x
  <2> QED BY <2>2, <2>3, OnePerPrice
<1>3. m = [p \in PricesOf(v) |-> m[p]]
  BY <1>1
<1> HIDE DEF m
<1>4. IsMapOf(m, v)
  BY <1>2, <1>3 DEF IsMapOf
<1> QED BY <1>4 DEF m

\* Two maps of the same levels are the same.
LEMMA MapsEqual ==
  ASSUME NEW v, NEW w, NEW m, NEW o, Levels(v) = Levels(w), IsMapOf(m, v), IsMapOf(o, w)
  PROVE  m = o
<1>1. PricesOf(v) = PricesOf(w)
  BY DEF PricesOf
<1>2. ASSUME NEW p \in PricesOf(v) PROVE m[p] = o[p]
  <2>1. PICK l \in Levels(v) : l[1] = p
    BY DEF PricesOf
  <2> QED BY <2>1 DEF IsMapOf
<1> QED BY <1>1, <1>2 DEF IsMapOf

\* The map set_level of BTreeBook leaves before truncation.
SetMap(map, price, qty) ==
  IF qty = 0 THEN Map!Restrict(map, DOMAIN map \ {price})
  ELSE [p \in DOMAIN map \cup {price} |-> IF p = price THEN qty ELSE map[p]]

LEMMA SetMapIs ==
  ASSUME NEW v \in Seq(LevelSet), NEW u, NEW price, NEW qty, NEW m,
         Levels(u) = SetIn(Levels(v), price, qty), IsMapOf(m, v)
  PROVE  IsMapOf(SetMap(m, price, qty), u)
<1> DEFINE o == SetMap(m, price, qty)
<1>1. DOMAIN m = PricesOf(v)
  BY DEF IsMapOf
<1>2. CASE qty = 0
  <2>1. Levels(u) = {l \in Levels(v) : l[1] # price}
    BY <1>2 DEF SetIn
  <2>2. PricesOf(u) = PricesOf(v) \ {price}
    BY <2>1 DEF PricesOf
  <2>3. o = [p \in PricesOf(u) |-> m[p]]
    BY <1>1, <1>2, <2>2 DEF SetMap, Map!Restrict
  <2> HIDE DEF o
  <2>4. ASSUME NEW l \in Levels(u) PROVE o[l[1]] = l[2]
    <3>1. l \in Levels(v) /\ l[1] \in PricesOf(u)
      BY <2>1 DEF PricesOf
    <3> QED BY <2>3, <3>1 DEF IsMapOf
  <2>5. o = [p \in PricesOf(u) |-> o[p]]
    BY <2>3
  <2>6. IsMapOf(o, u)
    BY <2>4, <2>5 DEF IsMapOf
  <2> QED BY <2>6 DEF o
<1>3. CASE qty # 0
  <2>1. Levels(u) = {l \in Levels(v) : l[1] # price} \cup {<<price, qty>>}
    BY <1>3 DEF SetIn
  <2>2. PricesOf(u) = PricesOf(v) \cup {price}
    <3>1. ASSUME NEW p \in PricesOf(u) PROVE p \in PricesOf(v) \cup {price}
      BY <2>1 DEF PricesOf
    <3>2. price \in PricesOf(u)
      <4>1. <<price, qty>> \in Levels(u) /\ <<price, qty>>[1] = price
        BY <2>1
      <4> QED BY <4>1 DEF PricesOf
    <3>3. ASSUME NEW p \in PricesOf(v), p # price PROVE p \in PricesOf(u)
      BY <2>1, <3>3 DEF PricesOf
    <3> QED BY <3>1, <3>2, <3>3
  <2>3. o = [p \in PricesOf(u) |-> IF p = price THEN qty ELSE m[p]]
    BY <1>1, <1>3, <2>2 DEF SetMap
  <2> HIDE DEF o
  <2>4. ASSUME NEW l \in Levels(u) PROVE o[l[1]] = l[2]
    <3>1. l[1] \in PricesOf(u)
      BY DEF PricesOf
    <3>2. CASE l = <<price, qty>>
      <4>1. l[1] = price /\ l[2] = qty
        BY <3>2
      <4> QED BY <2>3, <3>1, <4>1
    <3>3. CASE l \in Levels(v) /\ l[1] # price
      BY <2>3, <3>1, <3>3 DEF IsMapOf
    <3> QED BY <2>1, <3>2, <3>3
  <2>5. o = [p \in PricesOf(u) |-> o[p]]
    BY <2>3
  <2>6. IsMapOf(o, u)
    BY <2>4, <2>5 DEF IsMapOf
  <2> QED BY <2>6 DEF o
<1> QED BY <1>2, <1>3

\* How many prices are better than that of a level.
LEMMA BetterCount ==
  ASSUME NEW side \in Sides, NEW v, IsSide(v, side), NEW i \in 1 .. Len(v)
  PROVE  Cardinality({q \in PricesOf(v) : Worse(side, v[i][1], q)}) = Len(v) - i
<1> DEFINE n == Len(v)
           S == i + 1 .. n
           T == {q \in PricesOf(v) : Worse(side, v[i][1], q)}
           g == [j \in S |-> v[j][1]]
<1>1. /\ n \in Nat
      /\ \A h \in 1 .. n : v[h][1] \in Int
  BY LevelTypes DEF IsSide
<1>2. \A p : p \in PricesOf(v) <=> \E j \in 1 .. n : v[j][1] = p
  <2>1. DOMAIN v = 1 .. n
    BY DEF IsSide
  <2> QED BY <2>1 DEF PricesOf, Levels
<1>3. ASSUME NEW j \in 1 .. n PROVE Worse(side, v[i][1], v[j][1]) <=> j \in S
  <2>1. i < j => Worse(side, v[i][1], v[j][1])
    BY DEF IsSide, Sorted
  <2>2. j < i => Worse(side, v[j][1], v[i][1])
    BY DEF IsSide, Sorted
  <2>3. j = i => ~Worse(side, v[i][1], v[j][1])
    BY <1>1, WorseOrder
  <2> QED BY <1>1, <2>1, <2>2, <2>3, WorseOrder
<1>4. g \in Bijection(S, T)
  <2>0. \A j \in S : j \in 1 .. n
    BY <1>1
  <2>1. g \in [S -> T]
    BY <1>2, <1>3, <2>0
  <2>2. ASSUME NEW a \in S, NEW b \in S, g[a] = g[b] PROVE a = b
    <3>1. a \in 1 .. n /\ b \in 1 .. n /\ v[a][1] = v[b][1]
      BY <2>0, <2>2
    <3>2. a < b => Worse(side, v[a][1], v[b][1])
      BY <3>1 DEF IsSide, Sorted
    <3>3. b < a => Worse(side, v[b][1], v[a][1])
      BY <3>1 DEF IsSide, Sorted
    <3> QED BY <1>1, <3>1, <3>2, <3>3, WorseOrder
  <2>3. ASSUME NEW t \in T PROVE \E s \in S : g[s] = t
    <3>1. PICK j \in 1 .. n : v[j][1] = t
      BY <1>2
    <3>2. j \in S
      BY <1>3, <3>1
    <3> QED BY <3>1, <3>2
  <2> HIDE DEF g, S, T
  <2> QED BY <2>1, <2>2, <2>3 DEF Bijection, Injection, IsInjective, Surjection
<1>5. IsFiniteSet(S) /\ Cardinality(S) = n - i
  <2>1. i + 1 \in Int /\ n \in Int
    BY <1>1
  <2>2. IsFiniteSet(S) /\ Cardinality(S) = IF i + 1 > n THEN 0 ELSE n - (i + 1) + 1
    BY <2>1, FS_Interval
  <2> HIDE DEF S
  <2> QED BY <1>1, <2>2
<1>6. Cardinality(T) = Cardinality(S)
  <2> HIDE DEF g, S, T
  <2>1. ExistsBijection(S, T)
    BY <1>4 DEF ExistsBijection
  <2> QED BY <1>5, <2>1, FS_Bijection
<1> QED BY <1>5, <1>6

\* The cardinality of the instance is that of the library.
LEMMA SameCardinality ==
  ASSUME NEW S
  PROVE  Map!Cardinality(S) = Cardinality(S)
BY Zenon DEF Map!Cardinality, Cardinality

\* The truncated vector is the truncated map.
LEMMA TruncateMapIs ==
  ASSUME NEW side \in Sides, NEW v, IsSide(v, side), NEW m, IsMapOf(m, v)
  PROVE  IsMapOf(Map!Truncate(side, m), Truncate(v))
<1> DEFINE n == Len(v)
           d == Excess(v)
           t == Truncate(v)
           o == Map!Truncate(side, m)
<1>1. /\ IsSide(t, side) /\ d \in 0 .. n /\ Len(t) = n - d /\ n \in Nat
      /\ \A i \in 1 .. n - d : t[i] = v[i + d]
  <2>1. n \in Nat
    BY DEF IsSide
  <2> QED BY <2>1, TruncatedIs
<1>2. CASE MaxDepth = 0
  BY <1>2 DEF Truncate, Map!Truncate
<1>3. CASE MaxDepth # 0
  <2> DEFINE Kept == {p \in PricesOf(v) :
                        Cardinality({q \in PricesOf(v) : Worse(side, p, q)}) < MaxDepth}
  <2>1. DOMAIN m = PricesOf(v)
    BY DEF IsMapOf
  <2>2. o = [p \in Kept |-> m[p]]
    BY <1>3, <2>1, SameCardinality DEF Map!Truncate, Map!Restrict, Map!Worse, Worse
  <2>3. \A p : p \in PricesOf(v) <=> \E i \in 1 .. n : v[i][1] = p
    <3>1. DOMAIN v = 1 .. n
      BY DEF IsSide
    <3> QED BY <3>1 DEF PricesOf, Levels
  <2>4. \A p : p \in PricesOf(t) <=> \E i \in 1 .. n - d : t[i][1] = p
    <3>1. DOMAIN t = 1 .. n - d
      BY <1>1 DEF IsSide
    <3> HIDE DEF t, d
    <3> QED BY <3>1 DEF PricesOf, Levels
  <2>5. ASSUME NEW i \in 1 .. n PROVE v[i][1] \in Kept <=> d < i
    <3>1. Cardinality({q \in PricesOf(v) : Worse(side, v[i][1], q)}) = n - i
      BY BetterCount
    <3>2. v[i][1] \in PricesOf(v)
      BY <2>3
    <3>3. v[i][1] \in Kept <=> n - i < MaxDepth
      BY <3>1, <3>2
    <3>4. n - i < MaxDepth <=> d < i
      BY <1>1, <1>3, LadderAssumption DEF Excess
    <3> QED BY <3>3, <3>4
  <2> HIDE DEF Kept, t, d, o
  <2>6. Kept = PricesOf(t)
    <3>1. ASSUME NEW p \in Kept PROVE p \in PricesOf(t)
      <4>1. PICK i \in 1 .. n : v[i][1] = p
        BY <2>3 DEF Kept
      <4>2. d < i
        BY <2>5, <4>1
      <4>3. i - d \in 1 .. n - d /\ (i - d) + d = i
        BY <1>1, <4>2
      <4>4. t[i - d] = v[i]
        BY <1>1, <4>3
      <4> QED BY <2>4, <4>1, <4>3, <4>4
    <3>2. ASSUME NEW p \in PricesOf(t) PROVE p \in Kept
      <4>1. PICK i \in 1 .. n - d : t[i][1] = p
        BY <2>4
      <4>2. i + d \in 1 .. n /\ d < i + d /\ t[i] = v[i + d]
        BY <1>1
      <4> QED BY <2>5, <4>1, <4>2
    <3> QED BY <3>1, <3>2
  <2>7. ASSUME NEW l \in Levels(t) PROVE o[l[1]] = l[2]
    <3>1. PICK i \in 1 .. n - d : t[i] = l
      BY <1>1, LevelsAre DEF IsSide
    <3>2. i + d \in 1 .. n /\ v[i + d] = l
      BY <1>1, <3>1
    <3>3. l \in Levels(v)
      BY <3>2, LevelsAre DEF IsSide
    <3>4. l[1] \in PricesOf(t)
      BY DEF PricesOf
    <3> QED BY <2>2, <2>6, <3>3, <3>4 DEF IsMapOf
  <2>8. o = [p \in PricesOf(t) |-> o[p]]
    BY <2>2, <2>6
  <2>9. IsMapOf(o, t)
    BY <2>7, <2>8 DEF IsMapOf
  <2> QED BY <2>9 DEF o, t
<1> QED BY <1>2, <1>3

\* The best level of the map is the last of the vector.
LEMMA BestIsTop ==
  ASSUME NEW side \in Sides, NEW v, IsSide(v, side), NEW m, IsMapOf(m, v)
  PROVE  Map!Best(side, m) = IF v = <<>> THEN {} ELSE {Top(v)}
<1> DEFINE n == Len(v)
<1>1. /\ n \in Nat /\ v \in Seq(LevelSet)
      /\ \A i \in 1 .. n : v[i] \in LevelSet /\ v[i][1] \in Int
  <2>1. n \in Nat /\ v \in Seq(LevelSet)
    BY DEF IsSide
  <2> QED BY <2>1, LevelTypes
<1>2. DOMAIN m = PricesOf(v)
  BY DEF IsMapOf
<1>3. Map!Best(side, m) =
        {<<p, m[p]>> : p \in {q \in PricesOf(v) : \A r \in PricesOf(v) : ~Worse(side, q, r)}}
  BY <1>2 DEF Map!Best, Map!Worse, Worse
<1>4. \A p : p \in PricesOf(v) <=> \E i \in 1 .. n : v[i][1] = p
  <2>1. DOMAIN v = 1 .. n
    BY <1>1
  <2> QED BY <2>1 DEF PricesOf, Levels
<1>5. CASE v = <<>>
  <2>1. PricesOf(v) = {}
    BY <1>4, <1>5
  <2> QED BY <1>3, <1>5, <2>1
<1>6. CASE v # <<>>
  <2>1. n \in 1 .. n /\ Top(v) = v[n]
    BY <1>1, <1>6 DEF Top, Last
  <2>2. {q \in PricesOf(v) : \A r \in PricesOf(v) : ~Worse(side, q, r)} = {v[n][1]}
    <3>1. ASSUME NEW i \in 1 .. n PROVE i = n \/ Worse(side, v[i][1], v[n][1])
      BY <1>1, <2>1 DEF IsSide, Sorted
    <3>2. \A r \in PricesOf(v) : r \in Int /\ (r = v[n][1] \/ Worse(side, r, v[n][1]))
      BY <1>1, <1>4, <3>1
    <3>3. v[n][1] \in PricesOf(v) /\ v[n][1] \in Int
      BY <1>1, <1>4, <2>1
    <3>4. \A r \in PricesOf(v) : ~Worse(side, v[n][1], r)
      BY <3>2, <3>3, WorseOrder
    <3> QED BY <3>2, <3>3, <3>4
  <2>3. Map!Best(side, m) = {<<v[n][1], m[v[n][1]]>>}
    BY <1>3, <2>2
  <2>4. v[n] \in Levels(v)
    BY <1>1, <2>1, LevelsAre
  <2>5. m[v[n][1]] = v[n][2]
    BY <2>4 DEF IsMapOf
  <2>6. v[n] = <<v[n][1], v[n][2]>>
    BY <1>1, <2>1 DEF LevelSet
  <2> QED BY <1>6, <2>1, <2>3, <2>5, <2>6
<1> QED BY <1>5, <1>6

\* The tops differ in the vectors as they do in the maps.
LEMMA TopsDiffer ==
  ASSUME NEW side \in Sides, NEW v, IsSide(v, side), NEW w, IsSide(w, side)
  PROVE  Top(v) # Top(w) <=> Map!Best(side, AsMap(v)) # Map!Best(side, AsMap(w))
<1>1. Map!Best(side, AsMap(v)) = IF v = <<>> THEN {} ELSE {Top(v)}
  BY AsMapIs, BestIsTop
<1>2. Map!Best(side, AsMap(w)) = IF w = <<>> THEN {} ELSE {Top(w)}
  BY AsMapIs, BestIsTop
<1>3. ASSUME NEW u, IsSide(u, side), u # <<>> PROVE Top(u) # <<>>
  <2>1. u \in Seq(LevelSet) /\ Len(u) \in 1 .. Len(u) /\ Top(u) = u[Len(u)]
    BY <1>3 DEF Top, Last, IsSide
  <2>2. Top(u) \in LevelSet
    BY <2>1
  <2> QED BY <2>2 DEF LevelSet
<1>4. (v = <<>> => Top(v) = <<>>) /\ (w = <<>> => Top(w) = <<>>)
  BY DEF Top
<1>5. (v # <<>> => Top(v) # <<>>) /\ (w # <<>> => Top(w) # <<>>)
  BY <1>3
<1> QED BY <1>1, <1>2, <1>4, <1>5

-----------------------------------------------------------------------------
(* The invariant. *)

BookSet == [sync : SyncStates, levels : [Sides -> Seq(LevelSet)]]

LadderType ==
  /\ ladder \in BookSet /\ full \in BookSet
  /\ beyond \in [Sides -> SUBSET Prices]
  /\ ladder.sync = full.sync

\* The vectors of both books are sorted, the one within its depth.
BothSorted ==
  \A side \in Sides :
    /\ Sorted(ladder.levels[side], side)
    /\ Sorted(full.levels[side], side)
DepthKept == \A side \in Sides : Excess(ladder.levels[side]) = 0

\* Of what was beyond max_depth only one price is kept, none if there is no
\* limit.
OneBeyond ==
  \A side \in Sides :
    /\ \A p, q \in beyond[side] : p = q
    /\ MaxDepth = 0 => beyond[side] = {}

ShowsTruth ==
  \A side \in Sides : Truth(side, ladder.levels[side], full.levels[side], beyond[side])

LadderInv == LadderType /\ BothSorted /\ DepthKept /\ OneBeyond /\ ShowsTruth

LEMMA InvBySide ==
  ASSUME LadderInv, NEW side \in Sides
  PROVE  /\ IsSide(ladder.levels[side], side) /\ IsSide(full.levels[side], side)
         /\ Excess(ladder.levels[side]) = 0
         /\ beyond[side] \subseteq Prices /\ \A p, q \in beyond[side] : p = q
         /\ MaxDepth = 0 => beyond[side] = {}
         /\ Truth(side, ladder.levels[side], full.levels[side], beyond[side])
<1>1. ladder.levels[side] \in Seq(LevelSet) /\ full.levels[side] \in Seq(LevelSet)
  BY DEF LadderInv, LadderType, BookSet
<1>2. beyond[side] \subseteq Prices
  BY DEF LadderInv, LadderType
<1>3. Sorted(ladder.levels[side], side) /\ Sorted(full.levels[side], side)
  BY DEF LadderInv, BothSorted
<1>4. Excess(ladder.levels[side]) = 0
  BY DEF LadderInv, DepthKept
<1>5. (\A p, q \in beyond[side] : p = q) /\ (MaxDepth = 0 => beyond[side] = {})
  BY DEF LadderInv, OneBeyond
<1>6. Truth(side, ladder.levels[side], full.levels[side], beyond[side])
  BY DEF LadderInv, ShowsTruth
<1> QED BY <1>1, <1>2, <1>3, <1>4, <1>5, <1>6 DEF IsSide

\* Truncation leaves no more levels than max_depth.
LEMMA NoExcess ==
  ASSUME NEW side \in Sides, NEW v, IsSide(v, side)
  PROVE  Excess(Truncate(v)) = 0
<1>1. Len(Truncate(v)) = Len(v) - Excess(v) /\ Len(v) \in Nat /\ MaxDepth \in Nat
  BY TruncatedIs, LadderAssumption DEF IsSide
<1> QED BY <1>1 DEF Excess

LEMMA EmptySide ==
  ASSUME NEW side \in Sides
  PROVE  /\ IsSide(<<>>, side) /\ Excess(<<>>) = 0 /\ Levels(<<>>) = {}
         /\ \A b : Truth(side, <<>>, <<>>, b)
<1>1. <<>> \in Seq(LevelSet) /\ Sorted(<<>>, side)
  BY DEF Sorted
<1>2. Levels(<<>>) = {}
  BY DEF Levels
<1>3. Excess(<<>>) = 0
  BY LadderAssumption DEF Excess
<1> QED BY <1>1, <1>2, <1>3 DEF IsSide, Truth

LEMMA LadderStart == Init => LadderInv
<1> SUFFICES ASSUME Init PROVE LadderInv
  OBVIOUS
<1>1. NoLevels \in [Sides -> Seq(LevelSet)] /\ \A side \in Sides : NoLevels[side] = <<>>
  BY DEF NoLevels
<1>2. NoneBeyond \in [Sides -> SUBSET Prices] /\ \A side \in Sides : NoneBeyond[side] = {}
  BY DEF NoneBeyond
<1>3. /\ ladder.levels = NoLevels /\ full.levels = NoLevels /\ beyond = NoneBeyond
      /\ ladder.sync = "Unsynced" /\ full.sync = "Unsynced"
  BY DEF Init
<1>4. LadderType
  BY <1>1, <1>2 DEF Init, LadderType, BookSet, SyncStates
<1>5. BothSorted
  BY <1>1, <1>3, EmptySide DEF BothSorted, IsSide
<1>6. DepthKept
  BY <1>1, <1>3, EmptySide DEF DepthKept
<1>7. OneBeyond
  BY <1>2, <1>3 DEF OneBeyond
<1>8. ShowsTruth
  BY <1>1, <1>3, EmptySide DEF ShowsTruth
<1> QED BY <1>4, <1>5, <1>6, <1>7, <1>8 DEF LadderInv

\* The history covers what it covered, and what is beyond max_depth now.
LEMMA BeyondCovers ==
  ASSUME NEW side \in Sides, NEW w, IsSide(w, side),
         NEW b, b \subseteq Prices, \A p, q \in b : p = q, MaxDepth = 0 => b = {},
         NEW c, IsBeyond(c, side, b, w)
  PROVE  /\ c \subseteq Prices /\ (\A p, q \in c : p = q) /\ (MaxDepth = 0 => c = {})
         /\ CoveredBy(side, b, c) /\ (MaxDepth # 0 => CoveredBy(side, Hidden(w), c))
<1>1. CASE MaxDepth = 0
  BY <1>1 DEF CoveredBy, IsBeyond
<1>2. CASE MaxDepth # 0
  <2>1. /\ c \subseteq Prices /\ \A p, q \in c : p = q
        /\ CoveredBy(side, b, c) /\ CoveredBy(side, Hidden(w), c)
    BY <1>2, BestCovers
  <2> QED BY <1>2, <2>1
<1> QED BY <1>1, <1>2

LEMMA TruthCovered ==
  ASSUME NEW side \in Sides, NEW v, NEW w, IsSide(w, side),
         NEW b, b \subseteq Prices, NEW c, c \subseteq Prices,
         Truth(side, v, w, b), CoveredBy(side, b, c)
  PROVE  Truth(side, v, w, c)
<1> SUFFICES ASSUME NEW l \in Levels(w) \ Levels(v)
             PROVE  \E q \in c : ~Worse(side, q, l[1])
  BY DEF Truth
<1>1. l[1] \in Int
  <2>1. PICK j \in 1 .. Len(w) : w[j] = l
    BY LevelsAre DEF IsSide
  <2> QED BY <2>1, LevelTypes DEF IsSide
<1>2. PICK p \in b : ~Worse(side, p, l[1])
  BY DEF Truth
<1>3. PICK q \in c : ~Worse(side, q, p)
  BY DEF CoveredBy
<1>4. p \in Int /\ q \in Int
  BY LadderAssumption
<1> QED BY <1>1, <1>2, <1>3, <1>4, WorseOrder

-----------------------------------------------------------------------------
(* The steps. *)

\* The side of a book once a level was set there, and of the history.
LevelSetIn(side, price, qty) ==
  /\ ladder'.levels[side] = Truncate(Updated(ladder.levels[side], side, price, qty))
  /\ full'.levels[side] = Updated(full.levels[side], side, price, qty)
LevelsKept(side) ==
  /\ ladder'.levels[side] = ladder.levels[side]
  /\ full'.levels[side] = full.levels[side]

\* ApplyLevel, seen from each side.
LEMMA LevelStep ==
  ASSUME LadderInv, NEW kind \in {"Set", "SnapLevel"}, NEW side \in Sides,
         NEW price \in Prices, NEW qty \in Quantities,
         ApplyLevel(kind, side, price, qty)
  PROVE  /\ ladder' = [sync |-> ladder.sync, levels |-> ladder'.levels]
         /\ full' = [sync |-> full.sync, levels |-> full'.levels]
         /\ ladder'.levels = [s \in Sides |-> ladder'.levels[s]]
         /\ full'.levels = [s \in Sides |-> full'.levels[s]]
         /\ \A s \in Sides : s # side => LevelsKept(s) /\ beyond'[s] = beyond[s]
         /\ Taken(kind) => LevelSetIn(side, price, qty)
         /\ ~Taken(kind) => LevelsKept(side)
         /\ beyond' = [s \in Sides |-> beyond'[s]]
         /\ beyond'[side] = IF MaxDepth = 0 THEN {}
                            ELSE BestOf(side, beyond[side] \cup Hidden(full'.levels[side]))
<1> DEFINE set == Truncate(Updated(ladder.levels[side], side, price, qty))
           fullSet == Updated(full.levels[side], side, price, qty)
<1>1. /\ ladder \in BookSet /\ full \in BookSet /\ ladder.sync = full.sync
      /\ beyond \in [Sides -> SUBSET Prices]
  BY DEF LadderInv, LadderType
<1>2. /\ ladder' = ApplyCommon(ladder, kind, [ladder.levels EXCEPT ![side] = set], NoLevels)
      /\ full' = ApplyCommon(full, kind, [full.levels EXCEPT ![side] = fullSet], NoLevels)
  BY DEF ApplyLevel
<1>3. beyond' = [beyond EXCEPT ![side] = IF MaxDepth = 0 THEN {} ELSE
                   BestOf(side, beyond[side] \cup Hidden(full'.levels[side]))]
  BY DEF ApplyLevel
<1> HIDE DEF set, fullSet
<1>4. CASE Taken(kind)
  <2>1. /\ ladder' = [ladder EXCEPT !.levels = [ladder.levels EXCEPT ![side] = set]]
        /\ full' = [full EXCEPT !.levels = [full.levels EXCEPT ![side] = fullSet]]
    BY <1>1, <1>2, <1>4 DEF Taken, ApplyCommon
  <2>2. /\ ladder' = [sync |-> ladder.sync, levels |-> [ladder.levels EXCEPT ![side] = set]]
        /\ full' = [sync |-> full.sync, levels |-> [full.levels EXCEPT ![side] = fullSet]]
    BY <1>1, <2>1 DEF BookSet
  <2>3. /\ ladder'.levels = [ladder.levels EXCEPT ![side] = set]
        /\ full'.levels = [full.levels EXCEPT ![side] = fullSet]
    BY <2>2
  <2>4. DOMAIN ladder.levels = Sides /\ DOMAIN full.levels = Sides
    BY <1>1 DEF BookSet
  <2>5. LevelSetIn(side, price, qty)
    BY <2>3, <2>4 DEF LevelSetIn, set, fullSet
  <2>6. \A s \in Sides : s # side => LevelsKept(s)
    BY <2>3, <2>4 DEF LevelsKept
  <2> QED BY <1>1, <1>3, <1>4, <2>2, <2>3, <2>4, <2>5, <2>6
<1>5. CASE ~Taken(kind)
  <2>1. ladder' = ladder /\ full' = full
    BY <1>1, <1>2, <1>5 DEF Taken, ApplyCommon
  <2>2. /\ ladder = [sync |-> ladder.sync, levels |-> ladder.levels]
        /\ full = [sync |-> full.sync, levels |-> full.levels]
    BY <1>1 DEF BookSet
  <2>3. \A s \in Sides : LevelsKept(s)
    BY <2>1 DEF LevelsKept
  <2>4. /\ ladder.levels = [s \in Sides |-> ladder.levels[s]]
        /\ full.levels = [s \in Sides |-> full.levels[s]]
    BY <1>1 DEF BookSet
  <2> QED BY <1>1, <1>3, <1>5, <2>1, <2>2, <2>3, <2>4
<1> QED BY <1>4, <1>5

\* The invariant of one side of the two books.
SideInv(side, v, w, b) ==
  /\ IsSide(v, side) /\ IsSide(w, side) /\ Excess(v) = 0
  /\ b \subseteq Prices /\ (\A p, q \in b : p = q) /\ (MaxDepth = 0 => b = {})
  /\ Truth(side, v, w, b)

LEMMA InvOfSides ==
  ASSUME NEW sync \in SyncStates,
         ladder' = [sync |-> sync, levels |-> ladder'.levels],
         full' = [sync |-> sync, levels |-> full'.levels],
         ladder'.levels = [s \in Sides |-> ladder'.levels[s]],
         full'.levels = [s \in Sides |-> full'.levels[s]],
         beyond' = [s \in Sides |-> beyond'[s]],
         \A s \in Sides : SideInv(s, ladder'.levels[s], full'.levels[s], beyond'[s])
  PROVE  LadderInv'
<1>1. LadderType'
  <2>1. ladder'.levels \in [Sides -> Seq(LevelSet)] /\ full'.levels \in [Sides -> Seq(LevelSet)]
    BY DEF SideInv, IsSide
  <2>2. beyond' \in [Sides -> SUBSET Prices]
    BY DEF SideInv
  <2>3. ladder' \in BookSet /\ full' \in BookSet
    BY <2>1 DEF BookSet
  <2>4. ladder'.sync = sync /\ full'.sync = sync
    OBVIOUS
  <2> QED BY <2>2, <2>3, <2>4 DEF LadderType
<1>2. BothSorted'
  BY DEF BothSorted, SideInv, IsSide
<1>3. DepthKept'
  BY DEF DepthKept, SideInv
<1>4. OneBeyond'
  BY DEF OneBeyond, SideInv
<1>5. ShowsTruth'
  BY DEF ShowsTruth, SideInv
<1> QED BY <1>1, <1>2, <1>3, <1>4, <1>5 DEF LadderInv

LEMMA SidesOfInv ==
  ASSUME LadderInv, NEW side \in Sides
  PROVE  SideInv(side, ladder.levels[side], full.levels[side], beyond[side])
BY InvBySide DEF SideInv

\* One side, once a level was set there.
LEMMA SideAfterSet ==
  ASSUME NEW side \in Sides, NEW v, NEW w, NEW b, SideInv(side, v, w, b),
         NEW price \in Prices, NEW qty \in Quantities, NEW c,
         IsBeyond(c, side, b, Updated(w, side, price, qty))
  PROVE  SideInv(side, Truncate(Updated(v, side, price, qty)), Updated(w, side, price, qty), c)
<1> DEFINE vv == Updated(v, side, price, qty)
           ww == Updated(w, side, price, qty)
<1>1. IsSide(vv, side)
  BY UpdatedIs DEF SideInv
<1>2. IsSide(ww, side)
  BY UpdatedIs DEF SideInv
<1>3. IsBeyond(c, side, b, ww)
  OBVIOUS
<1>4. /\ c \subseteq Prices /\ (\A p, q \in c : p = q) /\ (MaxDepth = 0 => c = {})
      /\ CoveredBy(side, b, c) /\ (MaxDepth # 0 => CoveredBy(side, Hidden(ww), c))
  <2>1. b \subseteq Prices /\ (\A p, q \in b : p = q) /\ (MaxDepth = 0 => b = {})
    BY DEF SideInv
  <2> HIDE DEF ww
  <2> QED BY <1>2, <1>3, <2>1, BeyondCovers
<1>5. IsSide(Truncate(vv), side) /\ Excess(Truncate(vv)) = 0
  <2> HIDE DEF vv
  <2> QED BY <1>1, TruncatedIs, NoExcess
<1>6. Truth(side, Truncate(vv), ww, c)
  <2>1. b \subseteq Int /\ c \subseteq Int
    BY <1>4, LadderAssumption DEF SideInv
  <2>2. Updates(vv, v, side, price, qty) /\ Updates(ww, w, side, price, qty)
    BY DEF Updates
  <2>3. IsSide(v, side) /\ IsSide(w, side) /\ Truth(side, v, w, b)
    BY DEF SideInv
  <2> HIDE DEF vv, ww
  <2> QED BY <1>4, <2>1, <2>2, <2>3, TruthAfterSet
<1> HIDE DEF vv, ww
<1>7. SideInv(side, Truncate(vv), ww, c)
  BY <1>2, <1>4, <1>5, <1>6 DEF SideInv
<1> QED BY <1>7 DEF vv, ww

\* One side, when the event is dropped.
LEMMA SideAfterDrop ==
  ASSUME NEW side \in Sides, NEW v, NEW w, NEW b, SideInv(side, v, w, b),
         NEW c, IsBeyond(c, side, b, w)
  PROVE  SideInv(side, v, w, c)
<1>1. b \subseteq Prices /\ (\A p, q \in b : p = q) /\ (MaxDepth = 0 => b = {}) /\ IsSide(w, side)
  BY DEF SideInv
<1>2. /\ c \subseteq Prices /\ (\A p, q \in c : p = q) /\ (MaxDepth = 0 => c = {})
      /\ CoveredBy(side, b, c)
  BY <1>1, BeyondCovers
<1>3. Truth(side, v, w, c)
  BY <1>1, <1>2, TruthCovered DEF SideInv
<1> QED BY <1>2, <1>3 DEF SideInv

LEMMA LevelKeepsInv ==
  ASSUME LadderInv, NEW kind \in {"Set", "SnapLevel"}, NEW side \in Sides,
         NEW price \in Prices, NEW qty \in Quantities,
         ApplyLevel(kind, side, price, qty)
  PROVE  LadderInv'
<1>1. /\ ladder' = [sync |-> ladder.sync, levels |-> ladder'.levels]
      /\ full' = [sync |-> full.sync, levels |-> full'.levels]
      /\ ladder'.levels = [s \in Sides |-> ladder'.levels[s]]
      /\ full'.levels = [s \in Sides |-> full'.levels[s]]
      /\ \A s \in Sides : s # side => LevelsKept(s) /\ beyond'[s] = beyond[s]
      /\ Taken(kind) => LevelSetIn(side, price, qty)
      /\ ~Taken(kind) => LevelsKept(side)
      /\ beyond' = [s \in Sides |-> beyond'[s]]
      /\ beyond'[side] = IF MaxDepth = 0 THEN {}
                         ELSE BestOf(side, beyond[side] \cup Hidden(full'.levels[side]))
  BY LevelStep
<1>2. ladder.sync \in SyncStates /\ full.sync = ladder.sync
  BY DEF LadderInv, LadderType, BookSet
<1>4. SideInv(side, ladder.levels[side], full.levels[side], beyond[side])
  BY SidesOfInv
<1>5. SideInv(side, ladder'.levels[side], full'.levels[side], beyond'[side])
  <2>1. CASE Taken(kind)
    <3>1. /\ ladder'.levels[side] = Truncate(Updated(ladder.levels[side], side, price, qty))
          /\ full'.levels[side] = Updated(full.levels[side], side, price, qty)
      BY <1>1, <2>1 DEF LevelSetIn
    <3>2. IsBeyond(beyond'[side], side, beyond[side], Updated(full.levels[side], side, price, qty))
      BY <1>1, <3>1 DEF IsBeyond
    <3> QED BY <1>4, <3>1, <3>2, SideAfterSet
  <2>2. CASE ~Taken(kind)
    <3>1. ladder'.levels[side] = ladder.levels[side] /\ full'.levels[side] = full.levels[side]
      BY <1>1, <2>2 DEF LevelsKept
    <3>2. IsBeyond(beyond'[side], side, beyond[side], full.levels[side])
      BY <1>1, <3>1 DEF IsBeyond
    <3> QED BY <1>4, <3>1, <3>2, SideAfterDrop
  <2> QED BY <2>1, <2>2
<1>6. \A s \in Sides : SideInv(s, ladder'.levels[s], full'.levels[s], beyond'[s])
  <2> SUFFICES ASSUME NEW s \in Sides
               PROVE  SideInv(s, ladder'.levels[s], full'.levels[s], beyond'[s])
    OBVIOUS
  <2>1. CASE s = side
    BY <1>5, <2>1
  <2>2. CASE s # side
    <3>1. LevelsKept(s) /\ beyond'[s] = beyond[s]
      BY <1>1, <2>2
    <3>2. SideInv(s, ladder.levels[s], full.levels[s], beyond[s])
      BY SidesOfInv
    <3> QED BY <3>1, <3>2 DEF LevelsKept
  <2> QED BY <2>1, <2>2
<1> QED BY <1>1, <1>2, <1>6, InvOfSides

\* The events that set no level keep the levels or clear them all.
LEMMA MarkStep ==
  ASSUME LadderInv, NEW kind \in Kinds \ {"Set", "SnapLevel"}, ApplyMark(kind)
  PROVE  /\ ladder'.sync \in SyncStates /\ full'.sync = ladder'.sync
         /\ ladder' = [sync |-> ladder'.sync, levels |-> ladder'.levels]
         /\ full' = [sync |-> full'.sync, levels |-> full'.levels]
         /\ \/ /\ kind \in {"SnapBegin", "Clear"}
               /\ ladder'.levels = NoLevels /\ full'.levels = NoLevels /\ beyond' = NoneBeyond
            \/ /\ kind \notin {"SnapBegin", "Clear"}
               /\ ladder'.levels = ladder.levels /\ full'.levels = full.levels
               /\ beyond' = beyond
<1>1. /\ ladder \in BookSet /\ full \in BookSet /\ ladder.sync = full.sync
  BY DEF LadderInv, LadderType
<1>2. /\ ladder' = ApplyCommon(ladder, kind, ladder.levels, NoLevels)
      /\ full' = ApplyCommon(full, kind, full.levels, NoLevels)
      /\ beyond' = IF kind \in {"SnapBegin", "Clear"} THEN NoneBeyond ELSE beyond
  BY DEF ApplyMark
<1>3. kind \in {"SnapBegin", "SnapEnd", "Clear", "Gap", "NotBook"}
  BY DEF Kinds
<1>4. CASE kind = "SnapBegin"
  <2>1. ladder' = [sync |-> "Filling", levels |-> NoLevels] /\ full' = ladder'
    BY <1>2, <1>4 DEF ApplyCommon
  <2> QED BY <1>2, <1>4, <2>1 DEF SyncStates
<1>5. CASE kind = "Clear"
  <2>1. ladder' = [sync |-> "Unsynced", levels |-> NoLevels] /\ full' = ladder'
    BY <1>2, <1>5 DEF ApplyCommon
  <2> QED BY <1>2, <1>5, <2>1 DEF SyncStates
<1>6. CASE kind = "Gap"
  <2>1. ladder' = [ladder EXCEPT !.sync = "Unsynced"] /\ full' = [full EXCEPT !.sync = "Unsynced"]
    BY <1>2, <1>6 DEF ApplyCommon
  <2> QED BY <1>1, <1>2, <1>6, <2>1 DEF SyncStates, BookSet
<1>7. CASE kind = "SnapEnd"
  <2>1. CASE ladder.sync = "Filling"
    <3>1. ladder' = [ladder EXCEPT !.sync = "Synced"] /\ full' = [full EXCEPT !.sync = "Synced"]
      BY <1>1, <1>2, <1>7, <2>1 DEF ApplyCommon
    <3> QED BY <1>1, <1>2, <1>7, <3>1 DEF SyncStates, BookSet
  <2>2. CASE ladder.sync # "Filling"
    <3>1. ladder' = ladder /\ full' = full
      BY <1>1, <1>2, <1>7, <2>2 DEF ApplyCommon
    <3> QED BY <1>1, <1>2, <1>7, <3>1 DEF BookSet
  <2> QED BY <2>1, <2>2
<1>8. CASE kind = "NotBook"
  <2>1. ladder' = ladder /\ full' = full
    BY <1>1, <1>2, <1>8 DEF ApplyCommon
  <2> QED BY <1>1, <1>2, <1>8, <2>1 DEF BookSet
<1> QED BY <1>3, <1>4, <1>5, <1>6, <1>7, <1>8

LEMMA MarkKeepsInv ==
  ASSUME LadderInv, NEW kind \in Kinds \ {"Set", "SnapLevel"}, ApplyMark(kind)
  PROVE  LadderInv'
<1>1. /\ ladder'.sync \in SyncStates /\ full'.sync = ladder'.sync
      /\ ladder' = [sync |-> ladder'.sync, levels |-> ladder'.levels]
      /\ full' = [sync |-> full'.sync, levels |-> full'.levels]
      /\ \/ /\ kind \in {"SnapBegin", "Clear"}
            /\ ladder'.levels = NoLevels /\ full'.levels = NoLevels /\ beyond' = NoneBeyond
         \/ /\ kind \notin {"SnapBegin", "Clear"}
            /\ ladder'.levels = ladder.levels /\ full'.levels = full.levels
            /\ beyond' = beyond
  BY MarkStep
<1>2. /\ ladder \in BookSet /\ full \in BookSet /\ beyond \in [Sides -> SUBSET Prices]
  BY DEF LadderInv, LadderType
<1>3. /\ ladder'.levels = [s \in Sides |-> ladder'.levels[s]]
      /\ full'.levels = [s \in Sides |-> full'.levels[s]]
      /\ beyond' = [s \in Sides |-> beyond'[s]]
  BY <1>1, <1>2 DEF BookSet, NoLevels, NoneBeyond
<1>4. \A s \in Sides : SideInv(s, ladder'.levels[s], full'.levels[s], beyond'[s])
  <2> SUFFICES ASSUME NEW s \in Sides
               PROVE  SideInv(s, ladder'.levels[s], full'.levels[s], beyond'[s])
    OBVIOUS
  <2>1. CASE kind \in {"SnapBegin", "Clear"}
    <3>1. ladder'.levels[s] = <<>> /\ full'.levels[s] = <<>> /\ beyond'[s] = {}
      BY <1>1, <2>1 DEF NoLevels, NoneBeyond
    <3>2. SideInv(s, <<>>, <<>>, {})
      BY EmptySide DEF SideInv
    <3> QED BY <3>1, <3>2
  <2>2. CASE kind \notin {"SnapBegin", "Clear"}
    BY <1>1, <2>2, SidesOfInv
  <2> QED BY <2>1, <2>2
<1> QED BY <1>1, <1>3, <1>4, InvOfSides

LEMMA LadderStep == LadderInv /\ [Next]_vars => LadderInv'
<1> SUFFICES ASSUME LadderInv, [Next]_vars PROVE LadderInv'
  OBVIOUS
<1>1. ASSUME NEW kind \in {"Set", "SnapLevel"}, NEW side \in Sides,
             NEW price \in Prices, NEW qty \in Quantities,
             ApplyLevel(kind, side, price, qty)
      PROVE  LadderInv'
  BY <1>1, LevelKeepsInv
<1>2. ASSUME NEW kind \in Kinds \ {"Set", "SnapLevel"}, ApplyMark(kind)
      PROVE  LadderInv'
  BY <1>2, MarkKeepsInv
<1>3. CASE UNCHANGED vars
  BY <1>3 DEF vars, LadderInv, LadderType, BothSorted, DepthKept, OneBeyond, ShowsTruth
<1> QED BY <1>1, <1>2, <1>3 DEF Next

\* The vectors of every reachable book are sorted and within max_depth: the
\* precondition of every binary search of LadderBook::find.
THEOREM LadderInvariant == Spec => []LadderInv
BY LadderStart, LadderStep, PTL DEF Spec

\* What a truncated book shows is true, whatever levels truncation has thrown
\* away.
THEOREM TruncatedIsTrueEver == Spec => []TruncatedIsTrue
<1>1. LadderInv => TruncatedIsTrue
  BY DEF LadderInv, ShowsTruth, Truth, TruncatedIsTrue
<1> QED BY <1>1, LadderInvariant, PTL

-----------------------------------------------------------------------------
(* The sorted vectors implement the ordered map. *)

\* The map that stands for the ladder: `book` of the refinement.
MapLevels == [s \in Sides |-> AsMap(ladder.levels[s])]
MapBook == [sync |-> ladder.sync, levels |-> MapLevels]

\* set_level of the map on the map of a vector.
LEMMA SetLevelIs ==
  ASSUME NEW side \in Sides, NEW v, IsSide(v, side), NEW price \in Prices, NEW qty \in Quantities
  PROVE  AsMap(Truncate(Updated(v, side, price, qty)))
           = Map!Truncate(side, SetMap(AsMap(v), price, qty))
<1> DEFINE u == Updated(v, side, price, qty)
           m == SetMap(AsMap(v), price, qty)
<1>1. IsSide(u, side) /\ Levels(u) = SetIn(Levels(v), price, qty)
  BY UpdatedIs
<1>2. IsMapOf(AsMap(v), v)
  BY AsMapIs
<1>3. IsMapOf(m, u)
  <2> HIDE DEF u
  <2> QED BY <1>1, <1>2, SetMapIs DEF IsSide
<1> HIDE DEF u, m
<1>4. IsMapOf(Map!Truncate(side, m), Truncate(u))
  BY <1>1, <1>3, TruncateMapIs
<1>5. IsMapOf(AsMap(Truncate(u)), Truncate(u))
  <2>1. IsSide(Truncate(u), side)
    BY <1>1, TruncatedIs
  <2> QED BY <2>1, AsMapIs
<1>6. AsMap(Truncate(u)) = Map!Truncate(side, m)
  BY <1>4, <1>5, MapsEqual
<1> QED BY <1>6 DEF u, m

LEMMA MapStart == Init => Map!Init
<1> SUFFICES ASSUME Init PROVE Map!Init
  OBVIOUS
<1>1. ladder = [sync |-> "Unsynced", levels |-> NoLevels] /\ topChanged = FALSE
  BY DEF Init
<1>2. AsMap(<<>>) = [p \in {} |-> 0]
  <2>1. Levels(<<>>) = {}
    BY DEF Levels
  <2>2. PricesOf(<<>>) = {}
    BY <2>1 DEF PricesOf
  <2> QED BY <2>2 DEF AsMap
<1>3. [s \in Sides |-> AsMap(ladder.levels[s])] = Map!NoLevels
  BY <1>1, <1>2 DEF NoLevels, Map!NoLevels, Sides, Map!Sides
<1> QED BY <1>1, <1>3 DEF Map!Init

LEMMA LevelMaps ==
  ASSUME LadderInv, NEW kind \in {"Set", "SnapLevel"}, NEW side \in Sides,
         NEW price \in Prices, NEW qty \in Quantities,
         ApplyLevel(kind, side, price, qty)
  PROVE  Map!ApplyLevel(kind, side, price, qty)
<1>1. /\ ladder' = [sync |-> ladder.sync, levels |-> ladder'.levels]
      /\ ladder'.levels = [s \in Sides |-> ladder'.levels[s]]
      /\ \A s \in Sides : s # side => LevelsKept(s)
      /\ Taken(kind) => LevelSetIn(side, price, qty)
      /\ ~Taken(kind) => LevelsKept(side)
  BY LevelStep
<1>2. ladder'.sync = ladder.sync
  BY <1>1
<1>3. IsSide(ladder.levels[side], side)
  BY InvBySide
<1>4. IsSide(ladder'.levels[side], side)
  <2>1. LadderInv'
    BY LevelKeepsInv
  <2>2. ladder'.levels \in [Sides -> Seq(LevelSet)]
    BY <2>1 DEF LadderInv, LadderType, BookSet
  <2>3. Sorted(ladder'.levels[side], side)
    BY <2>1 DEF LadderInv, BothSorted
  <2> QED BY <2>2, <2>3 DEF IsSide
<1>5. MapBook' = Map!ApplyCommon(MapBook, kind,
                    Map!SetLevel(MapBook.levels, side, price, qty), Map!NoLevels)
  <2>1. MapBook.levels = MapLevels /\ MapBook.sync = ladder.sync
    BY DEF MapBook
  <2>2. CASE Taken(kind)
    <3>1. AsMap(ladder'.levels[side]) = Map!Truncate(side, SetMap(MapLevels[side], price, qty))
      BY <1>1, <1>3, <2>2, SetLevelIs DEF LevelSetIn, MapLevels
    <3>2. \A s \in Sides : s # side => AsMap(ladder'.levels[s]) = MapLevels[s]
      BY <1>1 DEF LevelsKept, MapLevels
    <3>3. MapLevels' = [MapLevels EXCEPT ![side] =
                          Map!Truncate(side, SetMap(MapLevels[side], price, qty))]
      BY <3>1, <3>2 DEF MapLevels
    <3>4. MapLevels' = Map!SetLevel(MapLevels, side, price, qty)
      BY <3>3 DEF Map!SetLevel, SetMap
    <3>5. MapBook' = [MapBook EXCEPT !.levels = MapLevels']
      BY <1>2 DEF MapBook
    <3>6. \/ kind = "Set" /\ MapBook.sync = "Synced"
          \/ kind = "SnapLevel" /\ MapBook.sync = "Filling"
      BY <2>1, <2>2 DEF Taken
    <3> HIDE DEF MapBook, MapLevels
    <3> QED BY <2>1, <3>4, <3>5, <3>6 DEF Map!ApplyCommon
  <2>3. CASE ~Taken(kind)
    <3>1. \A s \in Sides : AsMap(ladder'.levels[s]) = AsMap(ladder.levels[s])
      BY <1>1, <2>3 DEF LevelsKept
    <3>2. MapBook' = MapBook
      BY <1>2, <3>1 DEF MapBook, MapLevels
    <3>3. /\ ~(kind = "Set" /\ MapBook.sync = "Synced")
          /\ ~(kind = "SnapLevel" /\ MapBook.sync = "Filling")
      BY <2>1, <2>3 DEF Taken
    <3> HIDE DEF MapBook, MapLevels
    <3> QED BY <3>2, <3>3 DEF Map!ApplyCommon
  <2> QED BY <2>2, <2>3
<1>6. topChanged' =
        \/ /\ kind = "Set" /\ MapBook.sync = "Synced"
           /\ Map!Best(side, MapBook.levels[side]) # Map!Best(side, MapBook'.levels[side])
        \/ kind = "SnapLevel" /\ MapBook.sync = "Filling"
  <2>1. topChanged' = (/\ Taken(kind)
                       /\ \/ kind = "SnapLevel"
                          \/ Top(ladder.levels[side]) # Top(ladder'.levels[side]))
    BY DEF ApplyLevel
  <2>2. Top(ladder.levels[side]) # Top(ladder'.levels[side]) <=>
          Map!Best(side, AsMap(ladder.levels[side])) # Map!Best(side, AsMap(ladder'.levels[side]))
    BY <1>3, <1>4, TopsDiffer
  <2>3. /\ MapBook.levels[side] = AsMap(ladder.levels[side])
        /\ MapBook'.levels[side] = AsMap(ladder'.levels[side])
        /\ MapBook.sync = ladder.sync
    BY DEF MapBook, MapLevels
  <2>4. Taken(kind) <=> \/ kind = "Set" /\ MapBook.sync = "Synced"
                        \/ kind = "SnapLevel" /\ MapBook.sync = "Filling"
    BY <2>3 DEF Taken
  <2> HIDE DEF MapBook
  <2> QED BY <2>1, <2>2, <2>3, <2>4
<1> QED BY <1>5, <1>6 DEF Map!ApplyLevel, MapBook, MapLevels

LEMMA MarkMaps ==
  ASSUME LadderInv, NEW kind \in Kinds \ {"Set", "SnapLevel"}, ApplyMark(kind)
  PROVE  Map!ApplyMark(kind)
<1>1. ladder' = ApplyCommon(ladder, kind, ladder.levels, NoLevels) /\ topChanged' = FALSE
  BY DEF ApplyMark
<1>2. ladder \in BookSet /\ MapBook.levels = MapLevels /\ MapBook.sync = ladder.sync
  BY DEF LadderInv, LadderType, MapBook
<1>3. kind \in {"SnapBegin", "SnapEnd", "Clear", "Gap", "NotBook"}
  BY DEF Kinds
<1>4. ladder'.levels = NoLevels => MapLevels' = Map!NoLevels
  <2>1. AsMap(<<>>) = [p \in {} |-> 0]
    <3>1. Levels(<<>>) = {}
      BY DEF Levels
    <3>2. PricesOf(<<>>) = {}
      BY <3>1 DEF PricesOf
    <3> QED BY <3>2 DEF AsMap
  <2> QED BY <2>1 DEF NoLevels, Map!NoLevels, Sides, Map!Sides, MapLevels
<1>5. MapBook' = Map!ApplyCommon(MapBook, kind, MapBook.levels, Map!NoLevels)
  <2>1. CASE kind = "SnapBegin"
    <3>1. ladder' = [sync |-> "Filling", levels |-> NoLevels]
      BY <1>1, <2>1 DEF ApplyCommon
    <3>2. MapBook' = [sync |-> "Filling", levels |-> Map!NoLevels]
      BY <1>4, <3>1 DEF MapBook
    <3> QED BY <2>1, <3>2 DEF Map!ApplyCommon
  <2>2. CASE kind = "Clear"
    <3>1. ladder' = [sync |-> "Unsynced", levels |-> NoLevels]
      BY <1>1, <2>2 DEF ApplyCommon
    <3>2. MapBook' = [sync |-> "Unsynced", levels |-> Map!NoLevels]
      BY <1>4, <3>1 DEF MapBook
    <3> QED BY <2>2, <3>2 DEF Map!ApplyCommon
  <2>3. CASE kind = "Gap"
    <3>1. ladder' = [ladder EXCEPT !.sync = "Unsynced"]
      BY <1>1, <2>3 DEF ApplyCommon
    <3>2. ladder'.levels = ladder.levels /\ ladder'.sync = "Unsynced"
      BY <1>2, <3>1 DEF BookSet
    <3>3. MapBook' = [MapBook EXCEPT !.sync = "Unsynced"]
      <4>1. MapLevels' = MapLevels
        BY <3>2 DEF MapLevels
      <4> HIDE DEF MapLevels
      <4> QED BY <3>2, <4>1 DEF MapBook
    <3> HIDE DEF MapBook
    <3> QED BY <2>3, <3>3 DEF Map!ApplyCommon
  <2>4. CASE kind = "SnapEnd" /\ ladder.sync = "Filling"
    <3>1. ladder' = [ladder EXCEPT !.sync = "Synced"]
      BY <1>1, <2>4 DEF ApplyCommon
    <3>2. ladder'.levels = ladder.levels /\ ladder'.sync = "Synced"
      BY <1>2, <3>1 DEF BookSet
    <3>3. MapBook' = [MapBook EXCEPT !.sync = "Synced"]
      <4>1. MapLevels' = MapLevels
        BY <3>2 DEF MapLevels
      <4> HIDE DEF MapLevels
      <4> QED BY <3>2, <4>1 DEF MapBook
    <3> HIDE DEF MapBook
    <3> QED BY <1>2, <2>4, <3>3 DEF Map!ApplyCommon
  <2>5. CASE kind = "NotBook" \/ (kind = "SnapEnd" /\ ladder.sync # "Filling")
    <3>1. ladder' = ladder
      BY <1>1, <2>5 DEF ApplyCommon
    <3>2. MapBook' = MapBook
      BY <3>1 DEF MapBook, MapLevels
    <3> HIDE DEF MapBook
    <3> QED BY <1>2, <2>5, <3>2 DEF Map!ApplyCommon
  <2> QED BY <1>3, <2>1, <2>2, <2>3, <2>4, <2>5
<1> QED BY <1>1, <1>5 DEF Map!ApplyMark, MapBook, MapLevels

LEMMA StepMaps ==
  LadderInv /\ [Next]_vars => [Map!Next]_<<MapBook, topChanged>>
<1> SUFFICES ASSUME LadderInv, [Next]_vars PROVE [Map!Next]_<<MapBook, topChanged>>
  OBVIOUS
<1>1. ASSUME NEW kind \in {"Set", "SnapLevel"}, NEW side \in Sides,
             NEW price \in Prices, NEW qty \in Quantities,
             ApplyLevel(kind, side, price, qty)
      PROVE  Map!Next
  <2>1. Map!ApplyLevel(kind, side, price, qty)
    BY <1>1, LevelMaps
  <2>2. side \in Map!Sides
    BY DEF Sides, Map!Sides
  <2> QED BY <2>1, <2>2 DEF Map!Next
<1>2. ASSUME NEW kind \in Kinds \ {"Set", "SnapLevel"}, ApplyMark(kind)
      PROVE  Map!Next
  <2>1. Map!ApplyMark(kind)
    BY <1>2, MarkMaps
  <2>2. kind \in Map!Kinds \ {"Set", "SnapLevel"}
    BY DEF Kinds, Map!Kinds
  <2> QED BY <2>1, <2>2 DEF Map!Next
<1>3. CASE UNCHANGED vars
  BY <1>3 DEF vars, MapBook, MapLevels
<1> QED BY <1>1, <1>2, <1>3 DEF Next

\* LadderBook implements BTreeBook: on every sequence of events the sorted
\* vectors hold the levels the map holds, with the same sync state and the same
\* report of a changed top.
THEOREM LadderImplementsMap == Spec => MapSpec
<1>1. LadderInv /\ [Next]_vars =>
        [Map!Next]_<<[sync |-> ladder.sync, levels |-> [s \in Sides |-> AsMap(ladder.levels[s])]],
                     topChanged>>
  BY StepMaps DEF MapBook, MapLevels
<1> QED BY <1>1, MapStart, LadderInvariant, PTL DEF Spec, MapSpec, Map!Spec

-----------------------------------------------------------------------------
(* Folds over the store of the index. *)

\* A fold over 1 .. n whose step h stays in S is a function into S.
StaysIn(S, n, start, h) ==
  n \in Nat /\ start \in S /\ \A k \in 1 .. n : \A s \in S : h[<<k, s>>] \in S
IsFold(f, S, n, start, h) ==
  /\ f \in [0 .. n -> S]
  /\ f[0] = start
  /\ \A k \in 1 .. n : f[k] = h[<<k, f[k - 1]>>]

LEMMA FoldExists ==
  ASSUME NEW S, NEW n, NEW start, NEW h, StaysIn(S, n, start, h)
  PROVE  \E f : IsFold(f, S, n, start, h)
<1> USE DEF StaysIn
<1> DEFINE R(f, m) == f[0] = start /\ \A k \in 1 .. m : f[k] = h[<<k, f[k - 1]>>]
           T == {m \in Nat : m <= n => \E f \in [0 .. m -> S] : R(f, m)}
<1>1. 0 \in T
  <2> DEFINE f == [k \in 0 .. 0 |-> start]
  <2>1. f \in [0 .. 0 -> S] /\ R(f, 0)
    OBVIOUS
  <2> QED BY <2>1
<1>2. ASSUME NEW m \in Nat, m \in T PROVE m + 1 \in T
  <2> SUFFICES ASSUME m + 1 <= n PROVE \E f \in [0 .. m + 1 -> S] : R(f, m + 1)
    OBVIOUS
  <2>1. PICK f \in [0 .. m -> S] : R(f, m)
    BY <1>2
  <2> DEFINE x == h[<<m + 1, f[m]>>]
             g == [k \in 0 .. m + 1 |-> IF k = m + 1 THEN x ELSE f[k]]
  <2>2. x \in S
    <3>1. f[m] \in S /\ m + 1 \in 1 .. n
      OBVIOUS
    <3> QED BY <3>1
  <2> HIDE DEF x
  <2>3. /\ \A k \in 0 .. m : g[k] = f[k]
        /\ g[m + 1] = x
        /\ g \in [0 .. m + 1 -> S]
    BY <2>2
  <2> HIDE DEF g
  <2>4. ASSUME NEW k \in 1 .. m + 1
        PROVE  g[k] = h[<<k, g[k - 1]>>]
    <3>1. g[k - 1] = f[k - 1]
      BY <2>3
    <3>2. CASE k = m + 1
      BY <2>3, <3>1, <3>2 DEF x
    <3>3. CASE k # m + 1
      <4>1. k \in 1 .. m
        BY <3>3
      <4> QED BY <2>1, <2>3, <3>1, <4>1
    <3> QED BY <3>2, <3>3
  <2>5. g[0] = start
    BY <2>1, <2>3
  <2>6. R(g, m + 1)
    BY <2>4, <2>5
  <2> QED BY <2>3, <2>6
<1> HIDE DEF T
<1>3. n \in T
  BY <1>1, <1>2, Induction
<1>4. \E f \in [0 .. n -> S] : R(f, n)
  BY <1>3 DEF T
<1> QED BY <1>4 DEF IsFold

-----------------------------------------------------------------------------
(* The store and its books. *)

Places == 1 .. Len(store)
PitEvents == [kind : Kinds, instrument : Instruments, mono : Nat, qty : Nat]
PitBooks == [sync : SyncStates, levels : Seq(Nat)]

\* The times of the events ascend.
StoreAscends == \A j, k \in Places : j <= k => store[j].mono <= store[k].mono
StoreInv == store \in Seq(PitEvents) /\ StoreAscends

LEMMA StoreTypes ==
  ASSUME StoreInv
  PROVE  /\ Len(store) \in Nat /\ DOMAIN store = Places
         /\ \A k \in Places :
              /\ store[k] \in PitEvents /\ store[k].kind \in Kinds
              /\ store[k].instrument \in Instruments /\ store[k].instrument \in Nat
              /\ store[k].mono \in Nat /\ store[k].qty \in Nat
<1>1. store \in Seq(PitEvents)
  BY DEF StoreInv
<1>2. Len(store) \in Nat /\ DOMAIN store = Places
  BY <1>1 DEF Places
<1>3. \A k \in Places : store[k] \in PitEvents
  BY <1>1 DEF Places
<1>4. \A e \in PitEvents :
        /\ e.kind \in Kinds /\ e.instrument \in Instruments /\ e.instrument \in Nat
        /\ e.mono \in Nat /\ e.qty \in Nat
  BY PitAssumption DEF PitEvents
<1> QED BY <1>2, <1>3, <1>4

LEMMA NoBookType == NoBook \in PitBooks
BY DEF NoBook, PitBooks, SyncStates

\* What an event makes of the sync state and of the levels.
LEMMA AppliedIs ==
  ASSUME NEW book \in PitBooks, NEW e \in PitEvents
  PROVE  /\ Applied(book, e) \in PitBooks
         /\ e.kind = "SnapBegin" => Applied(book, e) = [sync |-> "Filling", levels |-> <<>>]
         /\ e.kind = "SnapEnd" =>
              Applied(book, e).sync = IF book.sync = "Filling" THEN "Synced" ELSE book.sync
         /\ e.kind \in {"Clear", "Gap"} => Applied(book, e).sync = "Unsynced"
         /\ e.kind \notin {"SnapBegin", "SnapEnd", "Clear", "Gap"} =>
              Applied(book, e).sync = book.sync
<1> DEFINE more == Append(book.levels, e.qty)
<1>1. e.kind \in Kinds /\ e.qty \in Nat
  BY DEF PitEvents
<1>2. book.sync \in SyncStates /\ book.levels \in Seq(Nat)
      /\ book = [sync |-> book.sync, levels |-> book.levels]
  BY DEF PitBooks
<1>3. more \in Seq(Nat)
  BY <1>1, <1>2
<1> HIDE DEF more
<1>4. /\ [book EXCEPT !.levels = more] = [sync |-> book.sync, levels |-> more]
      /\ [book EXCEPT !.sync = "Synced"] = [sync |-> "Synced", levels |-> book.levels]
      /\ [book EXCEPT !.sync = "Unsynced"] = [sync |-> "Unsynced", levels |-> book.levels]
  BY <1>2
<1>5. \A s \in SyncStates, l \in Seq(Nat) :
        [sync |-> s, levels |-> l] \in PitBooks /\ [sync |-> s, levels |-> l].sync = s
  BY DEF PitBooks
<1>6. {"Unsynced", "Filling", "Synced"} \subseteq SyncStates /\ <<>> \in Seq(Nat)
  BY DEF SyncStates
<1>7. Applied(book, e) = ApplyCommon(book, e.kind, more, <<>>)
  BY DEF Applied, more
<1>8. CASE e.kind = "SnapBegin"
  <2>1. Applied(book, e) = [sync |-> "Filling", levels |-> <<>>]
    BY <1>7, <1>8 DEF ApplyCommon
  <2> QED BY <1>5, <1>6, <1>8, <2>1
<1>9. CASE e.kind = "SnapEnd"
  <2>1. CASE book.sync = "Filling"
    <3>1. Applied(book, e) = [sync |-> "Synced", levels |-> book.levels]
      BY <1>4, <1>7, <1>9, <2>1 DEF ApplyCommon
    <3> QED BY <1>2, <1>5, <1>6, <1>9, <2>1, <3>1
  <2>2. CASE book.sync # "Filling"
    <3>1. Applied(book, e) = book
      BY <1>7, <1>9, <2>2 DEF ApplyCommon
    <3> QED BY <1>9, <2>2, <3>1
  <2> QED BY <2>1, <2>2
<1>10. CASE e.kind = "Clear"
  <2>1. Applied(book, e) = [sync |-> "Unsynced", levels |-> <<>>]
    BY <1>7, <1>10 DEF ApplyCommon
  <2> QED BY <1>5, <1>6, <1>10, <2>1
<1>11. CASE e.kind = "Gap"
  <2>1. Applied(book, e) = [sync |-> "Unsynced", levels |-> book.levels]
    BY <1>4, <1>7, <1>11 DEF ApplyCommon
  <2> QED BY <1>2, <1>5, <1>6, <1>11, <2>1
<1>12. CASE e.kind \notin {"SnapBegin", "SnapEnd", "Clear", "Gap"}
  <2>1. Applied(book, e) \in {book, [sync |-> book.sync, levels |-> more]}
    BY <1>1, <1>4, <1>7, <1>12 DEF ApplyCommon, Kinds
  <2> QED BY <1>2, <1>3, <1>5, <1>12, <2>1
<1> QED BY <1>8, <1>9, <1>10, <1>11, <1>12

-----------------------------------------------------------------------------
(* Folds of books. *)

\* f goes through the books of a fold over some places of the store.
FoldsTo(f, places) ==
  /\ f \in [0 .. Len(store) -> PitBooks]
  /\ f[0] = NoBook
  /\ \A k \in Places :
       f[k] = IF k \in places THEN Applied(f[k - 1], store[k]) ELSE f[k - 1]

\* There is one, and FoldBook is its end.
LEMMA FoldBookIs ==
  ASSUME StoreInv, NEW places
  PROVE  \E f : FoldsTo(f, places) /\ FoldBook(places) = f[Len(store)]
<1> DEFINE n == Len(store)
           Stepped(b, k) == IF k \in places THEN Applied(b, store[k]) ELSE b
           h == [x \in (1 .. n) \X PitBooks |-> Stepped(x[2], x[1])]
           Recurs(f) == f = [k \in 0 .. n |-> IF k = 0 THEN NoBook ELSE Stepped(f[k - 1], k)]
<1>1. n \in Nat /\ Places = 1 .. n
  BY StoreTypes DEF Places
<1>2. \A k \in 1 .. n : \A b \in PitBooks : Stepped(b, k) \in PitBooks
  BY <1>1, StoreTypes, AppliedIs
<1> HIDE DEF Stepped
<1>3. \A k \in 1 .. n : \A b \in PitBooks : h[<<k, b>>] = Stepped(b, k) /\ h[<<k, b>>] \in PitBooks
  BY <1>2
<1> HIDE DEF h
<1>4. PICK f : IsFold(f, PitBooks, n, NoBook, h)
  <2>1. \A k \in 1 .. n : \A b \in PitBooks : h[<<k, b>>] \in PitBooks
    BY <1>3
  <2> HIDE DEF n
  <2>2. n \in Nat /\ NoBook \in PitBooks
    BY <1>1, NoBookType
  <2>3. StaysIn(PitBooks, n, NoBook, h)
    BY <2>1, <2>2 DEF StaysIn
  <2> QED BY <2>3, FoldExists
<1>5. \E g : Recurs(g)
  <2>1. \A k \in 1 .. n : k - 1 \in 0 .. n
    BY <1>1
  <2>2. \A k \in 1 .. n : f[k] = Stepped(f[k - 1], k)
    BY <1>3, <1>4, <2>1 DEF IsFold
  <2>3. \A k \in 0 .. n : f[k] = IF k = 0 THEN NoBook ELSE Stepped(f[k - 1], k)
    BY <1>1, <1>4, <2>2 DEF IsFold
  <2>4. f = [k \in 0 .. n |-> f[k]]
    BY <1>4 DEF IsFold
  <2>5. Recurs(f)
    BY <2>3, <2>4
  <2> QED BY <2>5
<1> DEFINE g == CHOOSE e : Recurs(e)
<1>6. Recurs(g)
  BY <1>5
<1>7. FoldBook(places) = g[n]
  BY DEF FoldBook, Stepped
<1> HIDE DEF g
<1>8. /\ g = [k \in 0 .. n |-> g[k]]
      /\ g[0] = NoBook /\ \A k \in 1 .. n : g[k] = Stepped(g[k - 1], k)
  BY <1>1, <1>6
<1>9. \A k \in 0 .. n : g[k] \in PitBooks
  <2> DEFINE T == {k \in Nat : k <= n => g[k] \in PitBooks}
  <2>1. 0 \in T
    BY <1>8, NoBookType
  <2>2. ASSUME NEW k \in Nat, k \in T PROVE k + 1 \in T
    <3> SUFFICES ASSUME k + 1 <= n PROVE g[k + 1] \in PitBooks
      OBVIOUS
    <3>1. k + 1 \in 1 .. n /\ (k + 1) - 1 = k /\ g[k] \in PitBooks
      BY <1>1, <2>2
    <3> QED BY <1>2, <1>8, <3>1
  <2> HIDE DEF T
  <2>3. \A k \in Nat : k \in T
    BY <2>1, <2>2, Induction
  <2> QED BY <1>1, <2>3 DEF T
<1>10. FoldsTo(g, places)
  <2>1. g \in [0 .. n -> PitBooks]
    BY <1>8, <1>9
  <2> QED BY <1>1, <1>8, <2>1 DEF FoldsTo, Stepped
<1> QED BY <1>7, <1>10

\* Two folds that agree at one place, and take the same places after it, agree
\* further on.
LEMMA FoldsAgree ==
  ASSUME StoreInv, NEW a, NEW b, NEW f, NEW g, FoldsTo(f, a), FoldsTo(g, b),
         NEW m \in 0 .. Len(store), NEW l \in m .. Len(store),
         f[m] = g[m], \A k \in m + 1 .. l : k \in a <=> k \in b
  PROVE  f[l] = g[l]
<1> DEFINE T == {d \in Nat : m + d <= l => f[m + d] = g[m + d]}
<1>1. Len(store) \in Nat
  BY StoreTypes
<1>2. 0 \in T
  BY <1>1
<1>3. ASSUME NEW d \in Nat, d \in T PROVE d + 1 \in T
  <2> SUFFICES ASSUME m + (d + 1) <= l PROVE f[m + (d + 1)] = g[m + (d + 1)]
    OBVIOUS
  <2> DEFINE k == m + (d + 1)
  <2>1. k \in m + 1 .. l /\ k - 1 = m + d /\ k \in Places /\ f[m + d] = g[m + d]
    BY <1>1, <1>3 DEF Places
  <2> HIDE DEF k
  <2>2. f[k] = g[k]
    BY <2>1 DEF FoldsTo
  <2> QED BY <2>2 DEF k
<1> HIDE DEF T
<1>4. l - m \in Nat /\ m + (l - m) = l
  BY <1>1
<1>5. l - m \in T
  BY <1>2, <1>3, <1>4, Induction
<1> QED BY <1>4, <1>5 DEF T

\* A fold stands still where it takes no place.
LEMMA FoldStands ==
  ASSUME StoreInv, NEW a, NEW f, FoldsTo(f, a),
         NEW m \in 0 .. Len(store), NEW l \in m .. Len(store), \A k \in m + 1 .. l : k \notin a
  PROVE  f[l] = f[m]
<1> DEFINE T == {d \in Nat : m + d <= l => f[m + d] = f[m]}
<1>1. Len(store) \in Nat
  BY StoreTypes
<1>2. 0 \in T
  BY <1>1
<1>3. ASSUME NEW d \in Nat, d \in T PROVE d + 1 \in T
  <2> SUFFICES ASSUME m + (d + 1) <= l PROVE f[m + (d + 1)] = f[m]
    OBVIOUS
  <2> DEFINE k == m + (d + 1)
  <2>1. k \in m + 1 .. l /\ k - 1 = m + d /\ k \in Places /\ f[m + d] = f[m]
    BY <1>1, <1>3 DEF Places
  <2> HIDE DEF k
  <2>2. f[k] = f[k - 1]
    BY <2>1 DEF FoldsTo
  <2> QED BY <2>1, <2>2 DEF k
<1> HIDE DEF T
<1>4. l - m \in Nat /\ m + (l - m) = l
  BY <1>1
<1>5. l - m \in T
  BY <1>2, <1>3, <1>4, Induction
<1> QED BY <1>4, <1>5 DEF T

-----------------------------------------------------------------------------
(* The book at a time. *)

Own(instrument) == {k \in Places : store[k].instrument = instrument}

\* The events up to t are the first c.
IsCut(c, t) == c \in 0 .. Len(store) /\ \A k \in Places : store[k].mono <= t <=> k <= c

LEMMA CutExists ==
  ASSUME StoreInv, NEW t \in Int
  PROVE  \E c : IsCut(c, t)
<1> DEFINE n == Len(store)
           T == {k \in 1 .. n + 1 : k = n + 1 \/ ~ (store[k].mono <= t)}
<1>1. n \in Nat /\ Places = 1 .. n /\ \A k \in Places : store[k].mono \in Int
  BY StoreTypes DEF Places
<1>2. T \subseteq Nat /\ n + 1 \in T
  BY <1>1
<1>3. PICK m \in T : \A k \in T : m <= k
  <2> HIDE DEF T
  <2> QED BY <1>2, LeastElement
<1>4. m \in 1 .. n + 1 /\ (m = n + 1 \/ ~ (store[m].mono <= t))
  OBVIOUS
<1>5. ASSUME NEW k \in Places PROVE store[k].mono <= t <=> k <= m - 1
  <2>1. CASE k < m
    <3>1. k \notin T
      <4> HIDE DEF T
      <4> QED BY <1>1, <1>3, <1>4, <2>1
    <3> QED BY <1>1, <1>4, <2>1, <3>1
  <2>2. CASE m <= k
    <3>1. m \in Places /\ ~ (store[m].mono <= t)
      BY <1>1, <1>4, <2>2
    <3>2. store[m].mono <= store[k].mono
      BY <2>2, <3>1 DEF StoreInv, StoreAscends
    <3> QED BY <1>1, <1>4, <2>2, <3>1, <3>2
  <2> QED BY <1>1, <1>4, <2>1, <2>2
<1>6. m - 1 \in 0 .. n
  BY <1>1, <1>4
<1> QED BY <1>5, <1>6 DEF IsCut

\* The cut at the time of the last event is the end of the store.
LEMMA LastCut ==
  ASSUME StoreInv, store # <<>>
  PROVE  LastMono \in Nat /\ IsCut(Len(store), LastMono)
<1>1. Len(store) \in Nat /\ Places = 1 .. Len(store) /\ \A k \in Places : store[k].mono \in Nat
  BY StoreTypes DEF Places
<1>2. Len(store) \in Places /\ LastMono = store[Len(store)].mono
  <2>1. Len(store) # 0
    BY DEF StoreInv
  <2> QED BY <1>1, <2>1 DEF LastMono, Last
<1>3. \A k \in Places : store[k].mono <= store[Len(store)].mono
  BY <1>1, <1>2 DEF StoreInv, StoreAscends
<1> QED BY <1>1, <1>2, <1>3 DEF IsCut

LEMMA LastIsLatest ==
  ASSUME StoreInv, store # <<>>
  PROVE  LastMono \in Nat /\ \A j \in Places : store[j].mono <= LastMono
<1>1. LastMono \in Nat /\ IsCut(Len(store), LastMono)
  BY LastCut
<1>2. \A j \in Places : j <= Len(store)
  BY DEF Places
<1> QED BY <1>1, <1>2 DEF IsCut

\* The fold over the first places of the instrument is at the cut where the
\* fold over all of them is.
LEMMA TrueBookIs ==
  ASSUME StoreInv, NEW instrument, NEW t, NEW c, IsCut(c, t),
         NEW f, FoldsTo(f, Own(instrument))
  PROVE  TrueBook(instrument, t) = f[c]
<1> DEFINE due == {k \in DOMAIN store : store[k].instrument = instrument /\ store[k].mono <= t}
           n == Len(store)
<1>1. n \in Nat /\ DOMAIN store = Places /\ Places = 1 .. n
  BY StoreTypes DEF Places
<1>2. c \in 0 .. n /\ \A k \in Places : store[k].mono <= t <=> k <= c
  BY DEF IsCut
<1>3. \A k \in Places : k \in due <=> k \in Own(instrument) /\ k <= c
  BY <1>1, <1>2 DEF Own
<1>4. TrueBook(instrument, t) = FoldBook(due)
  BY DEF TrueBook
<1> HIDE DEF due
<1>5. PICK g : FoldsTo(g, due) /\ FoldBook(due) = g[n]
  BY FoldBookIs
<1>6. g[0] = f[0]
  BY <1>5 DEF FoldsTo
<1>7. /\ 0 \in 0 .. n /\ c \in 0 .. n /\ n \in c .. n
      /\ \A k \in 0 + 1 .. c : k \in due <=> k \in Own(instrument)
      /\ \A k \in c + 1 .. n : k \notin due
  BY <1>1, <1>2, <1>3
<1>8. g[c] = f[c]
  BY <1>5, <1>6, <1>7, FoldsAgree
<1>9. g[n] = g[c]
  BY <1>5, <1>7, FoldStands
<1> QED BY <1>4, <1>5, <1>8, <1>9

\* A snapshot begins the book anew, whatever came before: the fold from it on
\* is empty before it, and after it where the fold over all is.
LEMMA FromSnapshot ==
  ASSUME StoreInv, NEW instrument, NEW f, FoldsTo(f, Own(instrument)),
         NEW p \in Own(instrument), store[p].kind = "SnapBegin",
         NEW s \in p .. Len(store),
         NEW g, FoldsTo(g, {k \in p .. s : store[k].instrument = instrument})
  PROVE  /\ \A c \in 0 .. p - 1 : g[c] = NoBook
         /\ \A c \in p .. s : g[c] = f[c]
         /\ g[Len(store)] = g[s]
<1> DEFINE taken == {k \in p .. s : store[k].instrument = instrument}
           n == Len(store)
<1>1. n \in Nat /\ Places = 1 .. n /\ p \in 1 .. n
  BY StoreTypes DEF Places, Own
<1>2. FoldsTo(g, taken)
  OBVIOUS
<1>3. /\ \A k \in 1 .. p - 1 : k \notin taken
      /\ \A k \in p .. s : k \in taken <=> k \in Own(instrument)
      /\ \A k \in s + 1 .. n : k \notin taken
      /\ p \in taken
  BY <1>1 DEF Own
<1> HIDE DEF taken
<1>4. ASSUME NEW c \in 0 .. p - 1 PROVE g[c] = NoBook
  <2>1. 0 \in 0 .. n /\ c \in 0 .. n /\ \A k \in 0 + 1 .. c : k \notin taken
    BY <1>1, <1>3
  <2>2. g[c] = g[0]
    BY <1>2, <2>1, FoldStands
  <2> QED BY <1>2, <2>2 DEF FoldsTo
<1>5. g[p] = f[p]
  <2>1. p \in Places /\ p - 1 \in 0 .. n /\ store[p] \in PitEvents
    BY <1>1, StoreTypes
  <2>2. f[p - 1] \in PitBooks /\ g[p - 1] \in PitBooks
    BY <1>2, <2>1 DEF FoldsTo
  <2>3. f[p] = Applied(f[p - 1], store[p]) /\ g[p] = Applied(g[p - 1], store[p])
    BY <1>2, <1>3, <2>1 DEF FoldsTo
  <2> QED BY <2>1, <2>2, <2>3, AppliedIs
<1>6. ASSUME NEW c \in p .. s PROVE g[c] = f[c]
  <2>1. p \in 0 .. n /\ c \in p .. n /\ \A k \in p + 1 .. c : k \in taken <=> k \in Own(instrument)
    BY <1>1, <1>3
  <2> QED BY <1>2, <1>5, <2>1, FoldsAgree
<1>7. g[n] = g[s]
  <2>1. s \in 0 .. n /\ n \in s .. n
    BY <1>1
  <2> QED BY <1>2, <1>3, <2>1, FoldStands
<1> QED BY <1>4, <1>6, <1>7

-----------------------------------------------------------------------------
(* The scan. *)

\* Where an entry points.
PlaceOf(entry) == BlockStart(entry.block) + entry.event

\* A place is its block and its place in the block, and a block begins in the
\* store.
LEMMA BlockNumbers ==
  ASSUME NEW n \in Nat, NEW p \in 1 .. n
  PROVE  /\ BlockOf(p) \in Nat /\ PlaceInBlock(p) \in Nat
         /\ BlockStart(BlockOf(p)) + PlaceInBlock(p) = p
         /\ BlockOf(p) \in 0 .. (n - 1) \div PitBlock
         /\ \A b \in Int : b > BlockOf(p) => BlockStart(b) > p
         /\ \A b \in 0 .. (n - 1) \div PitBlock : BlockStart(b) \in 1 .. n
<1>1. PitBlock \in Nat /\ PitBlock > 0
  BY PitAssumption
<1> DEFINE q == (p - 1) \div PitBlock
           r == (p - 1) % PitBlock
           l == (n - 1) \div PitBlock
           m == (n - 1) % PitBlock
<1>2. q \in Nat /\ r \in Nat /\ r < PitBlock /\ p - 1 = PitBlock * q + r
  BY <1>1
<1>3. l \in Nat /\ m \in Nat /\ m < PitBlock /\ n - 1 = PitBlock * l + m
  BY <1>1
<1> HIDE DEF q, r, l, m
<1>4. \A a \in Int, b \in Int : a <= b => PitBlock * a <= PitBlock * b
  BY <1>1
<1>5. \A a \in Int : PitBlock * (a + 1) = PitBlock * a + PitBlock
  BY <1>1
<1>6. \A a \in Int : PitBlock * a \in Int /\ a * PitBlock = PitBlock * a
  BY <1>1
<1>7. q <= l
  <2> SUFFICES ASSUME l + 1 <= q PROVE FALSE
    BY <1>2, <1>3
  <2>1. PitBlock * (l + 1) <= PitBlock * q /\ PitBlock * (l + 1) = PitBlock * l + PitBlock
    BY <1>2, <1>3, <1>4, <1>5
  <2>2. PitBlock * l \in Int /\ PitBlock * q \in Int
    BY <1>2, <1>3, <1>6
  <2> HIDE DEF BlockStart
  <2> QED BY <1>1, <1>2, <1>3, <2>1, <2>2
<1>8. \A b \in Int : BlockStart(b) = PitBlock * b + 1
  BY <1>6 DEF BlockStart
<1>9. BlockStart(q) + r = p
  BY <1>2, <1>6, <1>8
<1>10. ASSUME NEW b \in Int, b > q PROVE BlockStart(b) > p
  <2>1. PitBlock * (q + 1) <= PitBlock * b /\ PitBlock * (q + 1) = PitBlock * q + PitBlock
    BY <1>2, <1>4, <1>5, <1>10
  <2>2. PitBlock * b \in Int /\ PitBlock * q \in Int
    BY <1>2, <1>6
  <2>3. BlockStart(b) = PitBlock * b + 1
    BY <1>8
  <2> QED BY <1>1, <1>2, <2>1, <2>2, <2>3
<1>11. ASSUME NEW b \in 0 .. l PROVE BlockStart(b) \in 1 .. n
  <2>1. PitBlock * b <= PitBlock * l /\ PitBlock * b \in Int /\ PitBlock * l \in Int /\ 0 <= PitBlock * b
    BY <1>1, <1>3, <1>4, <1>6
  <2>2. BlockStart(b) = PitBlock * b + 1
    BY <1>3, <1>8
  <2> QED BY <1>3, <2>1, <2>2
<1>12. BlockOf(p) = q /\ PlaceInBlock(p) = r
  BY DEF BlockOf, PlaceInBlock, q, r
<1> QED BY <1>2, <1>3, <1>7, <1>9, <1>10, <1>11, <1>12 DEF l

LEMMA MinIs ==
  ASSUME NEW T, T \subseteq Nat, NEW m \in T, \A k \in T : m <= k
  PROVE  Min(T) = m
<1>1. \A x \in T : (\A y \in T : x <= y) => x = m
  <2> SUFFICES ASSUME NEW x \in T, \A y \in T : x <= y PROVE x = m
    OBVIOUS
  <2>1. x <= m /\ m <= x /\ x \in Nat /\ m \in Nat
    OBVIOUS
  <2> QED BY <2>1
<1> QED BY <1>1 DEF Min

\* An entry that is made of a SnapBegin points at it.
LEMMA EntryPoints ==
  ASSUME StoreInv, NEW p \in Places, store[p].kind = "SnapBegin"
  PROVE  Matches(EntryAt(p)) /\ PlaceOf(EntryAt(p)) = p
<1> DEFINE n == Len(store)
           e == EntryAt(p)
<1>1. n \in Nat /\ DOMAIN store = Places /\ p \in 1 .. n
  BY StoreTypes DEF Places
<1>2. /\ e.block = BlockOf(p) /\ e.event = PlaceInBlock(p)
      /\ e.instrument = store[p].instrument /\ e.mono = store[p].mono
  BY DEF EntryAt
<1> HIDE DEF e
<1>3. BlockStart(e.block) + e.event = p /\ e.block \in PitBlocks
  BY <1>1, <1>2, BlockNumbers DEF PitBlocks
<1> QED BY <1>1, <1>2, <1>3 DEF Matches, PlaceOf, e

\* The scan for t takes the instrument's events from the snapshot to the cut:
\* no block is passed over that holds one of them.
LEMMA PitScanIs ==
  ASSUME StoreInv, NEW entry, Matches(entry), NEW t \in Int, NEW c, IsCut(c, t), PlaceOf(entry) <= c
  PROVE  PitScan(entry, t) = {k \in PlaceOf(entry) .. c : store[k].instrument = entry.instrument}
<1> DEFINE n == Len(store)
           p == PlaceOf(entry)
           past == {b \in PitBlocks : b > entry.block /\ BlockIsPast(b, t)}
           end == IF past = {} THEN n ELSE BlockStart(Min(past)) - 1
           late == {i \in p .. end : store[i].mono > t}
           stop == IF late = {} THEN end ELSE Min(late) - 1
<1>1. n \in Nat /\ Places = 1 .. n /\ DOMAIN store = Places /\ \A k \in Places : store[k].mono \in Nat
  BY StoreTypes DEF Places
<1>2. p \in 1 .. n /\ BlockOf(p) = entry.block
  BY <1>1 DEF Matches, PlaceOf
<1>3. c \in 0 .. n /\ p <= c /\ \A k \in Places : store[k].mono <= t <=> k <= c
  BY DEF IsCut
<1>4. PitScan(entry, t) = {k \in p .. stop : store[k].instrument = entry.instrument}
  BY DEF PitScan, PlaceOf
<1> HIDE DEF p
<1>5. end \in c .. n
  <2>1. CASE past = {}
    BY <1>1, <1>3, <2>1
  <2>2. CASE past # {}
    <3>1. past \subseteq Nat
      BY <1>1 DEF PitBlocks
    <3>2. \E m \in past : \A b \in past : m <= b
      <4> HIDE DEF past
      <4> QED BY <2>2, <3>1, LeastElement
    <3>3. Min(past) \in past
      <4> HIDE DEF past
      <4> QED BY <3>2 DEF Min
    <3> DEFINE b == Min(past)
    <3>4. b \in 0 .. (n - 1) \div PitBlock /\ store[BlockStart(b)].mono > t
      BY <3>3 DEF PitBlocks, BlockIsPast, MinMono
    <3> HIDE DEF b, past
    <3>5. BlockStart(b) \in 1 .. n
      BY <1>1, <1>2, <3>4, BlockNumbers
    <3>6. c < BlockStart(b)
      BY <1>1, <1>3, <3>4, <3>5
    <3> QED BY <1>1, <1>3, <2>2, <3>5, <3>6 DEF b
  <2> QED BY <2>1, <2>2
<1> HIDE DEF end
<1>6. stop = c
  <2>1. \A i \in p .. end : i \in late <=> c < i
    BY <1>1, <1>2, <1>3, <1>5
  <2>2. late \subseteq p .. end /\ late \subseteq Nat
    BY <1>2
  <2> HIDE DEF late
  <2>3. CASE late = {}
    <3>1. end = c
      BY <1>1, <1>2, <1>3, <1>5, <2>1, <2>3
    <3> QED BY <2>3, <3>1
  <2>4. CASE late # {}
    <3>1. PICK i \in late : TRUE
      BY <2>4
    <3>2. i \in p .. end /\ c < i
      BY <2>1, <2>2, <3>1
    <3>3. c + 1 \in p .. end
      BY <1>1, <1>2, <1>3, <1>5, <3>2
    <3>4. c + 1 \in late
      BY <1>3, <2>1, <3>3
    <3>5. \A j \in late : c + 1 <= j
      BY <1>1, <1>2, <1>3, <2>1, <2>2
    <3>6. Min(late) = c + 1
      BY <2>2, <3>4, <3>5, MinIs
    <3> QED BY <1>3, <2>4, <3>6
  <2> QED BY <2>3, <2>4
<1> HIDE DEF stop
<1>7. PitScan(entry, t) = {k \in p .. c : store[k].instrument = entry.instrument}
  BY <1>4, <1>6
<1> QED BY <1>7 DEF p

-----------------------------------------------------------------------------
(* The pass that builds the index. *)

PitEntries == [instrument : Instruments, mono : Nat, block : Nat, event : Nat]
Passes == [pending : [Instruments -> Nat], entries : Seq(PitEntries)]
NothingIndexed == [pending |-> [j \in Instruments |-> 0], entries |-> <<>>]

\* Where a bracket is open its SnapBegin is.
IsOpen(k, j, p) == p \in 1 .. k /\ store[p].kind = "SnapBegin" /\ store[p].instrument = j

\* An entry is one of a SnapBegin, and begins no later than the pass has come.
IsEntry(k, e) == \E p \in 1 .. k : store[p].kind = "SnapBegin" /\ e = EntryAt(p)

PassOf(k, s) ==
  /\ s \in Passes
  /\ \A j \in Instruments : s.pending[j] # 0 => IsOpen(k, j, s.pending[j])
  /\ \A x \in 1 .. Len(s.entries) : IsEntry(k, s.entries[x])

\* What one event makes of the open brackets and of the entries.
IndexedTo(k, s, next) ==
  LET i == store[k].instrument
  IN  /\ \A j \in Instruments \ {i} : next.pending[j] = s.pending[j]
      /\ store[k].kind = "SnapBegin" => next.pending[i] # 0
      /\ store[k].kind \notin {"SnapBegin", "SnapEnd", "Clear"} => next.pending[i] = s.pending[i]
      /\ next.entries \in {s.entries, Append(s.entries, EntryAt(s.pending[i]))}
      /\ store[k].kind = "SnapEnd" /\ s.pending[i] # 0 =>
           next.entries = Append(s.entries, EntryAt(s.pending[i]))

LEMMA IndexedIs ==
  ASSUME StoreInv, NEW k \in Places, NEW s,
         NEW m \in 0 .. Len(store), NEW l \in m .. Len(store), k <= l, PassOf(m, s)
  PROVE  PassOf(l, Indexed(s, k)) /\ IndexedTo(k, s, Indexed(s, k))
<1> DEFINE i == store[k].instrument
           p == s.pending[i]
           next == Indexed(s, k)
           pending == NextPending(s.pending, k)
           added == Append(s.entries, EntryAt(p))
<1>1. Places = 1 .. Len(store) /\ Len(store) \in Nat /\ k \in Nat /\ k \in 1 .. l /\ m \in Nat /\ l \in Nat /\ m <= l /\ l <= Len(store)
  BY StoreTypes DEF Places
<1>2. i \in Instruments /\ store[k].kind \in Kinds
  BY StoreTypes
<1>3. s.pending \in [Instruments -> Nat] /\ s.entries \in Seq(PitEntries)
  BY DEF PassOf, Passes
<1>4. \A j \in Instruments : s.pending[j] \in Nat /\ (s.pending[j] # 0 => IsOpen(m, j, s.pending[j]))
  BY <1>3 DEF PassOf
<1>5. next = [pending |-> pending,
              entries |-> IF store[k].kind = "SnapEnd" /\ p # 0 THEN added ELSE s.entries]
  BY DEF Indexed
<1>6. /\ pending \in [Instruments -> Nat]
      /\ \A j \in Instruments \ {i} : pending[j] = s.pending[j]
      /\ store[k].kind = "SnapBegin" => pending[i] = k
      /\ store[k].kind \in {"Clear", "SnapEnd"} => pending[i] = 0
      /\ store[k].kind \notin {"SnapBegin", "SnapEnd", "Clear"} => pending[i] = s.pending[i]
  <2>1. CASE store[k].kind = "SnapBegin"
    <3>1. pending = [s.pending EXCEPT ![i] = k]
      BY <2>1 DEF NextPending
    <3> HIDE DEF pending, i
    <3> QED BY <1>1, <1>2, <1>3, <2>1, <3>1
  <2>2. CASE store[k].kind \in {"Clear", "SnapEnd"}
    <3>1. pending = [s.pending EXCEPT ![i] = 0]
      BY <2>2 DEF NextPending
    <3> HIDE DEF pending, i
    <3> QED BY <1>1, <1>2, <1>3, <2>2, <3>1
  <2>3. CASE store[k].kind \notin {"SnapBegin", "Clear", "SnapEnd"}
    <3>1. pending = s.pending
      BY <2>3 DEF NextPending
    <3> HIDE DEF pending, i
    <3> QED BY <1>2, <1>3, <2>3, <3>1
  <2> QED BY <2>1, <2>2, <2>3
<1>7. \A j \in Instruments : pending[j] # 0 => IsOpen(l, j, pending[j])
  <2> SUFFICES ASSUME NEW j \in Instruments, pending[j] # 0 PROVE IsOpen(l, j, pending[j])
    OBVIOUS
  <2>1. CASE pending[j] = s.pending[j]
    <3>1. IsOpen(m, j, s.pending[j])
      BY <1>4, <2>1
    <3> QED BY <1>1, <2>1, <3>1 DEF IsOpen
  <2>2. CASE pending[j] # s.pending[j]
    <3>1. j = i /\ store[k].kind = "SnapBegin" /\ pending[j] = k
      BY <1>6, <2>2
    <3> QED BY <1>1, <3>1 DEF IsOpen
  <2> QED BY <2>1, <2>2
<1>8. \A x \in 1 .. Len(s.entries) : IsEntry(l, s.entries[x])
  <2>1. \A e : IsEntry(m, e) => IsEntry(l, e)
    BY <1>1 DEF IsEntry
  <2> QED BY <2>1 DEF PassOf
<1>9. ASSUME p # 0
      PROVE  added \in Seq(PitEntries) /\ \A x \in 1 .. Len(added) : IsEntry(l, added[x])
  <2>1. p \in 1 .. m /\ store[p].kind = "SnapBegin"
    BY <1>2, <1>4, <1>9 DEF IsOpen
  <2>2. p \in Places /\ p \in 1 .. l
    BY <1>1, <2>1
  <2>3. IsEntry(l, EntryAt(p))
    BY <2>1, <2>2 DEF IsEntry
  <2>4. EntryAt(p) \in PitEntries
    <3>1. /\ store[p].instrument \in Instruments /\ store[p].mono \in Nat
          /\ BlockOf(p) \in Nat /\ PlaceInBlock(p) \in Nat
      BY <1>1, <2>2, StoreTypes, BlockNumbers
    <3> QED BY <3>1 DEF EntryAt, PitEntries
  <2> HIDE DEF p
  <2>5. /\ added \in Seq(PitEntries) /\ Len(added) = Len(s.entries) + 1
        /\ \A x \in 1 .. Len(s.entries) : added[x] = s.entries[x]
        /\ added[Len(s.entries) + 1] = EntryAt(p)
    BY <1>3, <2>4
  <2> HIDE DEF added
  <2> QED BY <1>3, <1>8, <2>3, <2>5
<1> HIDE DEF added, pending, p
<1>10. PassOf(l, next)
  <2>1. next \in Passes
    BY <1>3, <1>5, <1>6, <1>9 DEF Passes
  <2>2. next.pending = pending /\ (next.entries = s.entries \/ (p # 0 /\ next.entries = added))
    BY <1>5
  <2> HIDE DEF next
  <2> QED BY <1>7, <1>8, <1>9, <2>1, <2>2 DEF PassOf
<1>11. next.pending = pending /\ next.entries = IF store[k].kind = "SnapEnd" /\ p # 0 THEN added ELSE s.entries
  BY <1>5
<1> HIDE DEF next, i
<1>12. /\ \A j \in Instruments \ {i} : next.pending[j] = s.pending[j]
       /\ store[k].kind = "SnapBegin" => next.pending[i] # 0
       /\ store[k].kind \notin {"SnapBegin", "SnapEnd", "Clear"} => next.pending[i] = s.pending[i]
       /\ next.entries \in {s.entries, added}
       /\ store[k].kind = "SnapEnd" /\ p # 0 => next.entries = added
  BY <1>1, <1>6, <1>11
<1>13. IndexedTo(k, s, next)
  BY <1>12 DEF IndexedTo, i, p, added
<1> QED BY <1>10, <1>13 DEF next

\* s goes through the passes over the first events of the store.
PassesTo(s) ==
  /\ \A k \in 0 .. Len(store) : PassOf(k, s[k])
  /\ s[0] = NothingIndexed
  /\ \A k \in Places : s[k] = Indexed(s[k - 1], k)

LEMMA NothingIndexedIs == \A k \in Nat : PassOf(k, NothingIndexed)
<1>1. <<>> \in Seq(PitEntries) /\ Len(<<>>) = 0
  OBVIOUS
<1>2. [j \in Instruments |-> 0] \in [Instruments -> Nat]
  OBVIOUS
<1>3. NothingIndexed \in Passes
  BY <1>1, <1>2 DEF NothingIndexed, Passes
<1>4. /\ \A j \in Instruments : NothingIndexed.pending[j] = 0
      /\ NothingIndexed.entries = <<>>
  BY DEF NothingIndexed
<1> QED BY <1>1, <1>3, <1>4 DEF PassOf

\* build is such a pass, sorted.
LEMMA BuildIs ==
  ASSUME StoreInv
  PROVE  \E s : PassesTo(s) /\ Build = SortByKey(s[Len(store)].entries)
<1> DEFINE n == Len(store)
           S == {s \in Passes : PassOf(n, s)}
           h == [x \in (1 .. n) \X S |-> Indexed(x[2], x[1])]
           Recurs(f) == f = [k \in 0 .. n |->
                               IF k = 0 THEN [pending |-> [j \in Instruments |-> 0], entries |-> <<>>]
                               ELSE Indexed(f[k - 1], k)]
<1>1. n \in Nat /\ Places = 1 .. n
  BY StoreTypes DEF Places
<1>2. \A k \in 1 .. n : \A s \in S : Indexed(s, k) \in S
  <2> SUFFICES ASSUME NEW k \in 1 .. n, NEW s \in S PROVE Indexed(s, k) \in S
    OBVIOUS
  <2>1. n \in 0 .. n /\ n \in n .. n /\ k <= n /\ k \in Places
    BY <1>1
  <2>2. PassOf(n, Indexed(s, k))
    BY <2>1, IndexedIs
  <2> QED BY <2>2 DEF PassOf
<1>3. NothingIndexed \in S
  BY <1>1, NothingIndexedIs DEF PassOf
<1> HIDE DEF S
<1>4. \A k \in 1 .. n : \A s \in S : h[<<k, s>>] = Indexed(s, k) /\ h[<<k, s>>] \in S
  BY <1>2
<1> HIDE DEF h
<1>5. PICK f : IsFold(f, S, n, NothingIndexed, h)
  <2>1. StaysIn(S, n, NothingIndexed, h)
    BY <1>1, <1>3, <1>4 DEF StaysIn
  <2> QED BY <2>1, FoldExists
<1>6. \E g : Recurs(g)
  <2>1. \A k \in 1 .. n : k - 1 \in 0 .. n
    BY <1>1
  <2>2. \A k \in 1 .. n : f[k] = Indexed(f[k - 1], k)
    BY <1>4, <1>5, <2>1 DEF IsFold
  <2>3. \A k \in 0 .. n : f[k] = IF k = 0 THEN NothingIndexed ELSE Indexed(f[k - 1], k)
    BY <1>1, <1>5, <2>2 DEF IsFold
  <2>4. f = [k \in 0 .. n |-> f[k]]
    BY <1>5 DEF IsFold
  <2>5. Recurs(f)
    BY <2>3, <2>4 DEF NothingIndexed
  <2> QED BY <2>5
<1> DEFINE g == CHOOSE e : Recurs(e)
<1>7. Recurs(g)
  BY <1>6
<1>8. Build = SortByKey(g[n].entries)
  BY DEF Build
<1> HIDE DEF g
<1>9. g[0] = NothingIndexed /\ \A k \in 1 .. n : g[k] = Indexed(g[k - 1], k)
  BY <1>1, <1>7 DEF NothingIndexed
<1>10. \A k \in 0 .. n : PassOf(k, g[k])
  <2> DEFINE T == {k \in Nat : k <= n => PassOf(k, g[k])}
  <2>1. 0 \in T
    BY <1>9, NothingIndexedIs
  <2>2. ASSUME NEW k \in Nat, k \in T PROVE k + 1 \in T
    <3> SUFFICES ASSUME k + 1 <= n PROVE PassOf(k + 1, g[k + 1])
      OBVIOUS
    <3>1. /\ k + 1 \in 1 .. n /\ (k + 1) - 1 = k /\ k + 1 <= k + 1
          /\ k \in 0 .. n /\ k + 1 \in k .. n /\ k + 1 \in Places
      BY <1>1, <2>2
    <3>2. PassOf(k, g[k])
      BY <2>2, <3>1
    <3>3. PassOf(k + 1, Indexed(g[k], k + 1))
      BY <3>1, <3>2, IndexedIs
    <3> QED BY <1>9, <3>1, <3>3
  <2> HIDE DEF T
  <2>3. \A k \in Nat : k \in T
    BY <2>1, <2>2, Induction
  <2> QED BY <1>1, <2>3 DEF T
<1>11. PassesTo(g)
  BY <1>1, <1>9, <1>10 DEF PassesTo
<1> QED BY <1>8, <1>11


\* An entry stays one.
LEMMA EntriesStay ==
  ASSUME StoreInv, NEW s, PassesTo(s), NEW c \in 0 .. Len(store)
  PROVE  \A x \in 1 .. Len(s[c].entries) :
           /\ x \in 1 .. Len(s[Len(store)].entries)
           /\ s[Len(store)].entries[x] = s[c].entries[x]
<1> DEFINE n == Len(store)
           Kept(d) == \A x \in 1 .. Len(s[c].entries) :
                        x \in 1 .. Len(s[d].entries) /\ s[d].entries[x] = s[c].entries[x]
           T == {d \in Nat : c + d <= n => Kept(c + d)}
<1>1. n \in Nat /\ Places = 1 .. n
  BY StoreTypes DEF Places
<1>2. 0 \in T
  BY <1>1
<1>3. ASSUME NEW d \in Nat, d \in T PROVE d + 1 \in T
  <2> SUFFICES ASSUME c + (d + 1) <= n PROVE Kept(c + (d + 1))
    OBVIOUS
  <2> DEFINE k == c + (d + 1)
  <2>1. k \in Places /\ k - 1 = c + d /\ k - 1 \in 0 .. n /\ k \in k - 1 .. n /\ k <= k /\ Kept(k - 1)
    BY <1>1, <1>3
  <2> HIDE DEF k, Kept
  <2>2. PassOf(k - 1, s[k - 1]) /\ s[k] = Indexed(s[k - 1], k)
    BY <2>1 DEF PassesTo
  <2> DEFINE old == s[k - 1].entries
             e == EntryAt(s[k - 1].pending[store[k].instrument])
  <2>3. s[k].entries \in {old, Append(old, e)}
    <3>1. IndexedTo(k, s[k - 1], s[k])
      BY <2>1, <2>2, IndexedIs
    <3> QED BY <3>1 DEF IndexedTo
  <2>4. old \in Seq(PitEntries)
    BY <2>2 DEF PassOf, Passes
  <2> HIDE DEF e, old
  <2>5. \A x \in 1 .. Len(old) : x \in 1 .. Len(s[k].entries) /\ s[k].entries[x] = old[x]
    <3>1. CASE s[k].entries = old
      BY <3>1
    <3>2. CASE s[k].entries = Append(old, e)
      <4>1. /\ Len(Append(old, e)) = Len(old) + 1 /\ Len(old) \in Nat
            /\ \A x \in 1 .. Len(old) : Append(old, e)[x] = old[x]
        BY <2>4
      <4> QED BY <3>2, <4>1
    <3> QED BY <2>3, <3>1, <3>2
  <2>6. Kept(k)
    BY <2>1, <2>5 DEF Kept, old
  <2> QED BY <2>6 DEF k
<1> HIDE DEF T, Kept
<1>4. n - c \in Nat /\ c + (n - c) = n
  BY <1>1
<1>5. n - c \in T
  BY <1>2, <1>3, <1>4, Induction
<1> QED BY <1>4, <1>5 DEF T, Kept

\* The pass goes along with the book of an instrument: while the book fills a
\* bracket is open, and once it is in sync there is an entry of it.
Followed(book, s, i) ==
  /\ book.sync = "Filling" => s.pending[i] # 0
  /\ book.sync = "Synced" => \E x \in 1 .. Len(s.entries) : s.entries[x].instrument = i

LEMMA FollowsOn ==
  ASSUME StoreInv, NEW s, PassesTo(s), NEW i \in Instruments, NEW f, FoldsTo(f, Own(i)),
         NEW k \in Places, Followed(f[k - 1], s[k - 1], i)
  PROVE  Followed(f[k], s[k], i)
<1> DEFINE n == Len(store)
           kind == store[k].kind
           old == s[k - 1]
           new == s[k]
           before == f[k - 1]
           after == f[k]
           p == old.pending[store[k].instrument]
<1>1. n \in Nat /\ Places = 1 .. n /\ k - 1 \in 0 .. n /\ k \in k - 1 .. n /\ k <= k
  BY StoreTypes DEF Places
<1>2. store[k] \in PitEvents /\ store[k].instrument \in Instruments
  BY StoreTypes
<1>3. PassOf(k - 1, old) /\ new = Indexed(old, k)
  BY <1>1 DEF PassesTo
<1>4. old.entries \in Seq(PitEntries)
  BY <1>3 DEF PassOf, Passes
<1>5. before \in PitBooks /\ after = IF k \in Own(i) THEN Applied(before, store[k]) ELSE before
  BY <1>1 DEF FoldsTo
<1>6. k \in Own(i) <=> store[k].instrument = i
  BY DEF Own
<1>7. /\ \A j \in Instruments \ {store[k].instrument} : new.pending[j] = old.pending[j]
      /\ kind = "SnapBegin" => new.pending[store[k].instrument] # 0
      /\ kind \notin {"SnapBegin", "SnapEnd", "Clear"} => new.pending[store[k].instrument] = p
      /\ new.entries \in {old.entries, Append(old.entries, EntryAt(p))}
      /\ kind = "SnapEnd" /\ p # 0 => new.entries = Append(old.entries, EntryAt(p))
  <2>1. IndexedTo(k, old, new)
    <3> HIDE DEF old, new
    <3> QED BY <1>1, <1>3, IndexedIs
  <2> HIDE DEF old, new
  <2> QED BY <2>1 DEF IndexedTo
<1>8. p # 0 => EntryAt(p).instrument = store[k].instrument
  BY <1>2, <1>3 DEF PassOf, IsOpen, EntryAt
<1> DEFINE e == EntryAt(p)
<1> HIDE DEF e, old, new, before, after, p
<1>9. /\ Len(Append(old.entries, e)) = Len(old.entries) + 1 /\ Len(old.entries) \in Nat
      /\ Append(old.entries, e)[Len(old.entries) + 1] = e
      /\ \A x \in 1 .. Len(old.entries) : Append(old.entries, e)[x] = old.entries[x]
  BY <1>4
<1>10. (\E x \in 1 .. Len(old.entries) : old.entries[x].instrument = i)
         => \E x \in 1 .. Len(new.entries) : new.entries[x].instrument = i
  <2>1. CASE new.entries = old.entries
    BY <2>1
  <2>2. CASE new.entries = Append(old.entries, e)
    <3> SUFFICES ASSUME NEW x \in 1 .. Len(old.entries), old.entries[x].instrument = i
                 PROVE  \E y \in 1 .. Len(new.entries) : new.entries[y].instrument = i
      OBVIOUS
    <3>1. x \in 1 .. Len(new.entries) /\ new.entries[x] = old.entries[x]
      BY <1>9, <2>2
    <3> QED BY <3>1
  <2> QED BY <1>7, <2>1, <2>2 DEF e
<1>11. Followed(before, old, i)
  BY DEF before, old
<1>12. CASE store[k].instrument # i
  <2>1. after = before /\ new.pending[i] = old.pending[i]
    BY <1>5, <1>6, <1>7, <1>12
  <2>2. Followed(after, new, i)
    BY <1>10, <1>11, <2>1 DEF Followed
  <2> QED BY <2>2 DEF after, new
<1>13. CASE store[k].instrument = i
  <2>1. after = Applied(before, store[k]) /\ p = old.pending[i]
    BY <1>5, <1>6, <1>13 DEF p
  <2>2. CASE kind = "SnapBegin"
    <3>1. after.sync = "Filling"
      BY <1>2, <1>5, <2>1, <2>2, AppliedIs
    <3>2. Followed(after, new, i)
      BY <1>7, <1>13, <2>2, <3>1 DEF Followed
    <3> QED BY <3>2 DEF after, new
  <2>3. CASE kind = "SnapEnd"
    <3>1. after.sync = IF before.sync = "Filling" THEN "Synced" ELSE before.sync
      BY <1>2, <1>5, <2>1, <2>3, AppliedIs
    <3>2. CASE before.sync = "Filling"
      <4>1. p # 0
        BY <1>11, <2>1, <3>2 DEF Followed
      <4>2. new.entries = Append(old.entries, e) /\ e.instrument = i
        BY <1>7, <1>8, <1>13, <2>3, <4>1 DEF e
      <4>3. /\ Len(old.entries) + 1 \in 1 .. Len(new.entries)
            /\ new.entries[Len(old.entries) + 1].instrument = i
        BY <1>9, <4>2
      <4>4. Followed(after, new, i)
        BY <3>1, <3>2, <4>3 DEF Followed
      <4> QED BY <4>4 DEF after, new
    <3>3. CASE before.sync # "Filling"
      <4>1. Followed(after, new, i)
        BY <1>10, <1>11, <3>1, <3>3 DEF Followed
      <4> QED BY <4>1 DEF after, new
    <3> QED BY <3>2, <3>3
  <2>4. CASE kind \in {"Clear", "Gap"}
    <3>1. after.sync = "Unsynced"
      BY <1>2, <1>5, <2>1, <2>4, AppliedIs
    <3>2. Followed(after, new, i)
      BY <3>1 DEF Followed
    <3> QED BY <3>2 DEF after, new
  <2>5. CASE kind \notin {"SnapBegin", "SnapEnd", "Clear", "Gap"}
    <3>1. after.sync = before.sync
      BY <1>2, <1>5, <2>1, <2>5, AppliedIs
    <3>2. new.pending[i] = old.pending[i]
      BY <1>7, <1>13, <2>1, <2>5
    <3>3. Followed(after, new, i)
      BY <1>10, <1>11, <3>1, <3>2 DEF Followed
    <3> QED BY <3>3 DEF after, new
  <2> QED BY <2>2, <2>3, <2>4, <2>5
<1> QED BY <1>12, <1>13

LEMMA PassFollowsBook ==
  ASSUME StoreInv, NEW s, PassesTo(s), NEW i \in Instruments, NEW f, FoldsTo(f, Own(i)),
         NEW c \in 0 .. Len(store)
  PROVE  Followed(f[c], s[c], i)
<1> DEFINE T == {k \in Nat : k <= Len(store) => Followed(f[k], s[k], i)}
<1>1. Len(store) \in Nat
  BY StoreTypes
<1>2. 0 \in T
  <2>1. f[0].sync = "Unsynced"
    BY DEF FoldsTo, NoBook
  <2>2. Followed(f[0], s[0], i)
    BY <2>1 DEF Followed
  <2> QED BY <2>2
<1>3. ASSUME NEW k \in Nat, k \in T PROVE k + 1 \in T
  <2> SUFFICES ASSUME k + 1 <= Len(store) PROVE Followed(f[k + 1], s[k + 1], i)
    OBVIOUS
  <2>1. k + 1 \in Places /\ (k + 1) - 1 = k
    BY <1>1 DEF Places
  <2>2. Followed(f[k], s[k], i)
    BY <1>1, <1>3
  <2> QED BY <2>1, <2>2, FollowsOn
<1> HIDE DEF T
<1>4. c \in T
  BY <1>2, <1>3, Induction
<1> QED BY <1>4 DEF T

-----------------------------------------------------------------------------
(* The order of the entries. *)

\* The entry at j comes no later than the one at k.
NoLater(raw, j, k) == Before(raw[j], raw[k]) \/ (~Before(raw[k], raw[j]) /\ j <= k)
NoLaterThan(raw, k) == {j \in DOMAIN raw : NoLater(raw, j, k)}

LEMMA EntryTypes ==
  ASSUME NEW raw \in Seq(PitEntries)
  PROVE  /\ Len(raw) \in Nat /\ DOMAIN raw = 1 .. Len(raw)
         /\ \A k \in 1 .. Len(raw) :
              raw[k] \in PitEntries /\ raw[k].instrument \in Nat /\ raw[k].mono \in Nat
<1>1. \A k \in 1 .. Len(raw) : raw[k] \in PitEntries
  OBVIOUS
<1>2. \A e \in PitEntries : e.instrument \in Nat /\ e.mono \in Nat
  BY PitAssumption DEF PitEntries
<1> QED BY <1>1, <1>2

LEMMA NoLaterOrders ==
  ASSUME NEW raw \in Seq(PitEntries), NEW j \in 1 .. Len(raw), NEW k \in 1 .. Len(raw),
         NEW l \in 1 .. Len(raw)
  PROVE  /\ NoLater(raw, k, k)
         /\ NoLater(raw, j, k) \/ NoLater(raw, k, j)
         /\ NoLater(raw, j, k) /\ NoLater(raw, k, j) => j = k
         /\ NoLater(raw, j, k) /\ NoLater(raw, k, l) => NoLater(raw, j, l)
         /\ Before(raw[j], raw[k]) => NoLater(raw, j, k) /\ j # k
<1>1. /\ raw[j].instrument \in Nat /\ raw[j].mono \in Nat
      /\ raw[k].instrument \in Nat /\ raw[k].mono \in Nat
      /\ raw[l].instrument \in Nat /\ raw[l].mono \in Nat
  BY EntryTypes
<1>2. j \in Nat /\ k \in Nat /\ l \in Nat
  BY EntryTypes
<1> QED BY <1>1, <1>2 DEF NoLater, Before

Rank(raw, k) == Cardinality(NoLaterThan(raw, k))

LEMMA RankIs ==
  ASSUME NEW raw \in Seq(PitEntries), NEW k \in 1 .. Len(raw)
  PROVE  /\ IsFiniteSet(NoLaterThan(raw, k))
         /\ Rank(raw, k) \in 1 .. Len(raw)
<1> DEFINE n == Len(raw)
           S == NoLaterThan(raw, k)
<1>1. n \in Nat /\ DOMAIN raw = 1 .. n
  BY EntryTypes
<1>2. S \subseteq 1 .. n /\ k \in S
  BY <1>1, NoLaterOrders DEF NoLaterThan
<1> HIDE DEF S, n
<1>3. IsFiniteSet(1 .. n) /\ Cardinality(1 .. n) = n
  <2>1. 1 \in Int /\ n \in Int /\ n \in Nat
    BY <1>1
  <2>2. IsFiniteSet(1 .. n) /\ Cardinality(1 .. n) = IF 1 > n THEN 0 ELSE n - 1 + 1
    BY <2>1, FS_Interval
  <2> QED BY <2>1, <2>2
<1>4. IsFiniteSet(S) /\ Cardinality(S) <= n
  BY <1>2, <1>3, FS_Subset
<1>5. Cardinality(S) \in Nat /\ Cardinality(S) # 0
  BY <1>2, <1>4, FS_CardinalityType, FS_EmptySet
<1> QED BY <1>1, <1>4, <1>5 DEF Rank, S, n

\* A later entry has the greater rank.
LEMMA RankOrders ==
  ASSUME NEW raw \in Seq(PitEntries), NEW j \in 1 .. Len(raw), NEW k \in 1 .. Len(raw),
         NoLater(raw, j, k), j # k
  PROVE  Rank(raw, j) < Rank(raw, k)
<1> DEFINE A == NoLaterThan(raw, j)
           B == NoLaterThan(raw, k)
<1>1. A \subseteq B
  BY EntryTypes, NoLaterOrders DEF NoLaterThan
<1>2. k \in B /\ k \notin A
  BY EntryTypes, NoLaterOrders DEF NoLaterThan
<1>3. IsFiniteSet(A) /\ IsFiniteSet(B) /\ Cardinality(A) \in Nat /\ Cardinality(B) \in Nat
  BY RankIs, FS_CardinalityType
<1> HIDE DEF A, B
<1>4. Cardinality(A) <= Cardinality(B) /\ (Cardinality(B) = Cardinality(A) => B = A)
  BY <1>1, <1>3, FS_Subset
<1>5. Cardinality(A) < Cardinality(B)
  BY <1>1, <1>2, <1>3, <1>4
<1> QED BY <1>5 DEF Rank, A, B

\* Every rank is that of one entry.
LEMMA RankIsOnto ==
  ASSUME NEW raw \in Seq(PitEntries), NEW r \in 1 .. Len(raw)
  PROVE  \E k \in 1 .. Len(raw) : Rank(raw, k) = r
<1> DEFINE n == Len(raw)
           f == [k \in 1 .. n |-> Rank(raw, k)]
<1>1. n \in Nat
  BY EntryTypes
<1>2. \A k \in 1 .. n : f[k] = Rank(raw, k) /\ Rank(raw, k) \in 1 .. n
  BY RankIs
<1>3. f \in [1 .. n -> 1 .. n]
  BY <1>2
<1>4. \A j, k \in 1 .. n : f[j] = f[k] => j = k
  <2> SUFFICES ASSUME NEW j \in 1 .. n, NEW k \in 1 .. n, j # k PROVE f[j] # f[k]
    OBVIOUS
  <2>1. NoLater(raw, j, k) \/ NoLater(raw, k, j)
    BY NoLaterOrders
  <2>2. Rank(raw, j) < Rank(raw, k) \/ Rank(raw, k) < Rank(raw, j)
    BY <2>1, RankOrders
  <2> QED BY <1>1, <1>2, <2>2
<1> HIDE DEF f
<1>5. f \in Injection(1 .. n, 1 .. n)
  BY <1>3, <1>4 DEF Injection, IsInjective
<1>6. IsFiniteSet(1 .. n)
  <2>1. 1 \in Int /\ n \in Int
    BY <1>1
  <2> QED BY <2>1, FS_Interval
<1>7. f \in Surjection(1 .. n, 1 .. n)
  BY <1>5, <1>6, FS_Injection
<1>8. \E k \in 1 .. n : f[k] = r
  BY <1>7 DEF Surjection
<1> QED BY <1>2, <1>8

\* The sorted entries are the entries, and ascend.
Ascends(sorted) == \A q, r \in 1 .. Len(sorted) : q < r => ~Before(sorted[r], sorted[q])
SortOf(sorted, raw) ==
  /\ sorted \in Seq(PitEntries) /\ Len(sorted) = Len(raw)
  /\ \A r \in 1 .. Len(sorted) : \E k \in 1 .. Len(raw) : sorted[r] = raw[k]
  /\ \A k \in 1 .. Len(raw) : \E r \in 1 .. Len(sorted) : sorted[r] = raw[k]
  /\ Ascends(sorted)

\* sort_by_key sorts: the ranks are a bijection, and follow the order.
LEMMA SortByKeyIs ==
  ASSUME NEW raw \in Seq(PitEntries)
  PROVE  SortOf(SortByKey(raw), raw)
<1> DEFINE n == Len(raw)
           at(r) == CHOOSE k \in DOMAIN raw : Rank(raw, k) = r
           sorted == [r \in DOMAIN raw |-> raw[at(r)]]
<1>1. n \in Nat /\ DOMAIN raw = 1 .. n /\ \A k \in 1 .. n : raw[k] \in PitEntries
  BY EntryTypes
<1>2. SortByKey(raw) = sorted
  BY DEF SortByKey, Rank, NoLaterThan, NoLater
<1>3. \A r \in 1 .. n : at(r) \in 1 .. n /\ Rank(raw, at(r)) = r
  <2> SUFFICES ASSUME NEW r \in 1 .. n PROVE at(r) \in 1 .. n /\ Rank(raw, at(r)) = r
    OBVIOUS
  <2>1. \E k \in DOMAIN raw : Rank(raw, k) = r
    BY <1>1, RankIsOnto
  <2> QED BY <1>1, <2>1
<1> HIDE DEF at
<1>4. sorted \in Seq(PitEntries) /\ Len(sorted) = n /\ \A r \in 1 .. n : sorted[r] = raw[at(r)]
  BY <1>1, <1>3
<1> HIDE DEF sorted
<1>5. ASSUME NEW k \in 1 .. n PROVE \E r \in 1 .. n : sorted[r] = raw[k]
  <2> DEFINE r == Rank(raw, k)
  <2>1. r \in 1 .. n
    BY RankIs
  <2> HIDE DEF r
  <2>2. at(r) \in 1 .. n /\ Rank(raw, at(r)) = Rank(raw, k)
    BY <1>3, <2>1 DEF r
  <2>3. at(r) = k
    <3> SUFFICES ASSUME at(r) # k PROVE FALSE
      OBVIOUS
    <3>1. NoLater(raw, at(r), k) \/ NoLater(raw, k, at(r))
      BY <2>2, NoLaterOrders
    <3>2. Rank(raw, at(r)) < Rank(raw, k) \/ Rank(raw, k) < Rank(raw, at(r))
      BY <2>2, <3>1, RankOrders
    <3>3. Rank(raw, k) \in Nat
      BY <1>1, <2>1 DEF r
    <3> QED BY <2>2, <3>2, <3>3
  <2> QED BY <1>4, <2>1, <2>3
<1>6. ASSUME NEW q \in 1 .. n, NEW r \in 1 .. n, q < r PROVE ~Before(sorted[r], sorted[q])
  <2> SUFFICES ASSUME Before(raw[at(r)], raw[at(q)]) PROVE FALSE
    BY <1>4
  <2>1. NoLater(raw, at(r), at(q)) /\ at(r) # at(q)
    BY <1>3, NoLaterOrders
  <2>2. Rank(raw, at(r)) < Rank(raw, at(q))
    BY <1>3, <2>1, RankOrders
  <2> QED BY <1>1, <1>3, <1>6, <2>2
<1>7. SortOf(sorted, raw)
  BY <1>1, <1>3, <1>4, <1>5, <1>6 DEF SortOf, Ascends
<1> QED BY <1>2, <1>7

-----------------------------------------------------------------------------
(* Looking up an entry. *)

\* What a lookup returns is an entry of the instrument.
IsPicked(latest, entries, instrument) ==
  \E x \in 1 .. Len(entries) : latest = <<entries[x]>> /\ entries[x].instrument = instrument

LEMMA IntervalSize ==
  ASSUME NEW m \in Nat
  PROVE  IsFiniteSet(1 .. m) /\ Cardinality(1 .. m) = m
<1>1. 1 \in Int /\ m \in Int
  OBVIOUS
<1>2. IsFiniteSet(1 .. m) /\ Cardinality(1 .. m) = IF 1 > m THEN 0 ELSE m - 1 + 1
  BY <1>1, FS_Interval
<1> QED BY <1>2

LEMMA LatestAtPicks ==
  ASSUME NEW entries \in Seq(PitEntries), NEW i, NEW t
  PROVE  LatestAt(entries, i, t) = <<>> \/ IsPicked(LatestAt(entries, i, t), entries, i)
<1> DEFINE A == {k \in DOMAIN entries : AtOrBefore(entries[k], i, t)}
           idx == Cardinality(A)
<1>1. Len(entries) \in Nat /\ DOMAIN entries = 1 .. Len(entries)
  BY EntryTypes
<1>2. A \subseteq 1 .. Len(entries)
  BY <1>1
<1>3. LatestAt(entries, i, t) =
        IF idx > 0 /\ entries[idx].instrument = i THEN <<entries[idx]>> ELSE <<>>
  BY DEF LatestAt
<1> HIDE DEF A
<1>4. IsFiniteSet(A) /\ Cardinality(A) <= Len(entries)
  <2> DEFINE n == Len(entries)
  <2>1. n \in Nat /\ A \in SUBSET (1 .. n)
    BY <1>1, <1>2
  <2> HIDE DEF n
  <2>2. IsFiniteSet(1 .. n) /\ Cardinality(1 .. n) = n
    BY <2>1, IntervalSize
  <2>3. IsFiniteSet(A) /\ Cardinality(A) <= n
    BY <2>1, <2>2, FS_Subset
  <2> QED BY <2>3 DEF n
<1>5. idx \in Nat /\ idx <= Len(entries)
  BY <1>4, FS_CardinalityType
<1> HIDE DEF idx
<1>6. CASE idx > 0 /\ entries[idx].instrument = i
  <2>1. idx \in 1 .. Len(entries) /\ LatestAt(entries, i, t) = <<entries[idx]>>
    BY <1>1, <1>3, <1>5, <1>6
  <2> QED BY <1>6, <2>1 DEF IsPicked
<1>7. CASE ~ (idx > 0 /\ entries[idx].instrument = i)
  BY <1>3, <1>7
<1> QED BY <1>6, <1>7

\* An entry of the instrument no later than t.
IsDue(entries, x, i, t) == entries[x].instrument = i /\ entries[x].mono <= t

\* latest_at finds the last entry that is due, if there is one.
LEMMA LatestAtFinds ==
  ASSUME NEW entries \in Seq(PitEntries), Ascends(entries), NEW i \in Nat, NEW t \in Int
  PROVE  /\ LatestAt(entries, i, t) = <<>> => ~ \E x \in 1 .. Len(entries) : IsDue(entries, x, i, t)
         /\ LatestAt(entries, i, t) # <<>> =>
              \E x \in 1 .. Len(entries) :
                LatestAt(entries, i, t) = <<entries[x]>> /\ IsDue(entries, x, i, t)
<1> DEFINE n == Len(entries)
           A == {k \in DOMAIN entries : AtOrBefore(entries[k], i, t)}
           idx == Cardinality(A)
           T == {k \in 1 .. n + 1 : k = n + 1 \/ ~AtOrBefore(entries[k], i, t)}
<1>1. /\ n \in Nat /\ DOMAIN entries = 1 .. n
      /\ \A k \in 1 .. n : entries[k].instrument \in Nat /\ entries[k].mono \in Nat
  BY EntryTypes
<1>2. LatestAt(entries, i, t) =
        IF idx > 0 /\ entries[idx].instrument = i THEN <<entries[idx]>> ELSE <<>>
  BY DEF LatestAt
<1>3. PICK m \in T : \A k \in T : m <= k
  <2>1. T \subseteq Nat /\ n + 1 \in T
    BY <1>1
  <2> HIDE DEF T
  <2> QED BY <2>1, LeastElement
<1>4. m \in 1 .. n + 1 /\ (m = n + 1 \/ ~AtOrBefore(entries[m], i, t))
  OBVIOUS
<1>5. ASSUME NEW k \in 1 .. n PROVE AtOrBefore(entries[k], i, t) <=> k <= m - 1
  <2>1. CASE k < m
    <3>1. k \notin T
      <4> HIDE DEF T
      <4> QED BY <1>1, <1>3, <1>4, <2>1
    <3> QED BY <1>1, <1>4, <2>1, <3>1
  <2>2. CASE m <= k
    <3>1. m \in 1 .. n /\ ~AtOrBefore(entries[m], i, t)
      BY <1>1, <1>4, <2>2
    <3>2. m = k \/ ~Before(entries[k], entries[m])
      BY <1>1, <2>2, <3>1 DEF Ascends
    <3>3. ~AtOrBefore(entries[k], i, t)
      BY <1>1, <3>1, <3>2 DEF AtOrBefore, Before
    <3> QED BY <1>1, <1>4, <2>2, <3>3
  <2> QED BY <1>1, <1>4, <2>1, <2>2
<1>6. A = 1 .. m - 1
  <2> HIDE DEF T
  <2> QED BY <1>1, <1>4, <1>5
<1>7. idx = m - 1
  <2>1. m - 1 \in Nat
    BY <1>1, <1>4
  <2> HIDE DEF A, T
  <2> QED BY <1>6, <2>1, IntervalSize
<1> HIDE DEF A, idx, T
<1>8. ASSUME NEW x \in 1 .. n, IsDue(entries, x, i, t)
      PROVE  idx > 0 /\ entries[idx].instrument = i
  <2>1. AtOrBefore(entries[x], i, t)
    BY <1>8 DEF IsDue, AtOrBefore
  <2>2. x <= idx /\ idx \in 1 .. n
    BY <1>1, <1>4, <1>5, <1>7, <2>1
  <2>3. AtOrBefore(entries[idx], i, t)
    BY <1>5, <1>7, <2>2
  <2>4. x = idx \/ ~Before(entries[idx], entries[x])
    BY <1>1, <2>2 DEF Ascends
  <2> QED BY <1>1, <1>8, <2>2, <2>3, <2>4 DEF IsDue, AtOrBefore, Before
<1>9. ASSUME idx > 0, entries[idx].instrument = i
      PROVE  idx \in 1 .. n /\ IsDue(entries, idx, i, t)
  <2>1. idx \in 1 .. n
    BY <1>1, <1>4, <1>7, <1>9
  <2>2. AtOrBefore(entries[idx], i, t)
    BY <1>1, <1>4, <1>5, <1>7, <2>1
  <2> QED BY <1>1, <1>9, <2>1, <2>2 DEF IsDue, AtOrBefore
<1>10. \A e : <<e>> # <<>>
  OBVIOUS
<1> QED BY <1>2, <1>8, <1>9, <1>10

-----------------------------------------------------------------------------
(* The index that is built. *)

\* The entries of the index are SnapBegins of the store, in order; and there
\* is one for the instrument by the time its book is in sync.
LEMMA BuildHolds ==
  ASSUME StoreInv
  PROVE  /\ Build \in Seq(PitEntries) /\ Ascends(Build)
         /\ \A x \in 1 .. Len(Build) : Matches(Build[x])
         /\ \A i \in Instruments, t \in Int :
              TrueBook(i, t).sync = "Synced" => \E x \in 1 .. Len(Build) : IsDue(Build, x, i, t)
<1> DEFINE n == Len(store)
<1>1. n \in Nat /\ Places = 1 .. n /\ n \in 0 .. n
  BY StoreTypes DEF Places
<1>2. PICK s : PassesTo(s) /\ Build = SortByKey(s[n].entries)
  BY BuildIs
<1> DEFINE raw == s[n].entries
<1>3. PassOf(n, s[n]) /\ raw \in Seq(PitEntries)
  BY <1>1, <1>2 DEF PassesTo, PassOf, Passes
<1> HIDE DEF raw
<1>4. SortOf(Build, raw)
  BY <1>2, <1>3, SortByKeyIs DEF raw
<1>5. \A k \in 1 .. Len(raw) : IsEntry(n, raw[k])
  BY <1>3 DEF PassOf, raw
<1>6. ASSUME NEW x \in 1 .. Len(Build) PROVE Matches(Build[x])
  <2>1. PICK k \in 1 .. Len(raw) : Build[x] = raw[k]
    BY <1>4 DEF SortOf
  <2>2. PICK p \in Places : store[p].kind = "SnapBegin" /\ Build[x] = EntryAt(p)
    BY <1>1, <1>5, <2>1 DEF IsEntry
  <2> QED BY <2>2, EntryPoints
<1>7. ASSUME NEW i \in Instruments, NEW t \in Int, TrueBook(i, t).sync = "Synced"
      PROVE  \E x \in 1 .. Len(Build) : IsDue(Build, x, i, t)
  <2>1. PICK c : IsCut(c, t)
    BY CutExists
  <2>2. PICK f : FoldsTo(f, Own(i))
    BY FoldBookIs
  <2>3. f[c].sync = "Synced" /\ c \in 0 .. n
    BY <1>7, <2>1, <2>2, TrueBookIs DEF IsCut
  <2>4. PICK x \in 1 .. Len(s[c].entries) : s[c].entries[x].instrument = i
    BY <1>2, <2>2, <2>3, PassFollowsBook DEF Followed
  <2>5. PICK p \in 1 .. c : s[c].entries[x] = EntryAt(p)
    BY <1>2, <2>3, <2>4 DEF PassesTo, PassOf, IsEntry
  <2>6. s[c].entries[x].mono <= t
    <3>1. p \in Places /\ p <= c
      BY <1>1, <2>3, <2>5
    <3>2. store[p].mono <= t
      BY <2>1, <3>1 DEF IsCut
    <3> QED BY <2>5, <3>2 DEF EntryAt
  <2>7. x \in 1 .. Len(raw) /\ raw[x] = s[c].entries[x]
    BY <1>2, <2>3, <2>4, EntriesStay DEF raw
  <2>8. PICK r \in 1 .. Len(Build) : Build[r] = raw[x]
    BY <1>4, <2>7 DEF SortOf
  <2> QED BY <2>4, <2>6, <2>7, <2>8 DEF IsDue
<1> QED BY <1>4, <1>6, <1>7 DEF SortOf

\* The book folded from an entry that matches is the true one, from its time on.
LEMMA FoldFromEntry ==
  ASSUME StoreInv, NEW e, Matches(e), NEW t \in Int, e.mono <= t
  PROVE  FoldBook(PitScan(e, t)) = TrueBook(e.instrument, t)
<1> DEFINE n == Len(store)
           p == PlaceOf(e)
           i == e.instrument
<1>1. n \in Nat /\ Places = 1 .. n /\ DOMAIN store = Places
  BY StoreTypes DEF Places
<1>2. p \in Places /\ store[p].kind = "SnapBegin" /\ store[p].instrument = i /\ store[p].mono = e.mono
  BY <1>1 DEF Matches, PlaceOf
<1> HIDE DEF p, i
<1>3. PICK c : IsCut(c, t)
  BY CutExists
<1>4. c \in 0 .. n /\ p <= c /\ c \in p .. n /\ p \in Own(i) /\ c \in p .. c
  BY <1>1, <1>2, <1>3 DEF IsCut, Own
<1>5. PitScan(e, t) = {k \in p .. c : store[k].instrument = i}
  BY <1>3, <1>4, PitScanIs DEF p, i
<1>6. PICK f : FoldsTo(f, Own(i))
  BY FoldBookIs
<1>7. PICK g : FoldsTo(g, PitScan(e, t)) /\ FoldBook(PitScan(e, t)) = g[n]
  BY FoldBookIs
<1>8. g[c] = f[c] /\ g[n] = g[c]
  BY <1>2, <1>4, <1>5, <1>6, <1>7, FromSnapshot
<1>9. TrueBook(i, t) = f[c]
  BY <1>3, <1>6, TrueBookIs
<1> QED BY <1>7, <1>8, <1>9 DEF i

\* The fold from the latest entry gives the book.
LEMMA InvGivesPit == StoreInv => PitIsTheBook
<1> SUFFICES ASSUME StoreInv, store # <<>>, NEW i \in Instruments, NEW t \in Times
             PROVE  LET latest == LatestAt(Build, i, t)
                    IN  IF latest = <<>> THEN TrueBook(i, t).sync # "Synced"
                        ELSE FoldBook(PitScan(latest[1], t)) = TrueBook(i, t)
  BY DEF PitIsTheBook
<1>1. t \in Int /\ i \in Nat
  BY LastCut, PitAssumption DEF Times
<1>2. Build \in Seq(PitEntries) /\ Ascends(Build)
  BY BuildHolds
<1> DEFINE latest == LatestAt(Build, i, t)
<1>3. CASE latest = <<>>
  <2>1. ~ \E x \in 1 .. Len(Build) : IsDue(Build, x, i, t)
    BY <1>1, <1>2, <1>3, LatestAtFinds
  <2> QED BY <1>1, <1>3, <2>1, BuildHolds
<1>4. CASE latest # <<>>
  <2>1. PICK x \in 1 .. Len(Build) : latest = <<Build[x]>> /\ IsDue(Build, x, i, t)
    BY <1>1, <1>2, <1>4, LatestAtFinds
  <2>2. latest[1] = Build[x]
    BY <2>1
  <2>3. Matches(Build[x]) /\ Build[x].instrument = i /\ Build[x].mono <= t
    BY <2>1, BuildHolds DEF IsDue
  <2>4. FoldBook(PitScan(Build[x], t)) = TrueBook(i, t)
    BY <1>1, <2>3, FoldFromEntry
  <2> QED BY <1>4, <2>2, <2>4
<1> QED BY <1>3, <1>4

-----------------------------------------------------------------------------
(* The sampler. *)

Points == [t : Int, book : PitBooks]
Samples == [book : PitBooks, points : SUBSET Points, next : Int]

\* The points of the times from a to b, with the book at each of them.
CutOf(t) == CHOOSE c : IsCut(c, t)
PointsFrom(g, a, b) == {[t |-> t, book |-> g[CutOf(t)]] : t \in a .. b}

LEMMA CutOfIs ==
  ASSUME StoreInv, NEW t \in Int
  PROVE  IsCut(CutOf(t), t)
BY CutExists DEF CutOf

LEMMA OnEventType ==
  ASSUME StoreInv, NEW k \in Places, NEW s \in Samples
  PROVE  OnEvent(s, store[k]) \in Samples
<1> DEFINE e == store[k]
           new == {[t |-> t, book |-> s.book] : t \in s.next .. e.mono - 1}
           next == IF e.mono > s.next THEN e.mono ELSE s.next
<1>1. s.book \in PitBooks /\ s.points \subseteq Points /\ s.next \in Int
  BY DEF Samples
<1>2. e \in PitEvents /\ e.mono \in Nat
  BY StoreTypes
<1>3. Applied(s.book, e) \in PitBooks
  BY <1>1, <1>2, AppliedIs
<1>4. new \subseteq Points
  BY <1>1, <1>2 DEF Points
<1>5. next \in Int
  BY <1>1, <1>2
<1>6. OnEvent(s, e) = [book |-> Applied(s.book, e), points |-> s.points \cup new, next |-> next]
  BY DEF OnEvent
<1> HIDE DEF new, next
<1> QED BY <1>1, <1>3, <1>4, <1>5, <1>6 DEF Samples

\* s goes through the states of the sampler.
SamplesTo(s, places, start) ==
  /\ s[0] = [book |-> NoBook, points |-> {}, next |-> start]
  /\ \A k \in 0 .. Len(store) : s[k] \in Samples
  /\ \A k \in Places : s[k] = IF k \in places THEN OnEvent(s[k - 1], store[k]) ELSE s[k - 1]

Shown(points) == {p \in points : p.book.sync = "Synced" /\ p.book.levels # <<>>}

LEMMA SamplerRuns ==
  ASSUME StoreInv, NEW places, NEW start \in Int
  PROVE  \E s : /\ SamplesTo(s, places, start)
                /\ Sampled(places, start) =
                     Shown(s[Len(store)].points \cup
                           {[t |-> t, book |-> s[Len(store)].book] :
                              t \in s[Len(store)].next .. LastMono})
<1> DEFINE n == Len(store)
           first == [book |-> NoBook, points |-> {}, next |-> start]
           Stepped(s, k) == IF k \in places THEN OnEvent(s, store[k]) ELSE s
           h == [x \in (1 .. n) \X Samples |-> Stepped(x[2], x[1])]
           Recurs(f) == f = [k \in 0 .. n |-> IF k = 0 THEN first ELSE Stepped(f[k - 1], k)]
<1>1. n \in Nat /\ Places = 1 .. n
  BY StoreTypes DEF Places
<1>2. \A k \in 1 .. n : \A s \in Samples : Stepped(s, k) \in Samples
  BY <1>1, OnEventType
<1>3. first \in Samples
  BY NoBookType DEF Samples
<1> HIDE DEF Stepped, first
<1>4. \A k \in 1 .. n : \A s \in Samples : h[<<k, s>>] = Stepped(s, k) /\ h[<<k, s>>] \in Samples
  BY <1>2
<1> HIDE DEF h
<1>5. PICK f : IsFold(f, Samples, n, first, h)
  <2>1. StaysIn(Samples, n, first, h)
    BY <1>1, <1>3, <1>4 DEF StaysIn
  <2> QED BY <2>1, FoldExists
<1>6. \E g : Recurs(g)
  <2>1. \A k \in 1 .. n : k - 1 \in 0 .. n
    BY <1>1
  <2>2. \A k \in 1 .. n : f[k] = Stepped(f[k - 1], k)
    BY <1>4, <1>5, <2>1 DEF IsFold
  <2>3. \A k \in 0 .. n : f[k] = IF k = 0 THEN first ELSE Stepped(f[k - 1], k)
    BY <1>1, <1>5, <2>2 DEF IsFold
  <2>4. f = [k \in 0 .. n |-> f[k]]
    BY <1>5 DEF IsFold
  <2>5. Recurs(f)
    BY <2>3, <2>4
  <2> QED BY <2>5
<1> DEFINE g == CHOOSE e : Recurs(e)
<1>7. Recurs(g)
  BY <1>6
<1>8. Sampled(places, start) =
        Shown(g[n].points \cup {[t |-> t, book |-> g[n].book] : t \in g[n].next .. LastMono})
  BY DEF Sampled, Shown, Stepped, first
<1> HIDE DEF g
<1>9. g[0] = first /\ \A k \in 1 .. n : g[k] = Stepped(g[k - 1], k)
  BY <1>1, <1>7
<1>10. \A k \in 0 .. n : g[k] \in Samples
  <2> DEFINE T == {k \in Nat : k <= n => g[k] \in Samples}
  <2>1. 0 \in T
    BY <1>3, <1>9
  <2>2. ASSUME NEW k \in Nat, k \in T PROVE k + 1 \in T
    <3> SUFFICES ASSUME k + 1 <= n PROVE g[k + 1] \in Samples
      OBVIOUS
    <3>1. k + 1 \in 1 .. n /\ (k + 1) - 1 = k /\ g[k] \in Samples
      BY <1>1, <2>2
    <3> QED BY <1>2, <1>9, <3>1
  <2> HIDE DEF T
  <2>3. \A k \in Nat : k \in T
    BY <2>1, <2>2, Induction
  <2> QED BY <1>1, <2>3 DEF T
<1>11. SamplesTo(g, places, start)
  BY <1>1, <1>9, <1>10 DEF SamplesTo, Stepped, first
<1> QED BY <1>8, <1>11

\* After k events: every step up to the time of the last one taken is sampled,
\* with the book of that time.
SampledTo(k, s, places, start, g) ==
  /\ s.book = g[k]
  /\ s.next \in start .. LastMono
  /\ \A j \in Places : j \in places /\ j <= k => store[j].mono <= s.next
  /\ s.points = PointsFrom(g, start, s.next - 1)

LEMMA SampledOn ==
  ASSUME StoreInv, store # <<>>, NEW places, NEW start \in Times, NEW g, FoldsTo(g, places),
         NEW k \in Places, NEW s, SampledTo(k - 1, s, places, start, g),
         NEW u, u = IF k \in places THEN OnEvent(s, store[k]) ELSE s
  PROVE  SampledTo(k, u, places, start, g)
<1> DEFINE e == store[k]
           new == {[t |-> t, book |-> s.book] : t \in s.next .. e.mono - 1}
           next == IF e.mono > s.next THEN e.mono ELSE s.next
<1>1. /\ Len(store) \in Nat /\ Places = 1 .. Len(store)
      /\ \A j \in Places : store[j].mono \in Nat
  BY StoreTypes DEF Places
<1>2. LastMono \in Nat /\ start \in Nat /\ start <= LastMono
      /\ \A j \in Places : store[j].mono <= LastMono
  BY LastIsLatest DEF Times
<1>3. /\ s.book = g[k - 1]
      /\ s.next \in Nat /\ start <= s.next /\ s.next <= LastMono
      /\ \A j \in Places : j \in places /\ j <= k - 1 => store[j].mono <= s.next
      /\ s.points = PointsFrom(g, start, s.next - 1)
  BY <1>2 DEF SampledTo
<1>4. CASE k \notin places
  <2>1. g[k] = g[k - 1]
    BY <1>4 DEF FoldsTo
  <2>2. \A j \in Places : j \in places /\ j <= k => store[j].mono <= s.next
    BY <1>1, <1>3, <1>4
  <2>3. SampledTo(k, s, places, start, g)
    BY <1>2, <1>3, <2>1, <2>2 DEF SampledTo
  <2> QED BY <1>4, <2>3
<1>5. CASE k \in places
  <2>1. g[k] = Applied(s.book, e)
    BY <1>3, <1>5 DEF FoldsTo
  <2>2. e.mono \in Nat /\ e.mono <= LastMono
    BY <1>1, <1>2
  <2>3. ASSUME NEW t \in s.next .. e.mono - 1 PROVE g[CutOf(t)] = s.book
    <3>1. t \in Int /\ s.next <= t /\ t < e.mono
      BY <1>3, <2>2
    <3>2. IsCut(CutOf(t), t)
      BY <3>1, CutOfIs
    <3> DEFINE c == CutOf(t)
    <3>3. c \in 0 .. Len(store) /\ \A j \in Places : store[j].mono <= t <=> j <= c
      BY <3>2 DEF IsCut
    <3> HIDE DEF c
    <3>4. c <= k - 1
      BY <1>1, <2>2, <3>1, <3>3
    <3>5. \A j \in c + 1 .. k - 1 : j \notin places
      <4> SUFFICES ASSUME NEW j \in c + 1 .. k - 1, j \in places PROVE FALSE
        OBVIOUS
      <4>1. j \in Places /\ j <= k - 1 /\ c < j
        BY <1>1, <3>3
      <4>2. store[j].mono <= s.next /\ store[j].mono \in Nat
        BY <1>1, <1>3, <4>1
      <4>3. store[j].mono <= t
        BY <1>3, <3>1, <4>2
      <4> QED BY <1>1, <3>3, <4>1, <4>3
    <3>6. c \in 0 .. Len(store) /\ k - 1 \in c .. Len(store)
      BY <1>1, <3>3, <3>4
    <3>7. g[k - 1] = g[c]
      BY <3>5, <3>6, FoldStands
    <3> QED BY <1>3, <3>7 DEF c
  <2>4. new = PointsFrom(g, s.next, e.mono - 1)
    BY <2>3 DEF PointsFrom
  <2>5. s.points \cup new = PointsFrom(g, start, next - 1)
    <3>1. start .. next - 1 = (start .. s.next - 1) \cup (s.next .. e.mono - 1)
      BY <1>2, <1>3, <2>2
    <3> HIDE DEF new, next
    <3> QED BY <1>3, <2>4, <3>1 DEF PointsFrom
  <2>6. /\ next \in start .. LastMono
        /\ \A j \in Places : j \in places /\ j <= k => store[j].mono <= next
    BY <1>1, <1>2, <1>3, <2>2
  <2>7. OnEvent(s, e) = [book |-> Applied(s.book, e), points |-> s.points \cup new, next |-> next]
    BY DEF OnEvent
  <2> HIDE DEF new, next
  <2>8. /\ OnEvent(s, e).book = g[k] /\ OnEvent(s, e).points = PointsFrom(g, start, next - 1)
        /\ OnEvent(s, e).next = next
    BY <2>1, <2>5, <2>7
  <2>9. SampledTo(k, OnEvent(s, e), places, start, g)
    BY <2>6, <2>8 DEF SampledTo
  <2> QED BY <1>5, <2>9
<1> QED BY <1>4, <1>5

\* The sampler shows the book at every step from `start` to the last event.
LEMMA SampledIs ==
  ASSUME StoreInv, store # <<>>, NEW places, NEW start \in Times, NEW g, FoldsTo(g, places)
  PROVE  Sampled(places, start) = Shown(PointsFrom(g, start, LastMono))
<1> DEFINE n == Len(store)
<1>1. /\ n \in Nat /\ Places = 1 .. n /\ \A j \in Places : store[j].mono \in Nat
      /\ LastMono \in Nat /\ start \in Nat /\ start <= LastMono /\ start \in Int
  BY StoreTypes, LastIsLatest DEF Times, Places
<1>2. PICK s : /\ SamplesTo(s, places, start)
               /\ Sampled(places, start) =
                    Shown(s[n].points \cup
                          {[t |-> t, book |-> s[n].book] : t \in s[n].next .. LastMono})
  BY <1>1, SamplerRuns
<1> DEFINE T == {k \in Nat : k <= n => SampledTo(k, s[k], places, start, g)}
<1>3. 0 \in T
  <2>1. s[0].book = NoBook /\ s[0].points = {} /\ s[0].next = start /\ g[0] = NoBook
    BY <1>2 DEF SamplesTo, FoldsTo
  <2>2. start .. start - 1 = {}
    BY <1>1
  <2>3. PointsFrom(g, start, start - 1) = {}
    BY <2>2 DEF PointsFrom
  <2>4. SampledTo(0, s[0], places, start, g)
    BY <1>1, <2>1, <2>3 DEF SampledTo
  <2> QED BY <2>4
<1>4. ASSUME NEW k \in Nat, k \in T PROVE k + 1 \in T
  <2> SUFFICES ASSUME k + 1 <= n PROVE SampledTo(k + 1, s[k + 1], places, start, g)
    OBVIOUS
  <2>1. k + 1 \in Places /\ (k + 1) - 1 = k /\ SampledTo(k, s[k], places, start, g)
    BY <1>1, <1>4
  <2>2. s[k + 1] = IF k + 1 \in places THEN OnEvent(s[k], store[k + 1]) ELSE s[k]
    BY <1>2, <2>1 DEF SamplesTo
  <2> HIDE DEF T
  <2> DEFINE d == k + 1
  <2>3. d \in Places /\ SampledTo(d - 1, s[k], places, start, g)
    BY <2>1
  <2>4. s[d] = IF d \in places THEN OnEvent(s[k], store[d]) ELSE s[k]
    BY <2>2
  <2> HIDE DEF d
  <2>5. SampledTo(d, s[d], places, start, g)
    BY <2>3, <2>4, SampledOn
  <2> QED BY <2>5 DEF d
<1>5. SampledTo(n, s[n], places, start, g)
  <2>1. n \in T
    <3> HIDE DEF T
    <3> QED BY <1>1, <1>3, <1>4, Induction
  <2> QED BY <1>1, <2>1
<1> DEFINE next == s[n].next
<1>6. /\ s[n].book = g[n] /\ next \in Nat /\ start <= next /\ next <= LastMono
      /\ \A j \in Places : j \in places /\ j <= n => store[j].mono <= next
      /\ s[n].points = PointsFrom(g, start, next - 1)
  BY <1>1, <1>5 DEF SampledTo
<1> HIDE DEF next, T
<1>7. ASSUME NEW t \in next .. LastMono PROVE g[CutOf(t)] = g[n]
  <2> DEFINE c == CutOf(t)
  <2>1. t \in Int /\ next <= t
    BY <1>1, <1>6
  <2>2. IsCut(c, t)
    BY <2>1, CutOfIs
  <2> HIDE DEF c
  <2>3. c \in 0 .. n /\ n \in c .. n /\ \A j \in Places : store[j].mono <= t <=> j <= c
    BY <1>1, <2>2 DEF IsCut
  <2>4. \A j \in c + 1 .. n : j \notin places
    <3> SUFFICES ASSUME NEW j \in c + 1 .. n, j \in places PROVE FALSE
      OBVIOUS
    <3>1. j \in Places /\ j <= n /\ c < j
      BY <1>1, <2>3
    <3>2. store[j].mono <= next /\ store[j].mono \in Nat
      BY <1>1, <1>6, <3>1
    <3>3. store[j].mono <= t
      BY <1>6, <2>1, <3>2
    <3> QED BY <1>1, <2>3, <3>1, <3>3
  <2>5. g[n] = g[c]
    BY <2>3, <2>4, FoldStands
  <2> QED BY <2>5 DEF c
<1>8. {[t |-> t, book |-> s[n].book] : t \in next .. LastMono} = PointsFrom(g, next, LastMono)
  BY <1>6, <1>7 DEF PointsFrom
<1>9. s[n].points \cup {[t |-> t, book |-> s[n].book] : t \in next .. LastMono}
        = PointsFrom(g, start, LastMono)
  <2>1. start .. LastMono = (start .. next - 1) \cup (next .. LastMono)
    BY <1>1, <1>6
  <2> QED BY <1>6, <1>8, <2>1 DEF PointsFrom
<1> QED BY <1>2, <1>9 DEF next

-----------------------------------------------------------------------------
(* The export. *)

\* The series from a snapshot shows the true points from its time on.
LEMMA SeriesFromEntry ==
  ASSUME StoreInv, store # <<>>, NEW e, Matches(e), NEW start \in Times
  PROVE  Sampled(PitScan(e, LastMono), start) =
           {p \in TruePoints(e.instrument, start) : e.mono <= p.t}
<1> DEFINE n == Len(store)
           i == e.instrument
           begin == PlaceOf(e)
           places == {k \in begin .. n : store[k].instrument = i}
<1>1. /\ n \in Nat /\ Places = 1 .. n /\ DOMAIN store = Places
      /\ LastMono \in Nat /\ start \in Nat /\ IsCut(n, LastMono)
      /\ \A j \in Places : store[j].mono \in Nat
  BY StoreTypes, LastCut DEF Places, Times
<1>2. /\ begin \in Places /\ store[begin].kind = "SnapBegin"
      /\ store[begin].instrument = i /\ store[begin].mono = e.mono
  BY <1>1 DEF Matches, PlaceOf
<1>3. PitScan(e, LastMono) = places
  <2>1. begin <= n /\ LastMono \in Int
    BY <1>1, <1>2
  <2> QED BY <1>1, <2>1, PitScanIs
<1> HIDE DEF begin, i
<1>4. PICK f : FoldsTo(f, Own(i))
  BY FoldBookIs
<1>5. PICK g : FoldsTo(g, places)
  <2> HIDE DEF places
  <2> QED BY FoldBookIs
<1>6. /\ \A c \in 0 .. begin - 1 : g[c] = NoBook
      /\ \A c \in begin .. n : g[c] = f[c]
  <2>1. begin \in Own(i) /\ n \in begin .. n
    BY <1>1, <1>2 DEF Own
  <2> QED BY <1>2, <1>4, <1>5, <2>1, FromSnapshot
<1> HIDE DEF places
<1>7. ASSUME NEW t \in start .. LastMono
      PROVE  g[CutOf(t)] = IF e.mono <= t THEN TrueBook(i, t) ELSE NoBook
  <2> DEFINE c == CutOf(t)
  <2>1. t \in Int
    BY <1>1
  <2>2. IsCut(c, t)
    BY <2>1, CutOfIs
  <2> HIDE DEF c
  <2>3. c \in 0 .. n /\ (e.mono <= t <=> begin <= c)
    BY <1>2, <2>2 DEF IsCut
  <2>4. CASE begin <= c
    <3>1. c \in begin .. n
      BY <1>1, <1>2, <2>3, <2>4
    <3>2. TrueBook(i, t) = f[c]
      BY <1>4, <2>2, TrueBookIs
    <3> QED BY <1>6, <2>3, <2>4, <3>1, <3>2 DEF c
  <2>5. CASE ~ (begin <= c)
    <3>1. c \in 0 .. begin - 1
      BY <1>1, <1>2, <2>3, <2>5
    <3> QED BY <1>6, <2>3, <2>5, <3>1 DEF c
  <2> QED BY <2>4, <2>5
<1>8. Sampled(places, start) = Shown(PointsFrom(g, start, LastMono))
  BY <1>5, SampledIs
<1> DEFINE shown(b) == b.sync = "Synced" /\ b.levels # <<>>
           Lhs == Shown(PointsFrom(g, start, LastMono))
           Rhs == {p \in TruePoints(i, start) : e.mono <= p.t}
<1>9. ASSUME NEW p \in Lhs PROVE p \in Rhs
  <2>1. PICK t \in start .. LastMono : p = [t |-> t, book |-> g[CutOf(t)]] /\ shown(p.book)
    BY DEF Shown, PointsFrom
  <2>2. p.t = t /\ p.book = g[CutOf(t)]
    BY <2>1
  <2>3. e.mono <= t
    BY <1>7, <2>1, <2>2 DEF NoBook
  <2>4. p.book = TrueBook(i, t) /\ p = [t |-> t, book |-> TrueBook(i, t)]
    BY <1>7, <2>1, <2>2, <2>3
  <2>5. p \in TruePoints(i, start)
    BY <2>1, <2>4 DEF TruePoints
  <2> QED BY <2>2, <2>3, <2>5
<1>10. ASSUME NEW p \in Rhs PROVE p \in Lhs
  <2>1. PICK t \in start .. LastMono : p = [t |-> t, book |-> TrueBook(i, t)] /\ shown(p.book)
    BY DEF TruePoints
  <2>2. p.t = t /\ e.mono <= p.t
    BY <2>1
  <2>3. p = [t |-> t, book |-> g[CutOf(t)]]
    BY <1>7, <2>1, <2>2
  <2>4. p \in PointsFrom(g, start, LastMono)
    BY <2>1, <2>3 DEF PointsFrom
  <2> QED BY <2>1, <2>4 DEF Shown
<1>11. Lhs = Rhs
  BY <1>9, <1>10
<1> QED BY <1>3, <1>8, <1>11 DEF i

\* A sidecar that is saved holds entries, and those of this store if it was
\* built from it.
SidecarInv ==
  /\ sidecar.file = "saved" => sidecar.entries \in Seq(PitEntries)
  /\ fresh => sidecar.file = "saved" /\ sidecar.entries = Build

\* EntryFor finds an entry of the instrument, or none.
LEMMA EntryForPicks ==
  ASSUME NEW entries \in Seq(PitEntries), NEW i, NEW start
  PROVE  LET entry == EntryFor(entries, i, start)
         IN  entry = <<>> \/ IsPicked(entry, entries, i)
<1> DEFINE own == {k \in DOMAIN entries : entries[k].instrument = i}
           first == FirstEntryFor(entries, i)
           latest == LatestAt(entries, i, start)
<1>1. first = <<>> \/ IsPicked(first, entries, i)
  <2>1. first = IF own = {} THEN <<>> ELSE <<entries[Min(own)]>>
    BY DEF FirstEntryFor
  <2>2. own \subseteq Nat /\ own \subseteq 1 .. Len(entries)
    BY EntryTypes
  <2>3. own # {} => \E m \in own : \A k \in own : m <= k
    <3> HIDE DEF own
    <3> QED BY <2>2, LeastElement
  <2>4. own # {} => Min(own) \in own
    <3> HIDE DEF own
    <3> QED BY <2>3 DEF Min
  <2> QED BY <2>1, <2>2, <2>4 DEF IsPicked
<1>2. latest = <<>> \/ IsPicked(latest, entries, i)
  BY LatestAtPicks
<1>3. EntryFor(entries, i, start) = IF latest # <<>> THEN latest ELSE first
  BY DEF EntryFor
<1> HIDE DEF latest, first
<1> QED BY <1>1, <1>2, <1>3

\* From entries in order EntryFor finds one before every time t from `start`
\* on at which there is any.
LEMMA EntryForCovers ==
  ASSUME NEW entries \in Seq(PitEntries), Ascends(entries), NEW i \in Nat, NEW start \in Int,
         NEW t \in Int, start <= t, NEW x \in 1 .. Len(entries), IsDue(entries, x, i, t)
  PROVE  \E y \in 1 .. Len(entries) :
           EntryFor(entries, i, start) = <<entries[y]>> /\ IsDue(entries, y, i, t)
<1> DEFINE own == {k \in DOMAIN entries : entries[k].instrument = i}
           first == FirstEntryFor(entries, i)
           latest == LatestAt(entries, i, start)
<1>1. EntryFor(entries, i, start) = IF latest # <<>> THEN latest ELSE first
  BY DEF EntryFor
<1>2. \A k \in 1 .. Len(entries) : entries[k].instrument \in Nat /\ entries[k].mono \in Nat
  BY EntryTypes
<1>3. CASE latest # <<>>
  <2>1. PICK y \in 1 .. Len(entries) : latest = <<entries[y]>> /\ IsDue(entries, y, i, start)
    BY <1>3, LatestAtFinds
  <2>2. IsDue(entries, y, i, t)
    BY <1>2, <2>1 DEF IsDue
  <2> QED BY <1>1, <1>3, <2>1, <2>2
<1>4. CASE latest = <<>>
  <2>1. first = IF own = {} THEN <<>> ELSE <<entries[Min(own)]>>
    BY DEF FirstEntryFor
  <2>2. own \subseteq Nat /\ own \subseteq 1 .. Len(entries) /\ x \in own
    BY EntryTypes DEF IsDue
  <2>3. PICK y \in own : \A k \in own : y <= k
    <3> HIDE DEF own
    <3> QED BY <2>2, LeastElement
  <2>4. Min(own) = y
    <3> HIDE DEF own
    <3> QED BY <2>2, <2>3, MinIs
  <2>5. first = <<entries[y]>> /\ y \in 1 .. Len(entries) /\ entries[y].instrument = i
    BY <2>1, <2>2, <2>4
  <2>6. y <= x /\ x \in Nat /\ y \in Nat
    <3> HIDE DEF own
    <3> QED BY <2>2, <2>3
  <2>7. x = y \/ ~Before(entries[x], entries[y])
    BY <2>5, <2>6 DEF Ascends
  <2>8. entries[y].mono <= t
    BY <1>2, <2>5, <2>7 DEF Before, IsDue
  <2> QED BY <1>1, <1>4, <2>5, <2>8 DEF IsDue
<1> QED BY <1>3, <1>4

LEMMA TruePointsAre ==
  ASSUME StoreInv, store # <<>>, NEW i \in Instruments, NEW start \in Times,
         NEW p \in TruePoints(i, start)
  PROVE  /\ p.t \in Int /\ start <= p.t
         /\ \E x \in 1 .. Len(Build) : IsDue(Build, x, i, p.t)
<1>1. LastMono \in Nat /\ start \in Nat
  BY LastIsLatest DEF Times
<1>2. PICK t \in start .. LastMono :
        p = [t |-> t, book |-> TrueBook(i, t)] /\ p.book.sync = "Synced"
  BY DEF TruePoints
<1>3. p.t = t /\ TrueBook(i, t).sync = "Synced" /\ t \in Int /\ start <= t
  BY <1>1, <1>2
<1> QED BY <1>3, BuildHolds

\* What the export makes of the entry that was found.
LEMMA SeriesIs ==
  ASSUME StoreInv, store # <<>>, NEW i \in Instruments, NEW start \in Times,
         NEW entries \in Seq(PitEntries), LoadOrBuild = entries,
         NEW y \in 1 .. Len(entries), EntryFor(entries, i, start) = <<entries[y]>>,
         entries[y].instrument = i
  PROVE  Series(i, start) =
           IF Matches(entries[y])
           THEN [ok |-> TRUE, points |-> {p \in TruePoints(i, start) : entries[y].mono <= p.t}]
           ELSE [ok |-> FALSE, points |-> {}]
<1> DEFINE e == entries[y]
           entry == <<e>>
<1>1. entry # <<>> /\ entry[1] = e
  OBVIOUS
<1>2. Series(i, start) =
        IF entry = <<>> THEN [ok |-> TRUE, points |-> {}]
        ELSE IF Matches(entry[1])
             THEN [ok |-> TRUE, points |-> Sampled(PitScan(entry[1], LastMono), start)]
        ELSE [ok |-> FALSE, points |-> {}]
  BY DEF Series
<1>3. e.instrument = i
  OBVIOUS
<1> HIDE DEF entry, e
<1>4. Matches(e) => Sampled(PitScan(e, LastMono), start)
                      = {p \in TruePoints(i, start) : e.mono <= p.t}
  BY <1>3, SeriesFromEntry
<1>5. Series(i, start) =
        IF Matches(e)
        THEN [ok |-> TRUE, points |-> {p \in TruePoints(i, start) : e.mono <= p.t}]
        ELSE [ok |-> FALSE, points |-> {}]
  BY <1>1, <1>2, <1>4
<1> QED BY <1>5 DEF e

LEMMA NoSeries ==
  ASSUME NEW i, NEW start, EntryFor(LoadOrBuild, i, start) = <<>>
  PROVE  Series(i, start) = [ok |-> TRUE, points |-> {}]
BY DEF Series

\* The series that is exported is true.
LEMMA InvGivesExport == StoreInv /\ SidecarInv => ExportIsTrue
<1> SUFFICES ASSUME StoreInv, SidecarInv, store # <<>>, NEW i \in Instruments, NEW start \in Times
             PROVE  LET series == Series(i, start)
                    IN  IF fresh \/ sidecar.file # "saved"
                        THEN series = [ok |-> TRUE, points |-> TruePoints(i, start)]
                        ELSE series.points \subseteq TruePoints(i, start)
  BY DEF ExportIsTrue
<1> DEFINE true == TruePoints(i, start)
           entries == LoadOrBuild
           entry == EntryFor(entries, i, start)
<1>1. start \in Int /\ i \in Nat
  BY LastIsLatest, PitAssumption DEF Times
<1>2. /\ Build \in Seq(PitEntries) /\ Ascends(Build)
      /\ \A x \in 1 .. Len(Build) : Matches(Build[x])
  BY BuildHolds
<1>3. entries \in Seq(PitEntries) /\ (fresh \/ sidecar.file # "saved" => entries = Build)
  BY <1>2 DEF LoadOrBuild, SidecarInv
<1>4. entry = <<>> \/ IsPicked(entry, entries, i)
  BY <1>3, EntryForPicks
<1> HIDE DEF true
<1>5. CASE fresh \/ sidecar.file # "saved"
  <2>1. entries = Build
    BY <1>3, <1>5
  <2>2. ASSUME NEW p \in true
        PROVE  \E y \in 1 .. Len(entries) : entry = <<entries[y]>> /\ IsDue(entries, y, i, p.t)
    <3>1. p.t \in Int /\ start <= p.t /\ \E x \in 1 .. Len(Build) : IsDue(Build, x, i, p.t)
      BY TruePointsAre DEF true
    <3> HIDE DEF entries
    <3> QED BY <1>1, <1>2, <2>1, <3>1, EntryForCovers
  <2>3. CASE entry = <<>>
    <3>1. \A e : <<e>> # <<>>
      OBVIOUS
    <3> HIDE DEF entries
    <3>2. true = {}
      BY <2>2, <2>3, <3>1
    <3>3. Series(i, start) = [ok |-> TRUE, points |-> {}]
      BY <2>3, NoSeries DEF entries
    <3> QED BY <1>5, <3>2, <3>3 DEF true
  <2>4. CASE entry # <<>>
    <3>1. PICK y \in 1 .. Len(entries) : entry = <<entries[y]>> /\ entries[y].instrument = i
      BY <1>4, <2>4 DEF IsPicked
    <3> DEFINE m == entries[y]
    <3>2. Matches(m)
      BY <1>2, <2>1, <3>1
    <3>3. Series(i, start) = [ok |-> TRUE, points |-> {p \in true : m.mono <= p.t}]
      BY <1>3, <3>1, <3>2, SeriesIs DEF true
    <3>4. \A e, f : <<e>> = <<f>> => e = f
      OBVIOUS
    <3>5. ASSUME NEW p \in true PROVE m.mono <= p.t
      <4>1. PICK z \in 1 .. Len(entries) : entry = <<entries[z]>> /\ IsDue(entries, z, i, p.t)
        BY <2>2
      <4>2. entries[z] = m
        BY <3>1, <3>4, <4>1
      <4> QED BY <4>1, <4>2 DEF IsDue
    <3>6. {p \in true : m.mono <= p.t} = true
      <4> HIDE DEF m
      <4> QED BY <3>5
    <3> QED BY <1>5, <3>3, <3>6 DEF true
  <2> QED BY <2>3, <2>4
<1>6. CASE ~ (fresh \/ sidecar.file # "saved")
  <2>1. CASE entry = <<>>
    <3>1. Series(i, start).points = {}
      BY <2>1, NoSeries
    <3> QED BY <1>6, <3>1
  <2>2. CASE entry # <<>>
    <3>1. PICK y \in 1 .. Len(entries) : entry = <<entries[y]>> /\ entries[y].instrument = i
      BY <1>4, <2>2 DEF IsPicked
    <3> DEFINE m == entries[y]
    <3>2. Series(i, start) =
            IF Matches(m) THEN [ok |-> TRUE, points |-> {p \in true : m.mono <= p.t}]
            ELSE [ok |-> FALSE, points |-> {}]
      BY <1>3, <3>1, SeriesIs DEF true
    <3> HIDE DEF m
    <3>3. Series(i, start).points \subseteq true
      BY <3>2
    <3> QED BY <1>6, <3>3 DEF true
  <2> QED BY <2>1, <2>2
<1> QED BY <1>5, <1>6

-----------------------------------------------------------------------------
(* The invariant. *)

\* The events of the store ascend in time, and the sidecar that was built from
\* it is its index, so that only a sidecar that is stale may not match it.
PitInv ==
  /\ StoreInv /\ SidecarInv
  /\ fresh \in BOOLEAN /\ frames \in Nat /\ stores \in Nat

LEMMA PitStart == PitInit => PitInv
<1> SUFFICES ASSUME PitInit PROVE PitInv
  OBVIOUS
<1>1. store = <<>> /\ sidecar = NoSidecar /\ fresh = FALSE /\ frames = 0 /\ stores = 1
  BY DEF PitInit
<1>2. StoreInv
  <2>1. <<>> \in Seq(PitEvents) /\ Len(<<>>) = 0
    OBVIOUS
  <2> QED BY <1>1, <2>1 DEF StoreInv, StoreAscends, Places
<1>3. SidecarInv
  BY <1>1 DEF SidecarInv, NoSidecar
<1> QED BY <1>1, <1>2, <1>3 DEF PitInv

\* Events of one time that is not before the last keep the store in order.
LEMMA FrameKeepsStore ==
  ASSUME StoreInv, NEW t \in Nat, store = <<>> \/ t >= LastMono,
         NEW events \in Seq(PitEvents), \A k \in 1 .. Len(events) : events[k].mono = t,
         store' = store \o events
  PROVE  StoreInv'
<1> DEFINE n == Len(store)
           m == Len(events)
           new == store \o events
<1>1. n \in Nat /\ Places = 1 .. n /\ \A k \in Places : store[k].mono \in Nat
  BY StoreTypes DEF Places
<1>2. /\ m \in Nat /\ new \in Seq(PitEvents) /\ Len(new) = n + m
      /\ \A k \in 1 .. n : new[k] = store[k]
      /\ \A k \in n + 1 .. n + m : new[k] = events[k - n]
  <2>1. store \in Seq(PitEvents)
    BY DEF StoreInv
  <2> QED BY <2>1
<1>3. \A k \in Places : store[k].mono <= t
  <2>1. CASE store = <<>>
    BY <2>1 DEF Places
  <2>2. CASE store # <<>>
    <3>1. LastMono \in Nat /\ LastMono <= t /\ \A k \in Places : store[k].mono <= LastMono
      BY <2>2, LastIsLatest
    <3> QED BY <1>1, <3>1
  <2> QED BY <2>1, <2>2
<1> HIDE DEF new
<1>4. ASSUME NEW j \in 1 .. n + m, NEW k \in 1 .. n + m, j <= k PROVE new[j].mono <= new[k].mono
  <2>1. CASE k <= n
    <3>1. j \in Places /\ k \in Places /\ new[j] = store[j] /\ new[k] = store[k]
      BY <1>1, <1>2, <1>4, <2>1
    <3> QED BY <1>4, <3>1 DEF StoreInv, StoreAscends
  <2>2. CASE ~ (k <= n)
    <3>1. k \in n + 1 .. n + m /\ k - n \in 1 .. m
      BY <1>1, <1>2, <2>2
    <3>2. new[k].mono = t
      BY <1>2, <3>1
    <3>3. CASE j <= n
      <4>1. j \in Places /\ new[j] = store[j]
        BY <1>1, <1>2, <3>3
      <4> QED BY <1>3, <3>2, <4>1
    <3>4. CASE ~ (j <= n)
      <4>1. j \in n + 1 .. n + m /\ j - n \in 1 .. m
        BY <1>1, <1>2, <3>4
      <4>2. new[j].mono = t
        BY <1>2, <4>1
      <4> QED BY <3>2, <4>2
    <3> QED BY <3>3, <3>4
  <2> QED BY <2>1, <2>2
<1>5. store' = new
  BY DEF new
<1> QED BY <1>2, <1>4, <1>5 DEF StoreInv, StoreAscends, Places

LEMMA WriteFrameKeeps ==
  ASSUME PitInv, NEW i \in Instruments, NEW t \in 0 .. MaxTime, WriteFrame(i, t)
  PROVE  PitInv'
<1>1. t \in Nat /\ (store = <<>> \/ t >= LastMono) /\ ~fresh
  BY PitAssumption DEF WriteFrame
<1>2. PICK events \in {SnapshotEvents(i, t), UpdateEvents(i, t), GapEvents(i, t)} :
        store' = store \o events
  BY DEF WriteFrame
<1>3. StoreInv /\ Len(store) \in Nat
  BY StoreTypes DEF PitInv
<1>4. \A kind \in Kinds, qty \in Nat : Event(kind, i, t, qty) \in PitEvents /\ Event(kind, i, t, qty).mono = t
  BY <1>1 DEF Event, PitEvents
<1>5. {"Clear", "SnapBegin", "SnapLevel", "SnapEnd", "Set", "Gap"} \subseteq Kinds
  BY DEF Kinds
<1>6. events \in Seq(PitEvents) /\ \A k \in 1 .. Len(events) : events[k].mono = t
  <2>1. CASE events = SnapshotEvents(i, t)
    <3> DEFINE kinds == <<"Clear", "SnapBegin", "SnapLevel", "SnapEnd">>
    <3>1. \A k \in 1 .. 4 : kinds[k] \in Kinds
      BY <1>5
    <3> HIDE DEF kinds
    <3>2. events = [k \in 1 .. 4 |-> Event(kinds[k], i, t, Len(store) + k)]
      BY <2>1 DEF SnapshotEvents, kinds
    <3>3. \A k \in 1 .. 4 : events[k] \in PitEvents /\ events[k].mono = t
      BY <1>3, <1>4, <3>1, <3>2
    <3>4. DOMAIN events = 1 .. 4 /\ events = [k \in 1 .. 4 |-> events[k]]
      BY <3>2
    <3>5. events \in Seq(PitEvents) /\ Len(events) = 4
      BY <3>3, <3>4
    <3> QED BY <3>3, <3>5
  <2>2. CASE events = UpdateEvents(i, t)
    <3> DEFINE e == Event("Set", i, t, Len(store) + 1)
    <3>1. e \in PitEvents /\ e.mono = t /\ events = <<e>>
      BY <1>3, <1>4, <1>5, <2>2 DEF UpdateEvents
    <3> HIDE DEF e
    <3> QED BY <3>1
  <2>3. CASE events = GapEvents(i, t)
    <3> DEFINE e == Event("Gap", i, t, Len(store) + 1)
    <3>1. e \in PitEvents /\ e.mono = t /\ events = <<e>>
      BY <1>3, <1>4, <1>5, <2>3 DEF GapEvents
    <3> HIDE DEF e
    <3> QED BY <3>1
  <2> QED BY <1>2, <2>1, <2>2, <2>3
<1>7. StoreInv'
  BY <1>1, <1>2, <1>3, <1>6, FrameKeepsStore
<1>8. frames' = frames + 1 /\ sidecar' = sidecar /\ fresh' = fresh /\ stores' = stores
  BY DEF WriteFrame
<1>9. SidecarInv'
  BY <1>1, <1>8 DEF PitInv, SidecarInv
<1> QED BY <1>7, <1>8, <1>9 DEF PitInv

LEMMA TearStoreKeeps ==
  ASSUME PitInv, NEW b \in PitBlocks, TearStore(b)
  PROVE  PitInv'
<1> DEFINE n == Len(store)
           c == BlockStart(b) - 1
           new == SubSeq(store, 1, c)
<1>1. StoreInv /\ n \in Nat /\ Places = 1 .. n
  BY StoreTypes DEF PitInv, Places
<1>2. b \in 0 .. (n - 1) \div PitBlock /\ b > 0 /\ ~fresh
  BY DEF TearStore, PitBlocks
<1>3. n # 0
  <2> SUFFICES ASSUME n = 0 PROVE FALSE
    OBVIOUS
  <2>1. PitBlock \in Nat /\ PitBlock > 0
    BY PitAssumption
  <2> DEFINE q == (n - 1) \div PitBlock
  <2>2. n - 1 = -1
    OBVIOUS
  <2>3. (-1) \div PitBlock \in Int /\ (-1) \div PitBlock < 1
    BY <2>1
  <2>4. q \in Int /\ q < 1
    BY <2>2, <2>3
  <2>5. b \in 0 .. q
    BY <1>2
  <2> HIDE DEF q
  <2> QED BY <1>2, <2>4, <2>5
<1>4. c \in 0 .. n
  <2>1. 1 \in 1 .. n
    BY <1>1, <1>3
  <2>2. BlockStart(b) \in 1 .. n
    BY <1>1, <1>2, <2>1, BlockNumbers
  <2> QED BY <1>1, <2>2
<1> HIDE DEF c
<1>5. new \in Seq(PitEvents) /\ Len(new) = c /\ \A k \in 1 .. c : new[k] = store[k]
  <2>1. store \in Seq(PitEvents)
    BY <1>1 DEF StoreInv
  <2> QED BY <1>1, <1>4, <2>1
<1>6. store' = new /\ frames' = MaxFrames /\ sidecar' = sidecar /\ fresh' = fresh /\ stores' = stores
  BY DEF TearStore, c
<1> HIDE DEF new
<1>7. StoreInv'
  <2>1. \A j, k \in 1 .. c : j <= k => new[j].mono <= new[k].mono
    BY <1>1, <1>4, <1>5 DEF StoreInv, StoreAscends
  <2> QED BY <1>5, <1>6, <2>1 DEF StoreInv, StoreAscends, Places
<1>8. SidecarInv'
  BY <1>2, <1>6 DEF PitInv, SidecarInv
<1> QED BY <1>6, <1>7, <1>8, PitAssumption DEF PitInv

\* The index depends on the store alone.
IsPass(f) ==
  f = [k \in 0 .. Len(store) |->
         IF k = 0 THEN [pending |-> [j \in Instruments |-> 0], entries |-> <<>>]
         ELSE Indexed(f[k - 1], k)]

LEMMA BuildStays ==
  ASSUME store' = store
  PROVE  Build' = Build
<1>1. \A s, k : Indexed(s, k)' = Indexed(s, k)
  BY DEF Indexed, NextPending, EntryAt, BlockOf, PlaceInBlock
<1>2. \A f : IsPass(f)' <=> IsPass(f)
  BY <1>1 DEF IsPass
<1>3. (CHOOSE f : IsPass(f))' = (CHOOSE f : IsPass(f))
  BY <1>2
<1>4. Build = SortByKey((CHOOSE f : IsPass(f))[Len(store)].entries)
  BY DEF Build, IsPass
<1>5. Build' = SortByKey((CHOOSE f : IsPass(f))'[Len(store)].entries)
  BY DEF Build, IsPass
<1> QED BY <1>3, <1>4, <1>5

LEMMA SaveKeeps == PitInv /\ Save => PitInv'
<1> SUFFICES ASSUME PitInv, Save PROVE PitInv'
  OBVIOUS
<1>1. /\ sidecar' = [file |-> "saved", entries |-> Build] /\ fresh' = TRUE
      /\ store' = store /\ frames' = frames /\ stores' = stores
  BY DEF Save
<1>2. StoreInv'
  BY <1>1 DEF PitInv, StoreInv, StoreAscends, Places
<1>3. Build \in Seq(PitEntries)
  BY BuildHolds DEF PitInv
<1>4. Build' = Build
  BY <1>1, BuildStays
<1>5. sidecar'.file = "saved" /\ sidecar'.entries = Build
  BY <1>1
<1>6. SidecarInv'
  BY <1>3, <1>4, <1>5 DEF SidecarInv
<1> QED BY <1>1, <1>2, <1>6 DEF PitInv

LEMMA PitStep == PitInv /\ [PitNext]_pitVars => PitInv'
<1> SUFFICES ASSUME PitInv, [PitNext]_pitVars PROVE PitInv'
  OBVIOUS
<1>1. ASSUME store' = store PROVE StoreInv'
  BY <1>1 DEF PitInv, StoreInv, StoreAscends, Places
<1>2. CASE \E i \in Instruments, t \in 0 .. MaxTime : WriteFrame(i, t)
  BY <1>2, WriteFrameKeeps
<1>3. CASE \E b \in PitBlocks : TearStore(b)
  BY <1>3, TearStoreKeeps
<1>4. CASE Save
  BY <1>4, SaveKeeps
<1>5. CASE SaveCutOff
  <2>1. /\ store' = store /\ sidecar' = TornSidecar /\ fresh' = fresh /\ ~fresh
        /\ frames' = frames /\ stores' = stores
    BY <1>5 DEF SaveCutOff
  <2>2. SidecarInv'
    BY <2>1 DEF SidecarInv, TornSidecar
  <2>3. frames' \in Nat /\ stores' \in Nat /\ fresh' \in BOOLEAN
    <3>1. frames' \in Nat /\ stores' \in Nat
      BY <2>1 DEF PitInv
    <3>2. fresh' \in BOOLEAN
      BY <2>1, Zenon DEF PitInv
    <3> QED BY <3>1, <3>2
  <2> QED BY <1>1, <2>1, <2>2, <2>3 DEF PitInv
<1>6. CASE Replace
  <2>1. /\ store' = <<>> /\ sidecar' = sidecar /\ fresh' = FALSE
        /\ frames' = 0 /\ stores' = stores + 1
    BY <1>6 DEF Replace
  <2>2. StoreInv'
    <3>1. <<>> \in Seq(PitEvents) /\ Len(<<>>) = 0
      OBVIOUS
    <3> QED BY <2>1, <3>1 DEF StoreInv, StoreAscends, Places
  <2>3. SidecarInv'
    BY <2>1 DEF PitInv, SidecarInv
  <2>4. frames' \in Nat /\ stores' \in Nat /\ fresh' \in BOOLEAN
    <3>1. frames' \in Nat /\ stores' \in Nat
      BY <2>1 DEF PitInv
    <3>2. fresh' \in BOOLEAN
      BY <2>1, Zenon DEF PitInv
    <3> QED BY <3>1, <3>2
  <2> QED BY <2>2, <2>3, <2>4 DEF PitInv
<1>7. CASE UNCHANGED pitVars
  <2>1. /\ store' = store /\ sidecar' = sidecar /\ fresh' = fresh
        /\ frames' = frames /\ stores' = stores
    BY <1>7 DEF pitVars
  <2>2. Build' = Build
    BY <2>1, BuildStays
  <2>3. SidecarInv'
    BY <2>1, <2>2 DEF PitInv, SidecarInv
  <2> QED BY <1>1, <2>1, <2>3 DEF PitInv
<1> QED BY <1>2, <1>3, <1>4, <1>5, <1>6, <1>7 DEF PitNext

\* The invariant holds for stores written, torn and replaced, and for sidecars
\* saved, cut off and left behind.
THEOREM PitInvariant == PitSpec => []PitInv
<1> QED BY PitStart, PitStep, PTL DEF PitSpec

\* pit_scan from the entry that latest_at finds gives the book of the whole
\* stream at every time, and there is an entry whenever that book is in sync.
THEOREM PitTheorem == PitSpec => []PitIsTheBook
<1>1. PitInv => PitIsTheBook
  BY InvGivesPit DEF PitInv
<1> QED BY <1>1, PitInvariant, PTL

\* export-dashboard publishes every point of the stream and no other, and on a
\* sidecar of another store nothing that is false.
THEOREM ExportTheorem == PitSpec => []ExportIsTrue
<1>1. PitInv => ExportIsTrue
  BY InvGivesExport DEF PitInv
<1> QED BY <1>1, PitInvariant, PTL
=============================================================================
