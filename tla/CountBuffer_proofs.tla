-------------------------- MODULE CountBuffer_proofs --------------------------
(***************************************************************************)
(* Theorems about CountBuffer: the order of the list and the sum of its    *)
(* counters, for every length of the list, alphabet and limit.             *)
(***************************************************************************)
EXTENDS CountBuffer, WellFoundedInduction, TLAPS

-------------------------------------------------------------------------------
(* Naturals. *)

\* A set of naturals with 0 and closed under successor is all of Nat.
LEMMA NatSetInduction ==
  ASSUME NEW T \in SUBSET Nat, 0 \in T, \A n \in T : n + 1 \in T
  PROVE  T = Nat
<1> DEFINE R == OpToRel(<, Nat)
<1>0. IsWellFoundedOn(R, Nat)
  BY NatLessThanWellFounded
<1>1. SUFFICES ASSUME Nat \ T # {} PROVE FALSE
  OBVIOUS
<1>2. PICK x \in Nat \ T : \A y \in Nat \ T : ~ (<<y, x>> \in R)
  <2> HIDE DEF R
  <2> QED BY <1>0, <1>1, WFMin
<1>3. \A y \in Nat \ T : ~ (y < x)
  BY <1>2 DEF OpToRel
<1> HIDE DEF R
<1>4. x # 0
  OBVIOUS
<1>5. x - 1 \in Nat /\ x - 1 < x
  BY <1>4
<1>6. x - 1 \in T
  BY <1>3, <1>5
<1>7. (x - 1) + 1 \in T
  BY <1>6
<1> QED BY <1>7

\* The least element of a set of naturals exists, and Min finds it.
LEMMA MinOfNats ==
  ASSUME NEW S \in SUBSET Nat, S # {}
  PROVE  Min(S) \in S /\ \A x \in S : Min(S) <= x
<1> DEFINE R == OpToRel(<, Nat)
<1>1. IsWellFoundedOn(R, Nat)
  BY NatLessThanWellFounded
<1>2. PICK x \in S : \A y \in S : ~ (<<y, x>> \in R)
  <2> HIDE DEF R
  <2> QED BY <1>1, WFMin
<1>3. ASSUME NEW y \in S PROVE x <= y
  <2>1. x \in Nat /\ y \in Nat
    OBVIOUS
  <2>2. (y < x) => <<y, x>> \in R
    BY <2>1 DEF OpToRel
  <2>3. ~ (y < x)
    BY <1>2, <2>2
  <2> QED BY <2>1, <2>3
<1> QED BY <1>3 DEF Min

RecursiveOn(S, base, G, n) ==
  \E f \in [0 .. n -> S] : f[0] = base /\ \A i \in 1 .. n : f[i] = G[i][f[i - 1]]

\* A function defined by recursion on an interval exists.
LEMMA IntervalRecursion ==
  ASSUME NEW S, NEW base \in S, NEW G \in [Nat -> [S -> S]], NEW n \in Nat
  PROVE  RecursiveOn(S, base, G, n)
<1> DEFINE Good(m, f) == f[0] = base /\ \A i \in 1 .. m : f[i] = G[i][f[i - 1]]
           T == {m \in Nat : \E f \in [0 .. m -> S] : Good(m, f)}
<1>1. 0 \in T
  <2>1. [i \in 0 .. 0 |-> base] \in [0 .. 0 -> S] /\ Good(0, [i \in 0 .. 0 |-> base])
    OBVIOUS
  <2> QED BY <2>1
<1>2. ASSUME NEW m \in T PROVE m + 1 \in T
  <2>1. PICK f \in [0 .. m -> S] : Good(m, f)
    OBVIOUS
  <2> DEFINE g == [i \in 0 .. m + 1 |-> IF i <= m THEN f[i] ELSE G[m + 1][f[m]]]
  <2>2. f[m] \in S /\ G[m + 1][f[m]] \in S
    OBVIOUS
  <2>3. g \in [0 .. m + 1 -> S]
    BY <2>2
  <2>4. Good(m + 1, g)
    <3>1. g[0] = base
      BY <2>1
    <3>2. ASSUME NEW i \in 1 .. m + 1 PROVE g[i] = G[i][g[i - 1]]
      <4>1. CASE i <= m
        BY <2>1, <4>1
      <4>2. CASE i = m + 1
        BY <4>2
      <4> QED BY <4>1, <4>2
    <3> QED BY <3>1, <3>2
  <2>5. m + 1 \in Nat
    OBVIOUS
  <2> HIDE DEF Good, g
  <2> QED BY <2>3, <2>4, <2>5
<1>3. T = Nat
  <2> HIDE DEF T
  <2>1. T \in SUBSET Nat
    BY DEF T
  <2> QED BY <1>1, <1>2, <2>1, NatSetInduction
<1> QED BY <1>3 DEF RecursiveOn

-------------------------------------------------------------------------------
(* Sums. *)

\* Sum adds one slot after the other.
LEMMA SumUnfold ==
  ASSUME NEW f \in [Slot -> Nat]
  PROVE  \E upto \in [0 .. SIZE -> Nat] :
           /\ upto[0] = 0 /\ \A n \in 1 .. SIZE : upto[n] = upto[n - 1] + f[n - 1]
           /\ Sum(f) = upto[SIZE]
<1> USE CountAssumption
<1> DEFINE E(u) == [n \in 0 .. SIZE |-> IF n = 0 THEN 0 ELSE u[n - 1] + f[n - 1]]
           G == [n \in Nat |-> [x \in Nat |-> IF n \in 1 .. SIZE THEN x + f[n - 1] ELSE x]]
           upto == CHOOSE u : u = E(u)
<1>1. G \in [Nat -> [Nat -> Nat]]
  <2>1. ASSUME NEW n \in Nat, NEW x \in Nat PROVE (IF n \in 1 .. SIZE THEN x + f[n - 1] ELSE x) \in Nat
    BY DEF Slot
  <2> QED BY <2>1
<1>2. RecursiveOn(Nat, 0, G, SIZE)
  <2> HIDE DEF G
  <2> QED BY <1>1, IntervalRecursion
<1>3. PICK u \in [0 .. SIZE -> Nat] : u[0] = 0 /\ \A n \in 1 .. SIZE : u[n] = G[n][u[n - 1]]
  <2> HIDE DEF G
  <2> QED BY <1>2 DEF RecursiveOn
<1>4. \A n \in 1 .. SIZE : u[n] = u[n - 1] + f[n - 1]
  <2>1. \A n \in 1 .. SIZE : n \in Nat /\ u[n - 1] \in Nat
    OBVIOUS
  <2> QED BY <1>3, <2>1
<1>5. u = E(u)
  <2>1. \A n \in 0 .. SIZE : u[n] = E(u)[n]
    BY <1>3, <1>4
  <2> QED BY <2>1
<1>6. upto = E(upto)
  <2> HIDE DEF E
  <2> QED BY <1>5
<1>7. upto[0] = 0 /\ \A n \in 1 .. SIZE : upto[n] = upto[n - 1] + f[n - 1]
  <2> HIDE DEF upto
  <2>1. \A n \in 0 .. SIZE : upto[n] = E(upto)[n]
    BY <1>6
  <2> QED BY <2>1
<1>8. \A n \in 0 .. SIZE : upto[n] \in Nat
  <2> DEFINE T == {n \in Nat : n <= SIZE => upto[n] \in Nat}
  <2> HIDE DEF upto
  <2>1. 0 \in T
    BY <1>7
  <2>2. ASSUME NEW n \in T PROVE n + 1 \in T
    <3>1. CASE n + 1 <= SIZE
      <4>1. upto[n + 1] = upto[n] + f[n]
        BY <1>7, <3>1
      <4>2. n \in Slot
        BY <3>1 DEF Slot
      <4> QED BY <3>1, <4>1, <4>2
    <3> QED BY <3>1
  <2> HIDE DEF T
  <2>3. T = Nat
    BY <2>1, <2>2, NatSetInduction DEF T
  <2> QED BY <2>3 DEF T
<1>9. upto \in [0 .. SIZE -> Nat]
  <2> HIDE DEF upto
  <2>1. upto = [n \in 0 .. SIZE |-> upto[n]]
    BY <1>6
  <2> QED BY <1>8, <2>1
<1>10. Sum(f) = upto[SIZE]
  BY DEF Sum
<1> HIDE DEF upto
<1> QED BY <1>7, <1>9, <1>10

\* A sum of naturals is one, and none of them is above it.
LEMMA SumBounds ==
  ASSUME NEW f \in [Slot -> Nat]
  PROVE  Sum(f) \in Nat /\ \A j \in Slot : f[j] <= Sum(f)
<1> USE CountAssumption
<1>1. PICK u \in [0 .. SIZE -> Nat] :
        /\ u[0] = 0 /\ \A n \in 1 .. SIZE : u[n] = u[n - 1] + f[n - 1]
        /\ Sum(f) = u[SIZE]
  BY SumUnfold
<1> DEFINE T == {n \in Nat : n <= SIZE => \A j \in 0 .. n - 1 : f[j] <= u[n]}
<1>2. 0 \in T
  OBVIOUS
<1>3. ASSUME NEW n \in T PROVE n + 1 \in T
  <2>1. ASSUME n + 1 <= SIZE, NEW j \in 0 .. n PROVE f[j] <= u[n + 1]
    <3>1. u[n + 1] = u[n] + f[n] /\ u[n] \in Nat /\ n \in Slot /\ j \in Slot
      BY <1>1, <2>1 DEF Slot
    <3>2. j < n => f[j] <= u[n]
      BY <2>1
    <3>3. f[n] \in Nat /\ f[j] \in Nat
      BY <3>1
    <3> QED BY <3>1, <3>2, <3>3
  <2> QED BY <2>1
<1> HIDE DEF T
<1>4. T = Nat
  BY <1>2, <1>3, NatSetInduction DEF T
<1>5. SIZE \in T
  BY <1>4
<1>6. \A j \in 0 .. SIZE - 1 : f[j] <= u[SIZE]
  BY <1>5 DEF T
<1> QED BY <1>1, <1>6 DEF Slot

\* Changing one number changes the sum by as much.
LEMMA SumReplaced ==
  ASSUME NEW f \in [Slot -> Nat], NEW i \in Slot, NEW v \in Nat
  PROVE  Sum([f EXCEPT ![i] = v]) + f[i] = Sum(f) + v
<1> USE CountAssumption
<1> DEFINE g == [f EXCEPT ![i] = v]
<1>g. g \in [Slot -> Nat] /\ g[i] = v /\ \A j \in Slot : j # i => g[j] = f[j]
  OBVIOUS
<1> HIDE DEF g
<1>1. PICK u \in [0 .. SIZE -> Nat] :
        /\ u[0] = 0 /\ \A n \in 1 .. SIZE : u[n] = u[n - 1] + f[n - 1]
        /\ Sum(f) = u[SIZE]
  BY SumUnfold
<1>2. PICK w \in [0 .. SIZE -> Nat] :
        /\ w[0] = 0 /\ \A n \in 1 .. SIZE : w[n] = w[n - 1] + g[n - 1]
        /\ Sum(g) = w[SIZE]
  BY <1>g, SumUnfold
<1> DEFINE T == {n \in Nat : n <= SIZE => IF n <= i THEN w[n] = u[n] ELSE w[n] + f[i] = u[n] + v}
<1>3. 0 \in T
  BY <1>1, <1>2 DEF Slot
<1>4. ASSUME NEW n \in T PROVE n + 1 \in T
  <2>1. CASE n + 1 <= SIZE
    <3>1. u[n + 1] = u[n] + f[n] /\ w[n + 1] = w[n] + g[n]
      BY <1>1, <1>2, <2>1
    <3>2. u[n] \in Nat /\ w[n] \in Nat /\ f[n] \in Nat /\ g[n] \in Nat /\ n \in Slot /\ i \in Nat /\ f[i] \in Nat
      BY <1>g, <2>1 DEF Slot
    <3>3. n # i => g[n] = f[n]
      BY <1>g, <3>2
    <3>4. IF n <= i THEN w[n] = u[n] ELSE w[n] + f[i] = u[n] + v
      BY <2>1
    <3>5. IF n + 1 <= i THEN w[n + 1] = u[n + 1] ELSE w[n + 1] + f[i] = u[n + 1] + v
      <4>1. CASE n = i
        BY <1>g, <3>1, <3>2, <3>4, <4>1
      <4>2. CASE n # i
        <5>1. g[n] = f[n] /\ v \in Nat /\ n \in Nat
          BY <3>3, <4>2
        <5>2. CASE n < i
          <6>1. n <= i /\ n + 1 <= i
            BY <3>2, <5>1, <5>2
          <6> QED BY <3>1, <3>4, <5>1, <6>1
        <5>3. CASE n > i
          <6>1. ~ (n <= i) /\ ~ (n + 1 <= i)
            BY <3>2, <5>1, <5>3
          <6>2. w[n] + f[i] = u[n] + v
            BY <3>4, <6>1
          <6> HIDE DEF T
          <6>3. w[n + 1] = w[n] + f[n] /\ u[n + 1] = u[n] + f[n]
            BY <3>1, <5>1
          <6>4. (w[n] + f[n]) + f[i] = (u[n] + f[n]) + v
            <7>1. w[n] \in Nat /\ f[i] \in Nat /\ u[n] \in Nat /\ v \in Nat /\ f[n] \in Nat
              BY <3>2
            <7> HIDE CountAssumption
            <7> QED BY <6>2, <7>1
          <6>5. w[n + 1] + f[i] = u[n + 1] + v
            BY <6>3, <6>4
          <6> QED BY <6>1, <6>5
        <5> QED BY <3>2, <4>2, <5>1, <5>2, <5>3
      <4> QED BY <4>1, <4>2
    <3> QED BY <3>5
  <2> QED BY <2>1
<1> HIDE DEF T
<1>5. T = Nat
  BY <1>3, <1>4, NatSetInduction DEF T
<1>6. w[SIZE] + f[i] = u[SIZE] + v
  <2>1. SIZE \in T /\ i \in Nat /\ i < SIZE
    BY <1>5 DEF Slot
  <2> QED BY <2>1 DEF T
<1> QED BY <1>1, <1>2, <1>6 DEF g

\* A climb only reorders the numbers.
LEMMA SumMoved ==
  ASSUME NEW f \in [Slot -> Nat], NEW i \in Slot, NEW p \in 0 .. i
  PROVE  Moved(f, i, p) \in [Slot -> Nat] /\ Sum(Moved(f, i, p)) = Sum(f)
<1> USE CountAssumption
<1> DEFINE g == Moved(f, i, p)
<1>g. /\ g \in [Slot -> Nat] /\ g[p] = f[i]
      /\ \A j \in p + 1 .. i : g[j] = f[j - 1]
      /\ \A j \in Slot : j < p \/ j > i => g[j] = f[j]
  <2>1. i \in Nat /\ p \in Nat /\ p \in Slot /\ p + 1 .. i \subseteq Slot /\ \A j \in p + 1 .. i : j - 1 \in Slot
    BY DEF Slot
  <2>2. g \in [Slot -> Nat]
    BY <2>1 DEF Moved
  <2>3. g[p] = f[i]
    BY <2>1 DEF Moved
  <2>4. ASSUME NEW j \in p + 1 .. i PROVE g[j] = f[j - 1]
    <3>1. j \in Slot /\ j # p
      BY <2>1
    <3> QED BY <3>1 DEF Moved
  <2>5. ASSUME NEW j \in Slot, j < p \/ j > i PROVE g[j] = f[j]
    <3>1. j # p /\ j \notin p + 1 .. i
      BY <2>1, <2>5
    <3> QED BY <3>1 DEF Moved
  <2> QED BY <2>2, <2>3, <2>4, <2>5
<1>n. i \in Nat /\ p \in Nat /\ p <= i /\ i < SIZE /\ f[i] \in Nat
  BY DEF Slot
<1> HIDE DEF g
<1>1. PICK u \in [0 .. SIZE -> Nat] :
        /\ u[0] = 0 /\ \A n \in 1 .. SIZE : u[n] = u[n - 1] + f[n - 1]
        /\ Sum(f) = u[SIZE]
  BY SumUnfold
<1>2. PICK w \in [0 .. SIZE -> Nat] :
        /\ w[0] = 0 /\ \A n \in 1 .. SIZE : w[n] = w[n - 1] + g[n - 1]
        /\ Sum(g) = w[SIZE]
  BY <1>g, SumUnfold
<1> DEFINE Right(n) == IF p < n /\ n <= i THEN w[n] = u[n - 1] + f[i] ELSE w[n] = u[n]
           T == {n \in Nat : n <= SIZE => Right(n)}
<1>3. 0 \in T
  BY <1>1, <1>2, <1>n
<1>4. ASSUME NEW n \in T PROVE n + 1 \in T
  <2>1. CASE n + 1 <= SIZE
    <3>1. u[n + 1] = u[n] + f[n] /\ w[n + 1] = w[n] + g[n]
      BY <1>1, <1>2, <2>1
    <3>2. u[n] \in Nat /\ w[n] \in Nat /\ f[n] \in Nat /\ g[n] \in Nat /\ n \in Slot
      BY <1>g, <2>1 DEF Slot
    <3>3. Right(n)
      BY <2>1
    <3>4. Right(n + 1)
      <4>1. CASE n < p \/ n > i
        <5>1. g[n] = f[n] /\ w[n] = u[n]
          BY <1>g, <1>n, <3>2, <3>3, <4>1
        <5> QED BY <1>n, <3>1, <4>1, <5>1
      <4>2. CASE n = p
        <5>1. g[n] = f[i] /\ w[n] = u[n]
          BY <1>g, <1>n, <3>3, <4>2
        <5>2. p < n + 1 /\ (n + 1) - 1 = n
          BY <1>n, <4>2
        <5>3. CASE n = i
          BY <1>n, <3>1, <3>2, <5>1, <5>3
        <5>4. CASE n # i
          BY <1>n, <3>1, <3>2, <4>2, <5>1, <5>2, <5>4
        <5> QED BY <5>3, <5>4
      <4>3. CASE p < n /\ n <= i
        <5>1. g[n] = f[n - 1] /\ w[n] = u[n - 1] + f[i]
          BY <1>g, <1>n, <3>3, <4>3
        <5>2. u[n] = u[n - 1] + f[n - 1] /\ u[n - 1] \in Nat /\ f[n - 1] \in Nat
          <6>1. n \in 1 .. SIZE /\ n - 1 \in Slot /\ n - 1 \in 0 .. SIZE
            BY <1>n, <2>1, <4>3 DEF Slot
          <6> QED BY <1>1, <6>1
        <5>3. w[n + 1] = u[n] + f[i]
          <6> HIDE DEF T, Right
          <6>1. w[n + 1] = (u[n - 1] + f[i]) + f[n - 1]
            BY <3>1, <5>1
          <6> QED BY <1>n, <5>2, <6>1
        <5>4. CASE n = i
          BY <1>n, <3>1, <5>3, <5>4
        <5>5. CASE n # i
          <6>1. (n + 1) - 1 = n /\ p < n + 1 /\ n + 1 <= i
            BY <1>n, <4>3, <5>5
          <6> QED BY <5>3, <6>1
        <5> QED BY <5>4, <5>5
      <4> QED BY <1>n, <4>1, <4>2, <4>3
    <3> HIDE DEF Right
    <3> QED BY <3>4
  <2> QED BY <2>1
<1> HIDE DEF T
<1>5. T = Nat
  BY <1>3, <1>4, NatSetInduction DEF T
<1>6. w[SIZE] = u[SIZE]
  BY <1>5, <1>n DEF T
<1> QED BY <1>g, <1>1, <1>2, <1>6 DEF g

\* Numbers that become no greater, and those above one less, have a smaller sum,
\* but for a sum of zeros and ones.
LEMMA SumFalls ==
  ASSUME NEW f \in [Slot -> Nat], NEW g \in [Slot -> Nat],
         \A j \in Slot : g[j] <= f[j] /\ (f[j] > 1 => g[j] < f[j])
  PROVE  Sum(g) < Sum(f) \/ Sum(g) <= SIZE
<1> USE CountAssumption
<1>1. PICK u \in [0 .. SIZE -> Nat] :
        /\ u[0] = 0 /\ \A n \in 1 .. SIZE : u[n] = u[n - 1] + f[n - 1]
        /\ Sum(f) = u[SIZE]
  BY SumUnfold
<1>2. PICK w \in [0 .. SIZE -> Nat] :
        /\ w[0] = 0 /\ \A n \in 1 .. SIZE : w[n] = w[n - 1] + g[n - 1]
        /\ Sum(g) = w[SIZE]
  BY SumUnfold
<1> DEFINE Right(n) == w[n] < u[n] \/ (w[n] = u[n] /\ w[n] <= n)
           T == {n \in Nat : n <= SIZE => Right(n)}
<1>3. 0 \in T
  BY <1>1, <1>2
<1>4. ASSUME NEW n \in T PROVE n + 1 \in T
  <2>1. CASE n + 1 <= SIZE
    <3>1. u[n + 1] = u[n] + f[n] /\ w[n + 1] = w[n] + g[n]
      BY <1>1, <1>2, <2>1
    <3>2. u[n] \in Nat /\ w[n] \in Nat /\ f[n] \in Nat /\ g[n] \in Nat /\ n \in Slot
      BY <2>1 DEF Slot
    <3>3. Right(n)
      BY <2>1
    <3>4. g[n] <= f[n] /\ (f[n] > 1 => g[n] < f[n])
      BY <3>2
    <3>5. Right(n + 1)
      BY <3>1, <3>2, <3>3, <3>4
    <3> HIDE DEF Right
    <3> QED BY <3>5
  <2> QED BY <2>1
<1> HIDE DEF T
<1>5. T = Nat
  BY <1>3, <1>4, NatSetInduction DEF T
<1>6. w[SIZE] < u[SIZE] \/ (w[SIZE] = u[SIZE] /\ w[SIZE] <= SIZE)
  BY <1>5 DEF T
<1> QED BY <1>1, <1>2, <1>6

-------------------------------------------------------------------------------
(* The logarithm. *)

\* The powers of two.
LEMMA Powers ==
  /\ power \in [0 .. LIMIT + 1 -> Nat] /\ power[0] = 1
  /\ \A l \in 1 .. LIMIT + 1 : power[l] = 2 * power[l - 1]
<1> USE CountAssumption
<1> DEFINE E(f) == [l \in 0 .. LIMIT + 1 |-> IF l = 0 THEN 1 ELSE 2 * f[l - 1]]
           G == [l \in Nat |-> [x \in Nat |-> 2 * x]]
<1>1. G \in [Nat -> [Nat -> Nat]]
  OBVIOUS
<1>2. RecursiveOn(Nat, 1, G, LIMIT + 1)
  <2>1. LIMIT + 1 \in Nat /\ 1 \in Nat
    OBVIOUS
  <2> HIDE DEF G
  <2> QED BY <1>1, <2>1, IntervalRecursion
<1>3. PICK f \in [0 .. LIMIT + 1 -> Nat] : f[0] = 1 /\ \A l \in 1 .. LIMIT + 1 : f[l] = G[l][f[l - 1]]
  <2> HIDE DEF G
  <2> QED BY <1>2 DEF RecursiveOn
<1>4. f = E(f)
  <2>1. \A l \in 1 .. LIMIT + 1 : l \in Nat /\ f[l - 1] \in Nat
    OBVIOUS
  <2>2. \A l \in 1 .. LIMIT + 1 : f[l] = 2 * f[l - 1]
    BY <1>3, <2>1
  <2>3. \A l \in 0 .. LIMIT + 1 : f[l] = E(f)[l]
    BY <1>3, <2>2
  <2> QED BY <2>3
<1>5. power = E(power)
  <2>1. power = CHOOSE g : g = E(g)
    BY DEF power
  <2> HIDE DEF E
  <2> QED BY <1>4, <2>1
<1>6. power[0] = 1 /\ \A l \in 1 .. LIMIT + 1 : power[l] = 2 * power[l - 1]
  <2>1. \A l \in 0 .. LIMIT + 1 : power[l] = E(power)[l]
    BY <1>5
  <2> QED BY <2>1
<1>7. \A l \in 0 .. LIMIT + 1 : power[l] \in Nat
  <2> DEFINE T == {l \in Nat : l <= LIMIT + 1 => power[l] \in Nat}
  <2>1. 0 \in T
    BY <1>6
  <2>2. ASSUME NEW l \in T PROVE l + 1 \in T
    <3>1. CASE l + 1 <= LIMIT + 1
      <4>1. power[l + 1] = 2 * power[l]
        BY <1>6, <3>1
      <4> QED BY <3>1, <4>1
    <3> QED BY <3>1
  <2> HIDE DEF T
  <2>3. T = Nat
    BY <2>1, <2>2, NatSetInduction DEF T
  <2> QED BY <2>3 DEF T
<1>8. power \in [0 .. LIMIT + 1 -> Nat]
  <2>1. power = [l \in 0 .. LIMIT + 1 |-> power[l]]
    BY <1>5
  <2> QED BY <1>7, <2>1
<1> QED BY <1>6, <1>8

\* They grow fast.
LEMMA PowersGrow ==
  ASSUME NEW l \in 0 .. LIMIT + 1
  PROVE  power[l] > l /\ (l > 1 => power[l] > l + 1)
<1> USE CountAssumption
<1> DEFINE Grown(m) == power[m] > m /\ (m > 1 => power[m] > m + 1)
           T == {m \in Nat : m <= LIMIT + 1 => Grown(m)}
<1>1. 0 \in T
  BY Powers
<1>2. ASSUME NEW m \in T PROVE m + 1 \in T
  <2>1. CASE m + 1 <= LIMIT + 1
    <3>1. power[m + 1] = 2 * power[m] /\ power[m] \in Nat
      BY <2>1, Powers
    <3>2. Grown(m)
      BY <2>1
    <3>3. Grown(m + 1)
      BY <3>1, <3>2
    <3> HIDE DEF Grown
    <3> QED BY <3>3
  <2> QED BY <2>1
<1> HIDE DEF T
<1>3. T = Nat
  BY <1>1, <1>2, NatSetInduction DEF T
<1> QED BY <1>3 DEF T

\* A greater power is at least twice a smaller one.
LEMMA PowersDouble ==
  ASSUME NEW l \in 0 .. LIMIT + 1, NEW m \in 0 .. LIMIT + 1, l < m
  PROVE  2 * power[l] <= power[m]
<1> USE CountAssumption
<1> DEFINE T == {k \in Nat : l < k /\ k <= LIMIT + 1 => 2 * power[l] <= power[k]}
<1>1. 0 \in T
  OBVIOUS
<1>2. ASSUME NEW k \in T PROVE k + 1 \in T
  <2>1. CASE l <= k /\ k + 1 <= LIMIT + 1
    <3>1. power[k + 1] = 2 * power[k] /\ power[k] \in Nat /\ power[l] \in Nat
      BY <2>1, Powers
    <3>2. CASE l < k
      <4>1. 2 * power[l] <= power[k]
        BY <2>1, <3>2
      <4>2. 2 * power[l] <= power[k + 1]
        BY <3>1, <4>1
      <4> QED BY <4>2
    <3>3. CASE l = k
      <4>1. 2 * power[l] <= power[k + 1]
        BY <3>1, <3>3
      <4> QED BY <4>1
    <3> QED BY <2>1, <3>2, <3>3
  <2> QED BY <2>1
<1> HIDE DEF T
<1>3. T = Nat
  BY <1>1, <1>2, NatSetInduction DEF T
<1> QED BY <1>3 DEF T

\* The logarithm of a number that a counter can have, or one more.
LEMMA Logarithm ==
  ASSUME NEW c \in 1 .. LIMIT + 1
  PROVE  log2(c) \in 0 .. c - 1 /\ power[log2(c)] <= c /\ c < 2 * power[log2(c)]
<1> USE CountAssumption
<1> DEFINE Is(l, k) == power[l] <= k /\ k < 2 * power[l]
           T == {k \in Nat : k \in 1 .. LIMIT + 1 => \E l \in 0 .. k : Is(l, k)}
<1>1. 0 \in T
  OBVIOUS
<1>2. ASSUME NEW k \in T PROVE k + 1 \in T
  <2>1. CASE k = 0
    <3>1. Is(0, 1)
      BY Powers
    <3> HIDE DEF Is
    <3> QED BY <2>1, <3>1
  <2>2. CASE k > 0 /\ k + 1 <= LIMIT + 1
    <3>1. PICK l \in 0 .. k : Is(l, k)
      BY <2>2
    <3>2. l + 1 \in 1 .. LIMIT + 1 /\ l \in 0 .. LIMIT + 1 /\ l \in 0 .. k + 1 /\ l + 1 \in 0 .. k + 1
      BY <2>2
    <3>3. power[l] \in Nat /\ power[l + 1] = 2 * power[l]
      BY <3>2, Powers
    <3>4. Is(l, k + 1) \/ Is(l + 1, k + 1)
      BY <2>2, <3>1, <3>3
    <3> HIDE DEF Is
    <3>5. \E j \in 0 .. k + 1 : Is(j, k + 1)
      BY <3>2, <3>4
    <3> QED BY <3>5
  <2> QED BY <2>1, <2>2
<1>3. T = Nat
  <2> HIDE DEF T
  <2>1. T \in SUBSET Nat
    BY DEF T
  <2> QED BY <1>1, <1>2, <2>1, NatSetInduction
<1>4. \E l \in 0 .. c : Is(l, c)
  BY <1>3
<1> DEFINE n == log2(c)
<1>5. n \in 0 .. c /\ Is(n, c)
  <2>1. n = CHOOSE l \in 0 .. c : Is(l, c)
    BY DEF log2
  <2> HIDE DEF n, Is
  <2> QED BY <1>4, <2>1
<1>6. power[n] > n /\ power[n] \in Nat
  <2> HIDE DEF n
  <2>1. n \in 0 .. LIMIT + 1
    BY <1>5
  <2> QED BY <2>1, PowersGrow, Powers
<1>7. n \in 0 .. c - 1
  <2> HIDE DEF n
  <2> QED BY <1>5, <1>6
<1> QED BY <1>5, <1>7

\* Scaling makes no counter greater, those above one less, none but zero zero,
\* and keeps their order.
LEMMA ScaledDown ==
  ASSUME NEW c \in 0 .. LIMIT
  PROVE  /\ Scaled(c) \in 0 .. c /\ (c > 1 => Scaled(c) < c) /\ (c > 0 => Scaled(c) > 0)
<1> USE CountAssumption
<1> DEFINE n == Scaled(c)
<1>1. n \in 0 .. c /\ power[n] <= c + 1 /\ c + 1 < 2 * power[n]
  <2>1. c + 1 \in 1 .. LIMIT + 1 /\ (c + 1) - 1 = c
    OBVIOUS
  <2> QED BY <2>1, Logarithm DEF Scaled
<1> HIDE DEF n
<1>2. n \in 0 .. LIMIT + 1
  BY <1>1
<1>3. power[n] \in Nat /\ power[0] = 1 /\ (n > 1 => power[n] > n + 1)
  BY <1>2, Powers, PowersGrow
<1>4. c > 0 => n > 0
  BY <1>1, <1>3
<1>5. c > 1 => n < c
  BY <1>1, <1>3
<1> QED BY <1>1, <1>4, <1>5 DEF n

LEMMA ScaledMonotone ==
  ASSUME NEW b \in 0 .. LIMIT, NEW c \in 0 .. LIMIT, b <= c
  PROVE  Scaled(b) <= Scaled(c)
<1> USE CountAssumption
<1> DEFINE m == Scaled(b)
           n == Scaled(c)
<1>1. m \in 0 .. b /\ power[m] <= b + 1 /\ b + 1 < 2 * power[m]
  <2>1. b + 1 \in 1 .. LIMIT + 1 /\ (b + 1) - 1 = b
    OBVIOUS
  <2> QED BY <2>1, Logarithm DEF Scaled
<1>2. n \in 0 .. c /\ power[n] <= c + 1 /\ c + 1 < 2 * power[n]
  <2>1. c + 1 \in 1 .. LIMIT + 1 /\ (c + 1) - 1 = c
    OBVIOUS
  <2> QED BY <2>1, Logarithm DEF Scaled
<1> HIDE DEF m, n
<1>3. m \in 0 .. LIMIT + 1 /\ n \in 0 .. LIMIT + 1
  BY <1>1, <1>2
<1>4. power[m] \in Nat /\ power[n] \in Nat
  BY <1>3, Powers
<1>5. ASSUME n < m PROVE FALSE
  <2>1. 2 * power[n] <= power[m]
    BY <1>3, <1>5, PowersDouble
  <2> QED BY <1>1, <1>2, <1>4, <2>1
<1>6. m <= n
  BY <1>3, <1>5
<1> QED BY <1>6 DEF m, n

-------------------------------------------------------------------------------
(* The invariant. *)

CountInv ==
  /\ buffer \in [Slot -> Nat] /\ counter \in [Slot -> Nat]
  /\ amount \in Nat /\ symbols \in 0 .. SIZE
  /\ ListOrdered /\ AmountIsSum

Falling(f) == \A i, j \in Slot : i < j => f[i] >= f[j]

LiveFirst(f, live) == \A i \in Slot : i < live <=> f[i] > 0

\* The invariant holds of an empty cell.
LEMMA CountInvInit == Init => CountInv
<1> SUFFICES ASSUME Init PROVE CountInv
  OBVIOUS
<1> USE CountAssumption
<1>1. counter \in [Slot -> Nat] /\ \A j \in Slot : counter[j] = 0
  BY DEF Init
<1>2. Sum(counter) = 0
  <2>1. PICK u \in [0 .. SIZE -> Nat] :
          /\ u[0] = 0 /\ \A n \in 1 .. SIZE : u[n] = u[n - 1] + counter[n - 1]
          /\ Sum(counter) = u[SIZE]
    BY <1>1, SumUnfold
  <2> DEFINE T == {n \in Nat : n <= SIZE => u[n] = 0}
  <2>2. 0 \in T
    BY <2>1
  <2>3. ASSUME NEW n \in T PROVE n + 1 \in T
    <3>1. CASE n + 1 <= SIZE
      <4>1. u[n + 1] = u[n] + counter[n] /\ n \in Slot
        BY <2>1, <3>1 DEF Slot
      <4> QED BY <1>1, <3>1, <4>1
    <3> QED BY <3>1
  <2> HIDE DEF T
  <2>4. T = Nat
    BY <2>2, <2>3, NatSetInduction DEF T
  <2>5. u[SIZE] = 0
    BY <2>4 DEF T
  <2> QED BY <2>1, <2>5
<1>3. AmountIsSum
  BY <1>2 DEF Init, AmountIsSum
<1>4. ListOrdered
  BY <1>1 DEF Init, ListOrdered, Slot
<1> QED BY <1>1, <1>3, <1>4 DEF Init, CountInv

\* Counters after a use, in order and with the right sum, stay so when they are
\* scaled, and the sum comes below the limit.
LEMMA Normalised ==
  ASSUME NEW used \in [Slot -> Nat], NEW sum \in Nat, NEW live \in Nat,
         Sum(used) = sum + 1, sum < LIMIT, Falling(used), LiveFirst(used, live),
         normalize_rank_counter(used, sum)
  PROVE  /\ counter' \in [Slot -> Nat] /\ amount' \in Nat
         /\ Falling(counter') /\ LiveFirst(counter', live)
         /\ amount' = Sum(counter') /\ amount' < LIMIT
<1> USE CountAssumption
<1> DEFINE scaled == [j \in Slot |-> Scaled(used[j])]
<1>1. \A j \in Slot : used[j] \in 0 .. LIMIT
  BY SumBounds
<1>2. /\ scaled \in [Slot -> Nat]
      /\ \A j \in Slot : scaled[j] <= used[j] /\ (used[j] > 1 => scaled[j] < used[j])
      /\ \A j \in Slot : scaled[j] > 0 <=> used[j] > 0
  BY <1>1, ScaledDown
<1>3. Falling(scaled)
  <2> SUFFICES ASSUME NEW i \in Slot, NEW j \in Slot, i < j PROVE scaled[i] >= scaled[j]
    BY DEF Falling
  <2>1. used[j] <= used[i]
    BY <1>1 DEF Falling
  <2>2. Scaled(used[j]) <= Scaled(used[i])
    BY <1>1, <2>1, ScaledMonotone
  <2>3. scaled[i] \in Nat /\ scaled[j] \in Nat
    BY <1>2
  <2> QED BY <2>2, <2>3
<1> HIDE DEF scaled
<1>4. LiveFirst(scaled, live)
  BY <1>2 DEF LiveFirst
<1>5. CASE sum + 1 >= LIMIT
  <2>1. counter' = scaled /\ amount' = Sum(scaled)
    BY <1>5 DEF normalize_rank_counter, scaled
  <2>2. Sum(scaled) < Sum(used) \/ Sum(scaled) <= SIZE
    BY <1>2, SumFalls
  <2>3. Sum(scaled) \in Nat
    BY <1>2, SumBounds
  <2> QED BY <1>2, <1>3, <1>4, <2>1, <2>2, <2>3
<1>6. CASE ~ (sum + 1 >= LIMIT)
  <2>1. counter' = used /\ amount' = sum + 1
    BY <1>6 DEF normalize_rank_counter
  <2> QED BY <1>6, <2>1
<1> QED BY <1>5, <1>6

\* Where a climb ends.
LEMMA Climbs ==
  ASSUME counter \in [Slot -> Nat], NEW i \in Slot, NEW count \in Nat
  PROVE  /\ Climbed(i, count) \in 0 .. i
         /\ \A m \in Climbed(i, count) .. i - 1 : count > counter[m]
         /\ Climbed(i, count) > 0 => counter[Climbed(i, count) - 1] >= count
<1> USE CountAssumption
<1> DEFINE S == {j \in 0 .. i : \A m \in j .. i - 1 : count > counter[m]}
           p == Climbed(i, count)
<1>0. i \in Nat
  BY DEF Slot
<1>1. i \in S
  BY <1>0
<1>2. p \in S /\ \A x \in S : p <= x
  <2>1. p = Min(S)
    BY DEF Climbed
  <2>2. S \in SUBSET Nat
    BY <1>0
  <2> HIDE DEF S, p
  <2> QED BY <1>1, <2>1, <2>2, MinOfNats
<1> HIDE DEF p
<1>3. p \in 0 .. i /\ \A m \in p .. i - 1 : count > counter[m]
  BY <1>2
<1>4. ASSUME p > 0 PROVE counter[p - 1] >= count
  <2>1. p - 1 \in 0 .. i /\ p - 1 \in Slot
    BY <1>0, <1>3, <1>4 DEF Slot
  <2>2. p - 1 \notin S
    <3>1. ~ (p <= p - 1)
      BY <1>3
    <3> QED BY <1>2, <3>1
  <2>3. PICK m \in p - 1 .. i - 1 : ~ (count > counter[m])
    BY <2>1, <2>2
  <2>4. m = p - 1
    <3>1. m \notin p .. i - 1
      BY <1>3, <2>3
    <3> QED BY <1>0, <1>3, <2>3, <3>1
  <2>5. counter[p - 1] \in Nat
    BY <2>1
  <2> QED BY <2>3, <2>4, <2>5
<1> QED BY <1>3, <1>4 DEF p

\* What is where after a climb.
LEMMA MovedAt ==
  ASSUME NEW f, NEW i \in Slot, NEW p \in 0 .. i
  PROVE  /\ Moved(f, i, p)[p] = f[i] /\ p \in Slot
         /\ \A j \in Slot : p < j /\ j <= i => j - 1 \in Slot /\ Moved(f, i, p)[j] = f[j - 1]
         /\ \A j \in Slot : j < p \/ j > i => Moved(f, i, p)[j] = f[j]
<1> USE CountAssumption
<1>1. i \in Nat /\ p \in Nat /\ p \in Slot
  BY DEF Slot
<1>2. Moved(f, i, p)[p] = f[i]
  BY <1>1 DEF Moved
<1>3. ASSUME NEW j \in Slot, p < j, j <= i PROVE j - 1 \in Slot /\ Moved(f, i, p)[j] = f[j - 1]
  <2>1. j # p /\ j \in p + 1 .. i /\ j - 1 \in Slot
    BY <1>1, <1>3 DEF Slot
  <2> QED BY <2>1 DEF Moved
<1>4. ASSUME NEW j \in Slot, j < p \/ j > i PROVE Moved(f, i, p)[j] = f[j]
  <2>1. j # p /\ j \notin p + 1 .. i
    BY <1>1, <1>4 DEF Slot
  <2> QED BY <2>1 DEF Moved
<1> QED BY <1>1, <1>2, <1>3, <1>4

\* A live symbol climbs.
LEMMA ShiftKeeps ==
  ASSUME CountInv, NEW i \in 0 .. symbols - 1, shift(i)
  PROVE  CountInv'
<1> USE CountAssumption
<1> DEFINE p == Climbed(i, counter[i] + 1)
           raised == [counter EXCEPT ![i] = @ + 1]
           used == Moved(raised, i, p)
<1>1. /\ buffer \in [Slot -> Nat] /\ counter \in [Slot -> Nat] /\ amount \in Nat /\ symbols \in 0 .. SIZE
      /\ Falling(counter) /\ LiveFirst(counter, symbols)
      /\ \A j, k \in 0 .. symbols - 1 : buffer[j] = buffer[k] => j = k
      /\ amount = Sum(counter) /\ amount < LIMIT
  BY DEF CountInv, ListOrdered, AmountIsSum, Falling, LiveFirst
<1>2. i \in Slot /\ i \in Nat /\ counter[i] \in Nat
  BY <1>1 DEF Slot
<1>3. /\ p \in 0 .. i /\ \A m \in p .. i - 1 : counter[i] + 1 > counter[m]
      /\ p > 0 => counter[p - 1] >= counter[i] + 1
  BY <1>1, <1>2, Climbs
<1>4. buffer' = Moved(buffer, i, p) /\ normalize_rank_counter(used, amount) /\ symbols' = symbols
  BY DEF shift
<1>5. raised \in [Slot -> Nat] /\ raised[i] = counter[i] + 1 /\ \A j \in Slot : j # i => raised[j] = counter[j]
  BY <1>1, <1>2
<1>6. Sum(raised) = amount + 1
  <2>1. Sum(raised) + counter[i] = Sum(counter) + (counter[i] + 1)
    <3>1. counter[i] + 1 \in Nat
      BY <1>2
    <3> QED BY <1>1, <1>2, <3>1, SumReplaced
  <2>2. Sum(raised) \in Nat
    BY <1>5, SumBounds
  <2> HIDE DEF raised
  <2> QED BY <1>1, <1>2, <2>1, <2>2
<1> HIDE DEF p, raised
<1>7. used \in [Slot -> Nat] /\ Sum(used) = amount + 1
  BY <1>2, <1>3, <1>5, <1>6, SumMoved
<1>8. /\ used[p] = counter[i] + 1 /\ p \in Slot
      /\ \A j \in Slot : p < j /\ j <= i => j - 1 \in Slot /\ used[j] = counter[j - 1]
      /\ \A j \in Slot : j < p \/ j > i => used[j] = counter[j]
  <2>1. /\ used[p] = raised[i] /\ p \in Slot
        /\ \A j \in Slot : p < j /\ j <= i => j - 1 \in Slot /\ used[j] = raised[j - 1]
        /\ \A j \in Slot : j < p \/ j > i => used[j] = raised[j]
    BY <1>2, <1>3, MovedAt
  <2> HIDE DEF used
  <2>2. ASSUME NEW j \in Slot, p < j, j <= i PROVE j - 1 \in Slot /\ used[j] = counter[j - 1]
    <3>1. j - 1 # i /\ j - 1 \in Slot
      BY <1>2, <2>1, <2>2 DEF Slot
    <3> QED BY <1>5, <2>1, <2>2, <3>1
  <2>3. ASSUME NEW j \in Slot, j < p \/ j > i PROVE used[j] = counter[j]
    <3>1. j # i
      BY <1>2, <1>3, <2>3 DEF Slot
    <3> QED BY <1>5, <2>1, <2>3, <3>1
  <2> QED BY <1>5, <2>1, <2>2, <2>3
<1> HIDE DEF used
<1>9. Falling(used)
  <2> SUFFICES ASSUME NEW j \in Slot, NEW k \in Slot, j < k PROVE used[j] >= used[k]
    BY DEF Falling
  <2>1. \A a, b \in Slot : a <= b => counter[a] >= counter[b]
    BY <1>1 DEF Falling, Slot
  <2>2. j \in Nat /\ k \in Nat /\ p \in Nat /\ p <= i /\ \A a \in Slot : counter[a] \in Nat
    BY <1>1, <1>3 DEF Slot
  <2>3. CASE j < p
    <3>1. used[j] = counter[j]
      BY <1>8, <2>3
    <3>2. CASE k < p \/ k > i
      <4>1. used[k] = counter[k] /\ j <= k
        BY <1>8, <2>2, <3>2
      <4> QED BY <2>1, <3>1, <4>1
    <3>3. CASE k = p
      <4>1. p - 1 \in Slot /\ j <= p - 1
        BY <1>8, <2>2, <2>3 DEF Slot
      <4>2. counter[j] >= counter[p - 1] /\ counter[p - 1] >= counter[i] + 1
        BY <1>3, <2>1, <2>2, <2>3, <4>1
      <4>3. counter[j] >= counter[i] + 1
        BY <1>2, <2>2, <4>1, <4>2
      <4> QED BY <1>8, <3>1, <3>3, <4>3
    <3>4. CASE p < k /\ k <= i
      <4>1. used[k] = counter[k - 1] /\ k - 1 \in Slot /\ j <= k - 1
        BY <1>8, <2>2, <2>3, <3>4
      <4> QED BY <2>1, <3>1, <4>1
    <3> QED BY <1>2, <2>2, <3>2, <3>3, <3>4
  <2>4. CASE j = p
    <3>1. used[j] = counter[i] + 1
      BY <1>8, <2>4
    <3>2. CASE p < k /\ k <= i
      <4>1. used[k] = counter[k - 1] /\ k - 1 \in Slot /\ k - 1 \in p .. i - 1
        BY <1>2, <1>8, <2>2, <3>2
      <4>2. counter[i] + 1 > counter[k - 1]
        BY <1>3, <4>1
      <4> QED BY <1>2, <2>2, <3>1, <4>1, <4>2
    <3>3. CASE k > i
      <4>1. used[k] = counter[k] /\ counter[i] >= counter[k]
        BY <1>2, <1>8, <2>1, <2>2, <3>3
      <4> QED BY <1>2, <2>2, <3>1, <4>1
    <3> QED BY <1>2, <2>2, <2>4, <3>2, <3>3
  <2>5. CASE p < j /\ j <= i
    <3>1. used[j] = counter[j - 1] /\ j - 1 \in Slot
      BY <1>8, <2>5
    <3>2. CASE k <= i
      <4>1. used[k] = counter[k - 1] /\ k - 1 \in Slot /\ j - 1 <= k - 1
        BY <1>8, <2>2, <2>5, <3>2
      <4> QED BY <2>1, <3>1, <4>1
    <3>3. CASE k > i
      <4>1. used[k] = counter[k] /\ j - 1 <= k
        BY <1>8, <2>2, <3>3
      <4> QED BY <2>1, <3>1, <4>1
    <3> QED BY <1>2, <2>2, <3>2, <3>3
  <2>6. CASE j > i
    <3>1. used[j] = counter[j] /\ used[k] = counter[k]
      BY <1>2, <1>8, <2>2, <2>6
    <3> QED BY <2>1, <2>2, <3>1
  <2> QED BY <1>2, <2>2, <2>3, <2>4, <2>5, <2>6
<1>10. LiveFirst(used, symbols)
  <2> SUFFICES ASSUME NEW j \in Slot PROVE j < symbols <=> used[j] > 0
    BY DEF LiveFirst
  <2>1. j \in Nat /\ p \in Nat /\ p <= i /\ i < symbols /\ \A a \in Slot : counter[a] \in Nat
    BY <1>1, <1>2, <1>3 DEF Slot
  <2>2. CASE j < p \/ j > i
    BY <1>1, <1>8, <2>2 DEF LiveFirst
  <2>3. CASE j = p
    BY <1>1, <1>2, <1>8, <2>1, <2>3
  <2>4. CASE p < j /\ j <= i
    <3>1. used[j] = counter[j - 1] /\ j - 1 \in Slot /\ j < symbols /\ j - 1 < symbols
      BY <1>1, <1>2, <1>8, <2>1, <2>4
    <3> QED BY <1>1, <3>1 DEF LiveFirst
  <2> QED BY <1>2, <2>1, <2>2, <2>3, <2>4
<1>11. /\ counter' \in [Slot -> Nat] /\ amount' \in Nat
       /\ Falling(counter') /\ LiveFirst(counter', symbols)
       /\ amount' = Sum(counter') /\ amount' < LIMIT
  <2>1. symbols \in Nat
    BY <1>1
  <2> QED BY <1>1, <1>4, <1>7, <1>9, <1>10, <2>1, Normalised
<1>12. buffer' \in [Slot -> Nat]
  BY <1>1, <1>2, <1>3, <1>4, SumMoved
<1>13. \A j, k \in 0 .. symbols - 1 : buffer'[j] = buffer'[k] => j = k
  <2>1. /\ buffer'[p] = buffer[i] /\ p \in Slot
        /\ \A j \in Slot : p < j /\ j <= i => j - 1 \in Slot /\ buffer'[j] = buffer[j - 1]
        /\ \A j \in Slot : j < p \/ j > i => buffer'[j] = buffer[j]
    BY <1>2, <1>3, <1>4, MovedAt
  <2> DEFINE From(j) == IF j = p THEN i ELSE IF p < j /\ j <= i THEN j - 1 ELSE j
  <2>2. ASSUME NEW j \in 0 .. symbols - 1 PROVE From(j) \in 0 .. symbols - 1 /\ buffer'[j] = buffer[From(j)]
    <3>1. j \in Slot /\ j \in Nat /\ p \in Nat /\ p <= i /\ i < symbols
      BY <1>1, <1>2, <1>3 DEF Slot
    <3>2. CASE j = p
      BY <1>2, <2>1, <3>2
    <3>3. CASE p < j /\ j <= i
      <4>1. j - 1 \in 0 .. symbols - 1 /\ j # p
        <5>1. symbols \in Nat /\ j < symbols /\ j >= 1
          BY <1>1, <3>1, <3>3
        <5> QED BY <3>1, <3>3, <5>1
      <4> QED BY <2>1, <3>1, <3>3, <4>1
    <3>4. CASE j < p \/ j > i
      <4>1. From(j) = j
        BY <1>2, <3>1, <3>4
      <4> QED BY <2>1, <3>1, <3>4, <4>1
    <3> QED BY <1>2, <3>1, <3>2, <3>3, <3>4
  <2>3. \A j, k \in 0 .. symbols - 1 : From(j) = From(k) => j = k
    BY <1>2, <1>3
  <2> HIDE DEF From
  <2> QED BY <1>1, <2>2, <2>3
<1> QED BY <1>1, <1>4, <1>11, <1>12, <1>13 DEF CountInv, ListOrdered, AmountIsSum, Falling, LiveFirst

\* A new symbol takes the first dead slot, or the last one.
LEMMA AppendKeeps ==
  ASSUME CountInv, NEW c \in Nat, Holding(c) = {}, append(c)
  PROVE  CountInv'
<1> USE CountAssumption
<1> DEFINE i == IF symbols < SIZE THEN FreeSlot ELSE SIZE - 1
           used == [counter EXCEPT ![i] = 1]
<1>1. /\ buffer \in [Slot -> Nat] /\ counter \in [Slot -> Nat] /\ amount \in Nat /\ symbols \in 0 .. SIZE
      /\ Falling(counter) /\ LiveFirst(counter, symbols)
      /\ \A j, k \in 0 .. symbols - 1 : buffer[j] = buffer[k] => j = k
      /\ amount = Sum(counter) /\ amount < LIMIT
  BY DEF CountInv, ListOrdered, AmountIsSum, Falling, LiveFirst
<1>2. i \in Slot /\ i <= symbols /\ symbols <= i + 1 /\ symbols' = i + 1
  <2>1. CASE symbols < SIZE
    <3> DEFINE S == {j \in Slot : counter[j] < 1} \cup {SIZE - 1}
    <3>1. symbols \in Slot /\ symbols \in Nat
      BY <1>1, <2>1 DEF Slot
    <3>2. symbols \in S
      <4>1. ~ (symbols < symbols) /\ counter[symbols] \in Nat
        BY <1>1, <3>1
      <4>2. counter[symbols] < 1
        BY <1>1, <3>1, <4>1 DEF LiveFirst
      <4> QED BY <3>1, <4>2
    <3>3. ASSUME NEW j \in S PROVE symbols <= j
      <4>1. CASE j = SIZE - 1
        BY <1>1, <2>1, <4>1
      <4>2. CASE j \in Slot /\ counter[j] < 1
        <5>1. ~ (j < symbols)
          BY <1>1, <4>2 DEF LiveFirst
        <5> QED BY <3>1, <4>2, <5>1 DEF Slot
      <4> QED BY <4>1, <4>2
    <3>4. S \in SUBSET Nat
      BY DEF Slot
    <3>5. FreeSlot = Min(S)
      BY DEF FreeSlot
    <3> HIDE DEF S
    <3>6. Min(S) \in S /\ \A x \in S : Min(S) <= x
      BY <3>2, <3>4, MinOfNats
    <3>7. Min(S) \in Nat /\ Min(S) <= symbols /\ symbols <= Min(S)
      BY <3>2, <3>3, <3>4, <3>6
    <3>8. i = symbols
      BY <2>1, <3>1, <3>5, <3>7
    <3>9. symbols' = symbols + 1
      BY <2>1 DEF append
    <3> HIDE DEF i
    <3> QED BY <3>1, <3>8, <3>9
  <2>2. CASE ~ (symbols < SIZE)
    <3>1. symbols = SIZE /\ i = SIZE - 1 /\ symbols' = symbols
      BY <1>1, <2>2 DEF append
    <3> HIDE DEF i
    <3> QED BY <3>1 DEF Slot
  <2> QED BY <2>1, <2>2
<1>3. buffer' = [buffer EXCEPT ![i] = c] /\ normalize_rank_counter(used, amount - counter[i])
  BY DEF append
<1> HIDE DEF i
<1>4. used \in [Slot -> Nat] /\ used[i] = 1 /\ \A j \in Slot : j # i => used[j] = counter[j]
  BY <1>1, <1>2
<1>5. Sum(used) + counter[i] = amount + 1
  BY <1>1, <1>2, SumReplaced
<1> HIDE DEF used
<1>6. /\ amount - counter[i] \in Nat /\ amount - counter[i] < LIMIT
      /\ Sum(used) = (amount - counter[i]) + 1
  <2>1. counter[i] \in Nat /\ counter[i] <= amount
    BY <1>1, <1>2, SumBounds
  <2>2. Sum(used) \in Nat
    BY <1>4, SumBounds
  <2> QED BY <1>1, <1>5, <2>1, <2>2
<1>7. i \in Nat /\ symbols \in Nat /\ \A j \in Slot : j \in Nat /\ counter[j] \in Nat
  BY <1>1, <1>2 DEF Slot
<1>8. \A j \in Slot : (j < i => counter[j] > 0) /\ (j > i => counter[j] = 0)
  <2> SUFFICES ASSUME NEW j \in Slot PROVE (j < i => counter[j] > 0) /\ (j > i => counter[j] = 0)
    OBVIOUS
  <2>1. j < symbols <=> counter[j] > 0
    BY <1>1 DEF LiveFirst
  <2> QED BY <1>2, <1>7, <2>1
<1>9. Falling(used)
  <2> SUFFICES ASSUME NEW j \in Slot, NEW k \in Slot, j < k PROVE used[j] >= used[k]
    BY DEF Falling
  <2>1. CASE k = i
    BY <1>4, <1>7, <1>8, <2>1
  <2>2. CASE j = i
    BY <1>4, <1>7, <1>8, <2>2
  <2>3. CASE j # i /\ k # i
    BY <1>1, <1>4, <2>3 DEF Falling
  <2> QED BY <2>1, <2>2, <2>3
<1>10. LiveFirst(used, i + 1)
  <2> SUFFICES ASSUME NEW j \in Slot PROVE j < i + 1 <=> used[j] > 0
    BY DEF LiveFirst
  <2>1. CASE j = i
    BY <1>4, <1>7, <2>1
  <2>2. CASE j # i
    <3>1. used[j] = counter[j]
      BY <1>4, <2>2
    <3> QED BY <1>7, <1>8, <2>2, <3>1
  <2> QED BY <2>1, <2>2
<1>11. /\ counter' \in [Slot -> Nat] /\ amount' \in Nat
       /\ Falling(counter') /\ LiveFirst(counter', i + 1)
       /\ amount' = Sum(counter') /\ amount' < LIMIT
  <2>1. i + 1 \in Nat
    BY <1>7
  <2> QED BY <1>3, <1>4, <1>6, <1>9, <1>10, <2>1, Normalised
<1>12. buffer' \in [Slot -> Nat]
  BY <1>1, <1>2, <1>3
<1>13. \A j, k \in 0 .. symbols' - 1 : buffer'[j] = buffer'[k] => j = k
  <2> SUFFICES ASSUME NEW j \in 0 .. i, NEW k \in 0 .. i, buffer'[j] = buffer'[k] PROVE j = k
    BY <1>2, <1>7
  <2>1. buffer'[i] = c /\ \A m \in Slot : m # i => buffer'[m] = buffer[m]
    BY <1>1, <1>2, <1>3
  <2>2. \A m \in 0 .. i : m # i => m \in 0 .. symbols - 1 /\ m \in Slot
    BY <1>2, <1>7 DEF Slot
  <2>3. \A m \in 0 .. symbols - 1 : buffer[m] # c
    BY DEF Holding
  <2>4. CASE j = i
    BY <2>1, <2>2, <2>3, <2>4
  <2>5. CASE k = i
    BY <2>1, <2>2, <2>3, <2>5
  <2>6. CASE j # i /\ k # i
    BY <1>1, <2>1, <2>2, <2>6
  <2> QED BY <2>4, <2>5, <2>6
<1>14. symbols' \in 0 .. SIZE /\ LiveFirst(counter', symbols')
  BY <1>2, <1>11 DEF Slot
<1> QED BY <1>11, <1>12, <1>13, <1>14 DEF CountInv, ListOrdered, AmountIsSum, Falling, LiveFirst

\* Encoding a symbol keeps the invariant.
LEMMA CountInvStep == CountInv /\ [Next]_vars => CountInv'
<1> SUFFICES ASSUME CountInv, [Next]_vars PROVE CountInv'
  OBVIOUS
<1>1. ASSUME NEW c \in Symbol, buffer_encode(c) PROVE CountInv'
  <2>1. c \in Nat
    BY CountAssumption DEF Symbol
  <2>2. CASE Holding(c) # {} /\ shift(Min(Holding(c)))
    <3>1. Holding(c) \in SUBSET Nat /\ Holding(c) \subseteq 0 .. symbols - 1
      BY DEF Holding
    <3>2. Min(Holding(c)) \in 0 .. symbols - 1
      BY <2>2, <3>1, MinOfNats
    <3> QED BY <2>2, <3>2, ShiftKeeps
  <2>3. CASE Holding(c) = {} /\ append(c)
    BY <2>1, <2>3, AppendKeeps
  <2> QED BY <1>1, <2>2, <2>3 DEF buffer_encode
<1>2. CASE UNCHANGED vars
  BY <1>2 DEF vars, CountInv, ListOrdered, AmountIsSum
<1> QED BY <1>1, <1>2 DEF Next

\* The invariant holds always.
LEMMA CountInvAlways == Spec => []CountInv
BY CountInvInit, CountInvStep, PTL DEF Spec

\* The list of a cell is in the order of its counters, its live slots are the
\* first ones and hold no symbol twice, through climbs, evictions and scalings.
THEOREM ListOrderedCorrect == Spec => []ListOrdered
<1>1. CountInv => ListOrdered
  BY DEF CountInv
<1> QED BY <1>1, CountInvAlways, PTL

\* amount is the sum of the counters and below the limit, so neither it nor a
\* counter leaves its 16 bits.
THEOREM AmountIsSumCorrect == Spec => []AmountIsSum
<1>1. CountInv => AmountIsSum
  BY DEF CountInv
<1> QED BY <1>1, CountInvAlways, PTL
===============================================================================
