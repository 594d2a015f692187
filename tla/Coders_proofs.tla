----------------------------- MODULE Coders_proofs -----------------------------
(***************************************************************************)
(* Theorems about the gamma coder and the arithmetic encoder beside it,    *)
(* for every alphabet, input, width of the registers, and size of bytes    *)
(* and buffer.                                                             *)
(***************************************************************************)
EXTENDS Coders, SequenceTheorems, WellFoundedInduction, TLAPS

-------------------------------------------------------------------------------
(* Naturals. *)

\* A set of naturals with 0 and closed under successor is all of Nat.
LEMMA NatSetInduction ==
  ASSUME NEW T \in SUBSET Nat, 0 \in T, \A n \in T : n + 1 \in T
  PROVE  T = Nat
<1> DEFINE R == OpToRel(<, Nat)
<1>0. IsWellFoundedOn(R, Nat)
  BY NatLessThanWellFounded
<1>1. SUFFICES ASSUME Nat \ T # {} PROVE FALSE
  OBVIOUS
<1>2. PICK x \in Nat \ T : \A y \in Nat \ T : ~ (<<y, x>> \in R)
  <2> HIDE DEF R
  <2> QED BY <1>0, <1>1, WFMin
<1>3. \A y \in Nat \ T : ~ (y < x)
  BY <1>2 DEF OpToRel
<1> HIDE DEF R
<1>4. x # 0
  OBVIOUS
<1>5. x - 1 \in Nat /\ x - 1 < x
  BY <1>4
<1>6. x - 1 \in T
  BY <1>3, <1>5
<1>7. (x - 1) + 1 \in T
  BY <1>6
<1> QED BY <1>7

\* The least element of a set of naturals exists, and Min finds it.
LEMMA MinOfNats ==
  ASSUME NEW S \in SUBSET Nat, S # {}
  PROVE  Min(S) \in S /\ \A x \in S : Min(S) <= x
<1> DEFINE R == OpToRel(<, Nat)
<1>1. IsWellFoundedOn(R, Nat)
  BY NatLessThanWellFounded
<1>2. PICK x \in S : \A y \in S : ~ (<<y, x>> \in R)
  <2> HIDE DEF R
  <2> QED BY <1>1, WFMin
<1>3. ASSUME NEW y \in S PROVE x <= y
  <2>1. x \in Nat /\ y \in Nat
    OBVIOUS
  <2>2. (y < x) => <<y, x>> \in R
    BY <2>1 DEF OpToRel
  <2>3. ~ (y < x)
    BY <1>2, <2>2
  <2> QED BY <2>1, <2>3
<1> QED BY <1>3 DEF Min

RecursiveOn(S, base, G, n) ==
  \E f \in [0 .. n -> S] : f[0] = base /\ \A i \in 1 .. n : f[i] = G[i][f[i - 1]]

\* A function defined by recursion on an interval exists.
LEMMA IntervalRecursion ==
  ASSUME NEW S, NEW base \in S, NEW G \in [Nat -> [S -> S]], NEW n \in Nat
  PROVE  RecursiveOn(S, base, G, n)
<1> DEFINE Good(m, f) == f[0] = base /\ \A i \in 1 .. m : f[i] = G[i][f[i - 1]]
           T == {m \in Nat : \E f \in [0 .. m -> S] : Good(m, f)}
<1>1. 0 \in T
  <2>1. [i \in 0 .. 0 |-> base] \in [0 .. 0 -> S] /\ Good(0, [i \in 0 .. 0 |-> base])
    OBVIOUS
  <2> QED BY <2>1
<1>2. ASSUME NEW m \in T PROVE m + 1 \in T
  <2>1. PICK f \in [0 .. m -> S] : Good(m, f)
    OBVIOUS
  <2> DEFINE g == [i \in 0 .. m + 1 |-> IF i <= m THEN f[i] ELSE G[m + 1][f[m]]]
  <2>2. f[m] \in S /\ G[m + 1][f[m]] \in S
    OBVIOUS
  <2>3. g \in [0 .. m + 1 -> S]
    BY <2>2
  <2>4. Good(m + 1, g)
    <3>1. g[0] = base
      BY <2>1
    <3>2. ASSUME NEW i \in 1 .. m + 1 PROVE g[i] = G[i][g[i - 1]]
      <4>1. CASE i <= m
        BY <2>1, <4>1
      <4>2. CASE i = m + 1
        BY <4>2
      <4> QED BY <4>1, <4>2
    <3> QED BY <3>1, <3>2
  <2>5. m + 1 \in Nat
    OBVIOUS
  <2> HIDE DEF Good, g
  <2> QED BY <2>3, <2>4, <2>5
<1>3. T = Nat
  <2> HIDE DEF T
  <2>1. T \in SUBSET Nat
    BY DEF T
  <2> QED BY <1>1, <1>2, <2>1, NatSetInduction
<1> QED BY <1>3 DEF RecursiveOn

-------------------------------------------------------------------------------
(* Gamma codes. *)

Digits == {0, 1}

\* Shifting by one more place is halving.
LEMMA ShiftedIs ==
  ASSUME NEW x \in Nat
  PROVE  /\ \A i \in 0 .. symbols_amount : Shifted(x, i) \in Nat
         /\ Shifted(x, 0) = x
         /\ \A i \in 1 .. symbols_amount : Shifted(x, i) = Shifted(x, i - 1) \div 2
<1> USE GammaAssumption
<1> DEFINE E(f) == [j \in 0 .. symbols_amount |-> IF j = 0 THEN x ELSE f[j - 1] \div 2]
           G == [k \in Nat |-> [v \in Nat |-> v \div 2]]
           c == CHOOSE f : f = E(f)
<1>1. G \in [Nat -> [Nat -> Nat]] /\ \A v \in Nat : v \div 2 \in Nat
  <2>1. \A v \in Nat : v \div 2 \in Nat
    OBVIOUS
  <2> QED BY <2>1
<1>2. RecursiveOn(Nat, x, G, symbols_amount)
  <2>1. symbols_amount \in Nat
    OBVIOUS
  <2> HIDE DEF G
  <2> QED BY <1>1, <2>1, IntervalRecursion
<1>3. PICK f \in [0 .. symbols_amount -> Nat] :
        f[0] = x /\ \A i \in 1 .. symbols_amount : f[i] = G[i][f[i - 1]]
  <2> HIDE DEF G
  <2> QED BY <1>2 DEF RecursiveOn
<1>4. f = E(f)
  <2>1. \A i \in 1 .. symbols_amount : i \in Nat /\ f[i - 1] \in Nat
    OBVIOUS
  <2>2. \A i \in 1 .. symbols_amount : f[i] = f[i - 1] \div 2
    BY <1>3, <2>1
  <2>3. \A i \in 0 .. symbols_amount : f[i] = E(f)[i]
    BY <1>3, <2>2
  <2> QED BY <2>3
<1>5. c = E(c)
  <2> HIDE DEF E
  <2> QED BY <1>4
<1>6. \A i : Shifted(x, i) = c[i]
  BY DEF Shifted
<1> HIDE DEF c, G
<1>7. c[0] = x /\ \A i \in 1 .. symbols_amount : c[i] = c[i - 1] \div 2
  <2>1. \A i \in 0 .. symbols_amount : c[i] = E(c)[i]
    BY <1>5
  <2> QED BY <2>1
<1>8. \A i \in 0 .. symbols_amount : c[i] \in Nat
  <2> DEFINE T == {i \in Nat : i <= symbols_amount => c[i] \in Nat}
  <2>1. 0 \in T
    BY <1>7
  <2>2. ASSUME NEW i \in T PROVE i + 1 \in T
    <3>1. CASE i + 1 <= symbols_amount
      <4>1. i + 1 \in 1 .. symbols_amount /\ (i + 1) - 1 = i /\ c[i] \in Nat
        BY <3>1
      <4>2. c[i + 1] = c[i] \div 2
        BY <1>7, <4>1
      <4>3. c[i] \div 2 \in Nat
        <5> HIDE DEF T
        <5> QED BY <1>1, <4>1
      <4>4. c[i + 1] \in Nat
        BY <4>2, <4>3
      <4> QED BY <4>4
    <3> QED BY <3>1
  <2> HIDE DEF T
  <2>3. T = Nat
    BY <2>1, <2>2, NatSetInduction DEF T
  <2> QED BY <2>3 DEF T
<1> QED BY <1>6, <1>7, <1>8

\* A number from one to the size of the alphabet has a first one.
LEMMA FirstOne ==
  ASSUME NEW x \in 1 .. symbols_amount
  PROVE  fast_log2(x) \in 0 .. symbols_amount /\ Shifted(x, fast_log2(x)) = 1
<1> USE GammaAssumption
<1> DEFINE Found == \E l \in 0 .. x : Shifted(x, l) = 1
           T == {k \in Nat : k <= x => Found \/ (Shifted(x, k) >= 2 /\ Shifted(x, k) <= x - k)}
<1>1. /\ \A i \in 0 .. x : Shifted(x, i) \in Nat
      /\ Shifted(x, 0) = x
      /\ \A i \in 1 .. x : Shifted(x, i) = Shifted(x, i - 1) \div 2
  BY ShiftedIs
<1>2. 0 \in T
  <2>1. CASE x = 1
    <3>1. Found
      BY <1>1, <2>1
    <3> HIDE DEF Found
    <3> QED BY <3>1
  <2>2. CASE x # 1
    <3>1. Shifted(x, 0) >= 2 /\ Shifted(x, 0) <= x - 0
      BY <1>1, <2>2
    <3> HIDE DEF Found
    <3> QED BY <3>1
  <2> QED BY <2>1, <2>2
<1>3. ASSUME NEW k \in T PROVE k + 1 \in T
  <2>1. SUFFICES ASSUME k + 1 <= x, ~ Found PROVE Shifted(x, k + 1) >= 2 /\ Shifted(x, k + 1) <= x - (k + 1)
    OBVIOUS
  <2>2. k \in Nat /\ k <= x /\ k \in 0 .. x /\ k + 1 \in 1 .. x /\ (k + 1) - 1 = k
    BY <2>1
  <2>3. Shifted(x, k) >= 2 /\ Shifted(x, k) <= x - k
    <3> HIDE DEF Found
    <3> QED BY <2>1, <2>2
  <2>4. Shifted(x, k + 1) # 1
    BY <2>1, <2>2
  <2>5. Shifted(x, k + 1) = Shifted(x, k) \div 2 /\ Shifted(x, k) \in Nat /\ Shifted(x, k + 1) \in Nat
    <3>1. k + 1 \in 0 .. x
      BY <2>2
    <3> QED BY <1>1, <2>2, <3>1
  <2>6. \A v \in Nat : v >= 2 => (v \div 2 >= 1 /\ v \div 2 <= v - 1)
    OBVIOUS
  <2>7. Shifted(x, k + 1) >= 1 /\ Shifted(x, k + 1) <= Shifted(x, k) - 1
    BY <2>3, <2>5, <2>6
  <2> HIDE DEF T
  <2> QED BY <2>2, <2>3, <2>4, <2>5, <2>7
<1>4. T = Nat
  <2>1. T \in SUBSET Nat
    OBVIOUS
  <2> HIDE DEF T
  <2> QED BY <1>2, <1>3, <2>1, NatSetInduction
<1>5. Found
  <2>1. (Shifted(x, x) >= 2 /\ Shifted(x, x) <= x - x) \/ Found
    <3> HIDE DEF Found
    <3> QED BY <1>4
  <2>2. Shifted(x, x) \in Nat /\ x - x = 0
    BY <1>1
  <2> HIDE DEF Found
  <2> QED BY <2>1, <2>2
<1> QED BY <1>5 DEF fast_log2

\* The code of a number, digit by digit.
LEMMA CodeIs ==
  ASSUME NEW x \in 1 .. symbols_amount
  PROVE  /\ elias_gamma_encode(x) \in Seq(Digits)
         /\ Len(elias_gamma_encode(x)) = 2 * fast_log2(x) + 1
         /\ \A k \in 1 .. fast_log2(x) : elias_gamma_encode(x)[k] = 0
         /\ elias_gamma_encode(x)[fast_log2(x) + 1] = 1
         /\ \A k \in 1 .. fast_log2(x) :
              elias_gamma_encode(x)[fast_log2(x) + 1 + k] = Shifted(x, fast_log2(x) - k) % 2
<1> USE GammaAssumption
<1> DEFINE n == fast_log2(x)
           code == elias_gamma_encode(x)
<1>1. n \in 0 .. symbols_amount /\ Shifted(x, n) = 1
  BY FirstOne
<1>2. code = [k \in 1 .. 2 * n + 1 |-> IF k <= n THEN 0 ELSE Shifted(x, 2 * n + 1 - k) % 2]
  BY DEF elias_gamma_encode
<1> HIDE DEF n, code
<1>3. \A v \in Nat : v % 2 \in Digits
  BY DEF Digits
<1>4. ASSUME NEW k \in 1 .. 2 * n + 1 PROVE (IF k <= n THEN 0 ELSE Shifted(x, 2 * n + 1 - k) % 2) \in Digits
  <2>1. CASE k <= n
    BY <2>1 DEF Digits
  <2>2. CASE ~ (k <= n)
    <3>1. 2 * n + 1 - k \in 0 .. symbols_amount /\ x \in Nat
      BY <1>1, <2>2
    <3>2. Shifted(x, 2 * n + 1 - k) \in Nat
      BY <3>1, ShiftedIs
    <3> QED BY <1>3, <2>2, <3>2
  <2> QED BY <2>1, <2>2
<1>5. code \in [1 .. 2 * n + 1 -> Digits]
  BY <1>2, <1>4
<1>6. code \in Seq(Digits) /\ Len(code) = 2 * n + 1
  <2>1. 2 * n + 1 \in Nat
    BY <1>1
  <2> QED BY <1>5, <2>1
<1>7. \A k \in 1 .. n : code[k] = 0
  BY <1>1, <1>2
<1>8. code[n + 1] = 1
  <2>1. n + 1 \in 1 .. 2 * n + 1 /\ ~ (n + 1 <= n) /\ 2 * n + 1 - (n + 1) = n
    BY <1>1
  <2>2. code[n + 1] = Shifted(x, n) % 2
    BY <1>2, <2>1
  <2> QED BY <1>1, <2>2
<1>9. ASSUME NEW k \in 1 .. n PROVE code[n + 1 + k] = Shifted(x, n - k) % 2
  <2>1. n + 1 + k \in 1 .. 2 * n + 1 /\ ~ (n + 1 + k <= n) /\ 2 * n + 1 - (n + 1 + k) = n - k
    BY <1>1
  <2> QED BY <1>2, <2>1
<1> QED BY <1>6, <1>7, <1>8, <1>9 DEF n, code

\* Where the code of a number stands in the archive, it is what is read there.
LEMMA CodeRead ==
  ASSUME bits \in Seq(Digits), pos \in Nat, NEW x \in 1 .. symbols_amount,
         pos + Len(elias_gamma_encode(x)) <= Len(bits),
         \A j \in 1 .. Len(elias_gamma_encode(x)) : bits[pos + j] = elias_gamma_encode(x)[j]
  PROVE  elias_gamma_decode = [symbol |-> x, used |-> Len(elias_gamma_encode(x))]
<1> USE GammaAssumption
<1> DEFINE n == fast_log2(x)
           code == elias_gamma_encode(x)
<1>1. n \in 0 .. symbols_amount /\ Shifted(x, n) = 1 /\ n \in Nat
  BY FirstOne
<1>2. /\ code \in Seq(Digits) /\ Len(code) = 2 * n + 1 /\ code[n + 1] = 1
      /\ \A k \in 1 .. n : code[k] = 0
      /\ \A k \in 1 .. n : code[n + 1 + k] = Shifted(x, n - k) % 2
  BY CodeIs
<1>3. Len(bits) \in Nat /\ pos + (2 * n + 1) <= Len(bits) /\ \A j \in 1 .. 2 * n + 1 : bits[pos + j] = code[j]
  BY <1>2
<1> HIDE DEF n, code
<1>4. ASSUME NEW j \in 0 .. 2 * n PROVE Bit(pos + j) = code[j + 1]
  <2>1. pos + j < Len(bits) /\ j + 1 \in 1 .. 2 * n + 1 /\ (pos + j) + 1 = pos + (j + 1)
    BY <1>1, <1>3
  <2> QED BY <1>3, <2>1 DEF Bit
<1>5. Zeros = n
  <2> DEFINE S == {m \in 0 .. Len(bits) : Bit(pos + m) # 0}
  <2>1. n \in S
    <3>1. n \in 0 .. 2 * n /\ n \in 0 .. Len(bits)
      BY <1>1, <1>3
    <3>2. Bit(pos + n) = 1
      BY <1>2, <1>4, <3>1
    <3> QED BY <3>1, <3>2
  <2>2. ASSUME NEW m \in S PROVE n <= m
    <3>1. SUFFICES ASSUME m < n PROVE FALSE
      BY <1>1
    <3>2. m \in 0 .. 2 * n /\ m + 1 \in 1 .. n
      BY <1>1, <3>1
    <3>3. Bit(pos + m) = 0
      BY <1>2, <1>4, <3>2
    <3> QED BY <3>3
  <2>3. S \in SUBSET Nat
    BY <1>3
  <2>4. Zeros = Min(S)
    BY DEF Zeros
  <2> HIDE DEF S
  <2>5. Min(S) \in S /\ \A m \in S : Min(S) <= m
    BY <2>1, <2>3, MinOfNats
  <2>6. Min(S) \in Nat /\ Min(S) <= n /\ n <= Min(S)
    BY <2>1, <2>2, <2>3, <2>5
  <2> QED BY <1>1, <2>4, <2>6
<1>6. ASSUME NEW k \in 1 .. n PROVE Bit(pos + n + k) = Shifted(x, n - k) % 2
  <2>1. n + k \in 0 .. 2 * n /\ pos + (n + k) = pos + n + k /\ (n + k) + 1 = n + 1 + k
    BY <1>1
  <2> QED BY <1>2, <1>4, <2>1
<1>7. Number(n) = x
  <2> DEFINE E(f) == [k \in 0 .. n |-> IF k = 0 THEN 1 ELSE 2 * f[k - 1] + Bit(pos + n + k)]
             c == CHOOSE f : f = E(f)
             u == [k \in 0 .. n |-> Shifted(x, n - k)]
  <2>1. /\ \A i \in 0 .. n : Shifted(x, i) \in Nat
        /\ Shifted(x, 0) = x
        /\ \A i \in 1 .. n : Shifted(x, i) = Shifted(x, i - 1) \div 2
    <3>1. x \in Nat /\ \A i \in 0 .. n : i \in 0 .. symbols_amount
      BY <1>1
    <3>2. \A i \in 1 .. n : i \in 1 .. symbols_amount
      BY <1>1
    <3> QED BY <3>1, <3>2, ShiftedIs
  <2>2. ASSUME NEW k \in 1 .. n PROVE u[k] = 2 * u[k - 1] + Bit(pos + n + k)
    <3>1. k \in 0 .. n /\ k - 1 \in 0 .. n /\ n - k \in 0 .. n /\ n - (k - 1) \in 1 .. n /\ (n - (k - 1)) - 1 = n - k
      BY <1>1
    <3>2. u[k] = Shifted(x, n - k) /\ u[k - 1] = Shifted(x, n - k) \div 2 /\ Shifted(x, n - k) \in Nat
      BY <2>1, <3>1
    <3>3. Bit(pos + n + k) = Shifted(x, n - k) % 2
      BY <1>6
    <3>4. \A v \in Nat : v = 2 * (v \div 2) + (v % 2)
      OBVIOUS
    <3> HIDE DEF u
    <3> QED BY <3>2, <3>3, <3>4
  <2>3. u[0] = 1 /\ u[n] = x
    <3>1. 0 \in 0 .. n /\ n \in 0 .. n /\ n - 0 = n /\ n - n = 0
      BY <1>1
    <3> QED BY <1>1, <2>1, <3>1
  <2>4. u = E(u)
    <3>1. \A k \in 0 .. n : u[k] = E(u)[k]
      <4>1. \A k \in 0 .. n : k = 0 \/ k \in 1 .. n
        BY <1>1
      <4>2. u[0] = IF 0 = 0 THEN 1 ELSE 2 * u[0 - 1] + Bit(pos + n + 0)
        BY <2>3
      <4>3. \A k \in 0 .. n : u[k] = IF k = 0 THEN 1 ELSE 2 * u[k - 1] + Bit(pos + n + k)
        <5> HIDE DEF u
        <5> QED BY <2>2, <2>3, <4>1
      <4> HIDE DEF u
      <4> QED BY <4>3
    <3>2. u = [k \in 0 .. n |-> u[k]]
      OBVIOUS
    <3> HIDE DEF u
    <3> QED BY <3>1, <3>2
  <2>5. c = E(c)
    <3> HIDE DEF E, u
    <3> QED BY <2>4
  <2>6. Number(n) = c[n]
    BY DEF Number
  <2> HIDE DEF c
  <2>7. c[0] = 1 /\ \A k \in 1 .. n : c[k] = 2 * c[k - 1] + Bit(pos + n + k)
    <3>1. \A k \in 0 .. n : c[k] = E(c)[k]
      BY <2>5
    <3>2. 0 \in 0 .. n /\ \A k \in 1 .. n : k \in 0 .. n /\ k # 0
      BY <1>1
    <3> QED BY <3>1, <3>2
  <2> HIDE DEF u
  <2> DEFINE T == {k \in Nat : k <= n => c[k] = u[k]}
  <2>8. 0 \in T
    BY <2>3, <2>7
  <2>9. ASSUME NEW k \in T PROVE k + 1 \in T
    <3>1. CASE k + 1 <= n
      <4>1. k + 1 \in 1 .. n /\ (k + 1) - 1 = k /\ c[k] = u[k]
        BY <1>1, <3>1
      <4>2. c[k + 1] = 2 * c[k] + Bit(pos + n + (k + 1)) /\ u[k + 1] = 2 * u[k] + Bit(pos + n + (k + 1))
        BY <2>2, <2>7, <4>1
      <4>3. c[k + 1] = u[k + 1]
        BY <4>1, <4>2
      <4> QED BY <4>3
    <3> QED BY <1>1, <3>1
  <2> HIDE DEF T
  <2>10. T = Nat
    BY <2>8, <2>9, NatSetInduction DEF T
  <2>11. c[n] = u[n]
    BY <1>1, <2>10 DEF T
  <2> QED BY <2>3, <2>6, <2>11
<1>8. remaining
  BY <1>1, <1>3 DEF remaining
<1>9. ~ \E k \in 1 .. n : Bit(pos + n + k) = EOF
  <2> SUFFICES ASSUME NEW k \in 1 .. n PROVE Bit(pos + n + k) # EOF
    OBVIOUS
  <2>1. n - k \in 0 .. symbols_amount /\ x \in Nat
    BY <1>1
  <2>2. Shifted(x, n - k) \in Nat
    BY <2>1, ShiftedIs
  <2>3. Bit(pos + n + k) = Shifted(x, n - k) % 2
    BY <1>6
  <2>4. \A v \in Nat : v % 2 \in Nat
    OBVIOUS
  <2> QED BY <2>2, <2>3, <2>4 DEF EOF
<1> QED BY <1>2, <1>5, <1>7, <1>8, <1>9 DEF elias_gamma_decode, code

\* In zeros up to the end there is no symbol.
LEMMA PaddingRead ==
  ASSUME bits \in Seq(Digits), pos \in Nat, pos < Len(bits),
         \A j \in pos + 1 .. Len(bits) : bits[j] = 0
  PROVE  elias_gamma_decode = [symbol |-> EOF, used |-> Len(bits) - pos]
<1> DEFINE n == Len(bits) - pos
<1>1. Len(bits) \in Nat /\ n \in Nat /\ n >= 1 /\ pos + n = Len(bits)
  BY GammaAssumption
<1>2. Zeros = n
  <2> DEFINE S == {m \in 0 .. Len(bits) : Bit(pos + m) # 0}
  <2>1. n \in S
    <3>1. Bit(pos + n) # 0
      BY <1>1 DEF Bit, EOF
    <3> QED BY <1>1, <3>1
  <2>2. ASSUME NEW m \in S PROVE n <= m
    <3>1. SUFFICES ASSUME m < n PROVE FALSE
      BY <1>1
    <3>2. pos + m < Len(bits) /\ pos + m + 1 \in pos + 1 .. Len(bits)
      BY <1>1, <3>1
    <3>3. Bit(pos + m) = 0
      BY <3>2 DEF Bit
    <3> QED BY <3>3
  <2>3. S \in SUBSET Nat
    BY <1>1
  <2>4. Zeros = Min(S)
    BY DEF Zeros
  <2> HIDE DEF S, n
  <2>5. Min(S) \in S /\ \A m \in S : Min(S) <= m
    BY <2>1, <2>3, MinOfNats
  <2>6. Min(S) \in Nat /\ Min(S) <= n /\ n <= Min(S)
    BY <2>1, <2>2, <2>3, <2>5
  <2> QED BY <1>1, <2>4, <2>6
<1>3. \E k \in 1 .. n : Bit(pos + n + k) = EOF
  <2>1. 1 \in 1 .. n /\ ~ (pos + n + 1 < Len(bits))
    BY <1>1
  <2>2. Bit(pos + n + 1) = EOF
    BY <2>1 DEF Bit
  <2> QED BY <2>1, <2>2
<1>4. remaining
  BY DEF remaining
<1> QED BY <1>2, <1>3, <1>4 DEF elias_gamma_decode

\* At an end that remaining() does not notice a one is read.
LEMMA EndRead ==
  ASSUME bits \in Seq(Digits), pos = Len(bits), Len(bits) % SIZE = 0
  PROVE  elias_gamma_decode = [symbol |-> 1, used |-> 1]
<1>1. Len(bits) \in Nat /\ remaining
  BY DEF remaining
<1>2. Zeros = 0
  <2> DEFINE S == {m \in 0 .. Len(bits) : Bit(pos + m) # 0}
  <2>1. 0 \in S
    <3>1. ~ (pos + 0 < Len(bits))
      BY <1>1
    <3>2. Bit(pos + 0) # 0
      BY <3>1 DEF Bit, EOF
    <3> QED BY <1>1, <3>2
  <2>2. S \in SUBSET Nat
    BY <1>1
  <2>3. Zeros = Min(S)
    BY DEF Zeros
  <2> HIDE DEF S
  <2>4. Min(S) \in Nat /\ Min(S) <= 0
    BY <2>1, <2>2, MinOfNats
  <2> QED BY <2>3, <2>4
<1>3. Number(0) = 1
  <2> DEFINE E(f) == [k \in 0 .. 0 |-> IF k = 0 THEN 1 ELSE 2 * f[k - 1] + Bit(pos + 0 + k)]
             u == [k \in 0 .. 0 |-> 1]
             c == CHOOSE f : f = E(f)
  <2>1. u = E(u)
    OBVIOUS
  <2>2. c = E(c)
    <3> HIDE DEF E, u
    <3> QED BY <2>1
  <2>3. Number(0) = c[0]
    BY DEF Number
  <2> HIDE DEF c
  <2>4. c[0] = E(c)[0] /\ E(c)[0] = 1
    BY <2>2
  <2> QED BY <2>3, <2>4
<1>4. ~ \E k \in 1 .. 0 : Bit(pos + 0 + k) = EOF
  OBVIOUS
<1> QED BY <1>1, <1>2, <1>3, <1>4 DEF elias_gamma_decode

-------------------------------------------------------------------------------
(* Ranks. *)

Falls(count, map) == \A r, q \in Symbol : r < q => count[map[r]] >= count[map[q]]

Ranked(h) ==
  /\ h \in [count : [Symbol -> Nat], rank : [Symbol -> Symbol], map : [Symbol -> Symbol]]
  /\ \A s \in Symbol : h.map[h.rank[s]] = s
  /\ \A r \in Symbol : h.rank[h.map[r]] = r
  /\ Falls(h.count, h.map)

LEMMA NewRanked == Ranked(NewCoder)
BY GammaAssumption DEF Ranked, NewCoder, Falls, Symbol

\* Where a symbol that is counted once more goes.
LEMMA Overtakes ==
  ASSUME NEW h, Ranked(h), NEW symbol \in Symbol
  PROVE  \E j \in 0 .. h.rank[symbol] :
           /\ j \in Symbol /\ h.count[h.map[j]] = h.count[symbol]
           /\ j > 0 => h.count[h.map[j - 1]] >= h.count[symbol] + 1
           /\ update_frequencies(h, symbol) =
                [count |-> [h.count EXCEPT ![symbol] = @ + 1],
                 rank  |-> [h.rank EXCEPT ![h.map[j]] = h.rank[symbol], ![symbol] = j],
                 map   |-> [h.map EXCEPT ![h.rank[symbol]] = h.map[j], ![j] = symbol]]
<1> USE GammaAssumption
<1> DEFINE count == [h.count EXCEPT ![symbol] = @ + 1]
           i == h.rank[symbol]
           S == {r \in 0 .. i : \A m \in r .. i - 1 : count[symbol] > count[h.map[m]]}
           j == Min(S)
<1>1. /\ h.count \in [Symbol -> Nat] /\ h.rank \in [Symbol -> Symbol] /\ h.map \in [Symbol -> Symbol]
      /\ \A s \in Symbol : h.map[h.rank[s]] = s
      /\ \A r \in Symbol : h.rank[h.map[r]] = r
      /\ \A r, q \in Symbol : r < q => h.count[h.map[r]] >= h.count[h.map[q]]
  BY DEF Ranked, Falls
<1>2. i \in Symbol /\ i \in Nat /\ h.map[i] = symbol /\ h.count[symbol] \in Nat
  <2>1. i \in Symbol
    BY <1>1
  <2>2. h.map[i] = symbol /\ h.count[symbol] \in Nat
    BY <1>1
  <2>3. \A r \in Symbol : r \in Nat
    BY DEF Symbol
  <2> HIDE DEF i
  <2> QED BY <2>1, <2>2, <2>3
<1>3. \A m \in 0 .. i : m \in Symbol /\ m \in Nat
  BY <1>2 DEF Symbol
<1>4. count[symbol] = h.count[symbol] + 1 /\ \A m \in 0 .. i - 1 : count[h.map[m]] = h.count[h.map[m]]
  <2>1. count[symbol] = h.count[symbol] + 1 /\ \A s \in Symbol : s # symbol => count[s] = h.count[s]
    BY <1>1
  <2>2. ASSUME NEW m \in 0 .. i - 1 PROVE h.map[m] \in Symbol /\ h.map[m] # symbol
    <3>1. m \in Symbol /\ m # i
      BY <1>2, <1>3
    <3> QED BY <1>1, <3>1
  <2> HIDE DEF count, i
  <2> QED BY <2>1, <2>2
<1> HIDE DEF count
<1>5. S \in SUBSET Nat /\ i \in S
  BY <1>2
<1>6. j \in S /\ \A r \in S : j <= r
  <2> HIDE DEF S
  <2> QED BY <1>5, MinOfNats
<1> HIDE DEF j
<1>7. j \in 0 .. i /\ \A m \in j .. i - 1 : count[symbol] > count[h.map[m]]
  BY <1>6
<1>8. j \in Symbol /\ j \in Nat
  BY <1>3, <1>7
<1>9. h.count[h.map[j]] = h.count[symbol]
  <2>1. CASE j = i
    BY <1>2, <2>1
  <2>2. CASE j # i
    <3>1. j \in j .. i - 1 /\ j \in 0 .. i - 1 /\ j < i
      BY <1>2, <1>7, <2>2
    <3>2. h.count[symbol] + 1 > h.count[h.map[j]]
      BY <1>4, <1>7, <3>1
    <3>3. h.count[h.map[j]] >= h.count[h.map[i]] /\ h.count[h.map[j]] \in Nat
      BY <1>1, <1>2, <1>8, <3>1
    <3> QED BY <1>2, <3>2, <3>3
  <2> QED BY <2>1, <2>2
<1>10. ASSUME j > 0 PROVE h.count[h.map[j - 1]] >= h.count[symbol] + 1
  <2>1. j - 1 \in 0 .. i /\ j - 1 \in 0 .. i - 1 /\ ~ (j <= j - 1)
    BY <1>2, <1>7, <1>10
  <2>2. j - 1 \notin S
    BY <1>6, <2>1
  <2>3. PICK m \in j - 1 .. i - 1 : ~ (count[symbol] > count[h.map[m]])
    BY <2>1, <2>2
  <2>4. m = j - 1
    <3>1. m \notin j .. i - 1
      BY <1>7, <2>3
    <3> QED BY <1>2, <1>7, <2>3, <3>1
  <2>5. h.count[h.map[j - 1]] \in Nat
    BY <1>1, <1>3, <2>1
  <2> QED BY <1>2, <1>4, <2>1, <2>3, <2>4, <2>5
<1>11. update_frequencies(h, symbol) =
          [count |-> count, rank |-> [h.rank EXCEPT ![h.map[j]] = i, ![symbol] = j],
           map |-> [h.map EXCEPT ![i] = h.map[j], ![j] = symbol]]
  BY DEF update_frequencies, count, j
<1> QED BY <1>7, <1>8, <1>9, <1>10, <1>11 DEF count

\* Counting a symbol keeps the ranks.
LEMMA UpdateRanked ==
  ASSUME NEW h, Ranked(h), NEW symbol \in Symbol
  PROVE  Ranked(update_frequencies(h, symbol))
<1> USE GammaAssumption
<1> DEFINE new == update_frequencies(h, symbol)
           i == h.rank[symbol]
           c == h.count[symbol]
<1>1. /\ h.count \in [Symbol -> Nat] /\ h.rank \in [Symbol -> Symbol] /\ h.map \in [Symbol -> Symbol]
      /\ \A s \in Symbol : h.map[h.rank[s]] = s
      /\ \A r \in Symbol : h.rank[h.map[r]] = r
      /\ \A r, q \in Symbol : r < q => h.count[h.map[r]] >= h.count[h.map[q]]
  BY DEF Ranked, Falls
<1>2. PICK j \in 0 .. i :
        /\ j \in Symbol /\ h.count[h.map[j]] = c
        /\ j > 0 => h.count[h.map[j - 1]] >= c + 1
        /\ new = [count |-> [h.count EXCEPT ![symbol] = @ + 1],
                  rank  |-> [h.rank EXCEPT ![h.map[j]] = i, ![symbol] = j],
                  map   |-> [h.map EXCEPT ![i] = h.map[j], ![j] = symbol]]
  BY Overtakes
<1> DEFINE other == h.map[j]
           count == [h.count EXCEPT ![symbol] = @ + 1]
           rank == [h.rank EXCEPT ![other] = i, ![symbol] = j]
           map == [h.map EXCEPT ![i] = other, ![j] = symbol]
<1>3. i \in Symbol /\ h.map[i] = symbol /\ other \in Symbol /\ h.rank[other] = j /\ c \in Nat
  BY <1>1, <1>2
<1>4. count \in [Symbol -> Nat] /\ rank \in [Symbol -> Symbol] /\ map \in [Symbol -> Symbol]
  BY <1>1, <1>2, <1>3
<1>5. /\ \A s \in Symbol : count[s] = IF s = symbol THEN c + 1 ELSE h.count[s]
      /\ \A s \in Symbol : rank[s] = IF s = symbol THEN j ELSE IF s = other THEN i ELSE h.rank[s]
      /\ \A r \in Symbol : map[r] = IF r = j THEN symbol ELSE IF r = i THEN other ELSE h.map[r]
  BY <1>1, <1>2, <1>3
<1>6. new.count = count /\ new.rank = rank /\ new.map = map
      /\ new \in [count : [Symbol -> Nat], rank : [Symbol -> Symbol], map : [Symbol -> Symbol]]
  BY <1>2, <1>4
<1> HIDE DEF new, i, c, other, count, rank, map
<1>7. ASSUME NEW s \in Symbol PROVE map[rank[s]] = s
  <2>1. CASE s = symbol
    BY <1>2, <1>5, <2>1
  <2>2. CASE s # symbol /\ s = other
    <3>1. rank[s] = i /\ i # j
      BY <1>3, <1>5, <2>2 DEF other
    <3> QED BY <1>3, <1>5, <2>2, <3>1
  <2>3. CASE s # symbol /\ s # other
    <3>1. rank[s] = h.rank[s] /\ h.rank[s] \in Symbol /\ h.map[h.rank[s]] = s
      BY <1>1, <1>5, <2>3
    <3>2. h.rank[s] # i /\ h.rank[s] # j
      BY <1>3, <2>3, <3>1 DEF other
    <3> QED BY <1>5, <3>1, <3>2
  <2> QED BY <2>1, <2>2, <2>3
<1>8. ASSUME NEW r \in Symbol PROVE rank[map[r]] = r
  <2>1. CASE r = j
    BY <1>5, <2>1
  <2>2. CASE r # j /\ r = i
    <3>1. map[r] = other /\ other # symbol
      BY <1>3, <1>5, <2>2 DEF i
    <3> QED BY <1>3, <1>5, <2>2, <3>1
  <2>3. CASE r # j /\ r # i
    <3>1. map[r] = h.map[r] /\ h.map[r] \in Symbol /\ h.rank[h.map[r]] = r
      BY <1>1, <1>5, <2>3
    <3>2. h.map[r] # symbol /\ h.map[r] # other
      BY <1>3, <2>3, <3>1 DEF i
    <3> QED BY <1>5, <3>1, <3>2
  <2> QED BY <2>1, <2>2, <2>3
<1>9. \A r \in Symbol : count[map[r]] = IF r = j THEN c + 1 ELSE h.count[h.map[r]]
  <2> SUFFICES ASSUME NEW r \in Symbol PROVE count[map[r]] = IF r = j THEN c + 1 ELSE h.count[h.map[r]]
    OBVIOUS
  <2>1. CASE r = j
    BY <1>5, <2>1
  <2>2. CASE r # j /\ r = i
    <3>1. map[r] = other /\ other # symbol
      BY <1>3, <1>5, <2>2 DEF i
    <3>2. count[other] = c /\ h.count[h.map[r]] = c
      BY <1>2, <1>3, <1>5, <2>2, <3>1 DEF other, c
    <3> QED BY <2>2, <3>1, <3>2
  <2>3. CASE r # j /\ r # i
    <3>1. map[r] = h.map[r] /\ h.map[r] \in Symbol /\ h.rank[h.map[r]] = r
      BY <1>1, <1>5, <2>3
    <3>2. h.map[r] # symbol
      BY <2>3, <3>1 DEF i
    <3> QED BY <1>5, <2>3, <3>1, <3>2
  <2> QED BY <2>1, <2>2, <2>3
<1>10. Falls(count, map)
  <2> SUFFICES ASSUME NEW r \in Symbol, NEW q \in Symbol, r < q PROVE count[map[r]] >= count[map[q]]
    BY DEF Falls
  <2>1. \A a, b \in Symbol : a <= b => h.count[h.map[a]] >= h.count[h.map[b]] /\ h.count[h.map[a]] \in Nat
    <3> SUFFICES ASSUME NEW a \in Symbol, NEW b \in Symbol, a <= b
                 PROVE  h.count[h.map[a]] >= h.count[h.map[b]] /\ h.count[h.map[a]] \in Nat
      OBVIOUS
    <3>1. h.count[h.map[a]] \in Nat /\ h.count[h.map[b]] \in Nat
      BY <1>1
    <3>2. a = b \/ a < b
      BY DEF Symbol
    <3> QED BY <1>1, <3>1, <3>2
  <2>2. r \in Nat /\ q \in Nat /\ j \in Nat
    BY <1>2 DEF Symbol
  <2>3. CASE q = j
    <3>1. j - 1 \in Symbol /\ r <= j - 1 /\ j > 0 /\ r # j
      BY <2>2, <2>3 DEF Symbol
    <3>2. h.count[h.map[j - 1]] >= c + 1 /\ h.count[h.map[r]] >= h.count[h.map[j - 1]]
      BY <1>2, <2>1, <3>1
    <3>3. h.count[h.map[r]] \in Nat /\ h.count[h.map[j - 1]] \in Nat
      BY <1>1, <3>1
    <3>4. h.count[h.map[r]] >= c + 1
      BY <1>3, <3>2, <3>3
    <3> QED BY <1>9, <2>3, <3>1, <3>4
  <2>4. CASE r = j
    <3>1. h.count[h.map[j]] >= h.count[h.map[q]] /\ q # j /\ h.count[h.map[q]] \in Nat
      BY <1>1, <2>1, <2>2, <2>4
    <3> QED BY <1>2, <1>3, <1>9, <2>4, <3>1
  <2>5. CASE q # j /\ r # j
    BY <1>1, <1>9, <2>5
  <2> QED BY <2>3, <2>4, <2>5
<1>11. Ranked(new)
  BY <1>6, <1>7, <1>8, <1>10 DEF Ranked
<1> QED BY <1>11 DEF new

-------------------------------------------------------------------------------
(* The invariant. *)

Code(h, symbol) == elias_gamma_encode(h.rank[symbol] + 1)

\* The code of symbol number k, from the coder before it, begins at start[k - 1].
Coded(at, start, k) ==
  /\ at[k] = update_frequencies(at[k - 1], sent[k])
  /\ start[k] = start[k - 1] + Len(Code(at[k - 1], sent[k]))
  /\ \A j \in 1 .. Len(Code(at[k - 1], sent[k])) :
       bits[start[k - 1] + j] = Code(at[k - 1], sent[k])[j]

\* The coders between the symbols, and where in the archive they stand.
Trail(at, start) ==
  /\ at[0] = NewCoder /\ start[0] = 0
  /\ \A k \in 0 .. Len(sent) : Ranked(at[k]) /\ start[k] \in 0 .. Len(bits)
  /\ \A k \in 1 .. Len(sent) : Coded(at, start, k)

\* The encoder is at the end of the trail, behind which there are zeros only.
AtEnd(at, start) ==
  /\ enc = at[Len(sent)]
  /\ \A j \in start[Len(sent)] + 1 .. Len(bits) : bits[j] = 0
  /\ ~closed => /\ start[Len(sent)] = Len(bits)
                /\ decoded = <<>> /\ dec = at[0] /\ pos = 0 /\ pc = "reading"

\* The decoder is somewhere on it.
OnTrail(at, start) ==
  /\ Len(decoded) <= Len(sent) /\ \A k \in 1 .. Len(decoded) : decoded[k] = sent[k]
  /\ dec = at[Len(decoded)]
  /\ pc = "reading" => pos = start[Len(decoded)]
  /\ pc # "reading" => Len(decoded) = Len(sent)

\* It has read a symbol behind the end.
Beyond == Ranked(dec) /\ Len(bits) % SIZE = 0 /\ pos > Len(bits)

GammaTypes ==
  /\ sent \in Seq(Symbol) /\ decoded \in Seq(Symbol) /\ bits \in Seq(Digits)
  /\ closed \in BOOLEAN /\ pos \in Nat

GammaInv ==
  /\ GammaTypes
  /\ \E at, start : Trail(at, start) /\ AtEnd(at, start) /\ (OnTrail(at, start) \/ Beyond)

\* The invariant holds before anything was encoded.
LEMMA GammaInvInit == Init => GammaInv
<1> SUFFICES ASSUME Init PROVE GammaInv
  OBVIOUS
<1> DEFINE at == [k \in Nat |-> NewCoder]
           start == [k \in Nat |-> 0]
<1>1. GammaTypes /\ Len(sent) = 0 /\ Len(bits) = 0 /\ Len(decoded) = 0
  <2>1. sent = <<>> /\ bits = <<>> /\ decoded = <<>> /\ closed = FALSE /\ pos = 0
    BY DEF Init
  <2>2. <<>> \in Seq(Symbol) /\ <<>> \in Seq(Digits)
    OBVIOUS
  <2>3. Len(sent) = 0 /\ Len(bits) = 0 /\ Len(decoded) = 0
    BY <2>1
  <2> QED BY <2>1, <2>2, <2>3 DEF GammaTypes
<1>2. Trail(at, start)
  BY <1>1, NewRanked DEF Trail
<1>3. AtEnd(at, start) /\ OnTrail(at, start)
  BY <1>1 DEF Init, AtEnd, OnTrail
<1> HIDE DEF at, start
<1> QED BY <1>1, <1>2, <1>3 DEF GammaInv

\* Encoding a symbol makes the trail longer.
LEMMA EncodeKeeps ==
  ASSUME GammaInv, NEW symbol \in Symbol, Encode(symbol)
  PROVE  GammaInv'
<1> USE GammaAssumption
<1>1. PICK at, start : Trail(at, start) /\ AtEnd(at, start)
  BY DEF GammaInv
<1> DEFINE n == Len(sent)
           code == Code(enc, symbol)
<1>2. GammaTypes /\ ~closed /\ enc = at[n] /\ start[n] = Len(bits) /\ n \in Nat
      /\ decoded = <<>> /\ dec = at[0] /\ pos = 0 /\ pc = "reading"
  BY <1>1 DEF GammaInv, Encode, AtEnd, GammaTypes
<1>3. /\ sent' = Append(sent, symbol) /\ bits' = bits \o code /\ enc' = update_frequencies(enc, symbol)
      /\ UNCHANGED <<dec, closed, pos, decoded, pc>>
  BY DEF Encode, Code
<1>4. Ranked(enc)
  BY <1>1, <1>2 DEF Trail
<1>5. code \in Seq(Digits)
  <2>1. enc.rank[symbol] + 1 \in 1 .. symbols_amount
    <3>1. enc.rank[symbol] \in Symbol
      BY <1>4 DEF Ranked
    <3> QED BY <3>1 DEF Symbol
  <2> QED BY <2>1, CodeIs DEF Code
<1> HIDE DEF code
<1>6. /\ sent' \in Seq(Symbol) /\ Len(sent') = n + 1 /\ sent'[n + 1] = symbol
      /\ \A k \in 1 .. n : sent'[k] = sent[k]
  <2>1. sent \in Seq(Symbol)
    BY <1>2 DEF GammaTypes
  <2> QED BY <1>3, <2>1, AppendProperties
<1>7. /\ bits' \in Seq(Digits) /\ Len(bits') = Len(bits) + Len(code) /\ Len(bits) \in Nat /\ Len(code) \in Nat
      /\ \A j \in 1 .. Len(bits) : bits'[j] = bits[j]
      /\ \A j \in 1 .. Len(code) : bits'[Len(bits) + j] = code[j]
  <2>1. bits \in Seq(Digits)
    BY <1>2 DEF GammaTypes
  <2>2. /\ bits' \in Seq(Digits) /\ Len(bits') = Len(bits) + Len(code) /\ Len(bits) \in Nat /\ Len(code) \in Nat
        /\ \A j \in 1 .. Len(bits) + Len(code) : bits'[j] = IF j <= Len(bits) THEN bits[j] ELSE code[j - Len(bits)]
    BY <1>3, <1>5, <2>1, ConcatProperties
  <2>3. \A j \in 1 .. Len(bits) : bits'[j] = bits[j]
    BY <2>2
  <2>4. ASSUME NEW j \in 1 .. Len(code) PROVE bits'[Len(bits) + j] = code[j]
    <3>1. Len(bits) + j \in 1 .. Len(bits) + Len(code) /\ ~ (Len(bits) + j <= Len(bits)) /\ (Len(bits) + j) - Len(bits) = j
      BY <2>2
    <3> QED BY <2>2, <3>1
  <2> QED BY <2>2, <2>3, <2>4
<1>8. PICK nat, nstart :
        /\ \A k \in 0 .. n : nat[k] = at[k] /\ nstart[k] = start[k]
        /\ nat[n + 1] = update_frequencies(enc, symbol) /\ nstart[n + 1] = Len(bits) + Len(code)
  <2> DEFINE a == [k \in Nat |-> IF k <= n THEN at[k] ELSE update_frequencies(enc, symbol)]
             b == [k \in Nat |-> IF k <= n THEN start[k] ELSE Len(bits) + Len(code)]
  <2>1. /\ \A k \in 0 .. n : a[k] = at[k] /\ b[k] = start[k]
        /\ a[n + 1] = update_frequencies(enc, symbol) /\ b[n + 1] = Len(bits) + Len(code)
    BY <1>2
  <2> HIDE DEF a, b
  <2> QED BY <2>1
<1>9. Trail(nat, nstart)'
  <2>1. nat[0] = NewCoder /\ nstart[0] = 0
    BY <1>1, <1>2, <1>8 DEF Trail
  <2>2. ASSUME NEW k \in 0 .. n + 1 PROVE Ranked(nat[k]) /\ nstart[k] \in 0 .. Len(bits')
    <3>1. CASE k <= n
      <4>1. Ranked(at[k]) /\ start[k] \in 0 .. Len(bits) /\ k \in 0 .. n
        BY <1>1, <1>2, <3>1 DEF Trail
      <4>2. start[k] \in 0 .. Len(bits')
        BY <1>7, <4>1
      <4> QED BY <1>8, <4>1, <4>2
    <3>2. CASE k = n + 1
      <4>1. Ranked(update_frequencies(enc, symbol))
        BY <1>4, UpdateRanked
      <4>2. Len(bits) + Len(code) \in 0 .. Len(bits')
        BY <1>7
      <4> QED BY <1>8, <3>2, <4>1, <4>2
    <3> QED BY <1>2, <3>1, <3>2
  <2>3. ASSUME NEW k \in 1 .. n + 1 PROVE Coded(nat, nstart, k)'
    <3>1. CASE k <= n
      <4>1. Coded(at, start, k) /\ sent'[k] = sent[k] /\ k \in 0 .. n /\ k - 1 \in 0 .. n /\ k \in 1 .. n
        BY <1>1, <1>2, <1>6, <3>1 DEF Trail
      <4> DEFINE c == Code(at[k - 1], sent[k])
      <4>2. at[k] = update_frequencies(at[k - 1], sent[k]) /\ start[k] = start[k - 1] + Len(c)
            /\ \A j \in 1 .. Len(c) : bits[start[k - 1] + j] = c[j]
        BY <4>1 DEF Coded
      <4>3. nat[k] = at[k] /\ nat[k - 1] = at[k - 1] /\ nstart[k] = start[k] /\ nstart[k - 1] = start[k - 1]
        BY <1>8, <4>1
      <4>4. start[k - 1] \in 0 .. Len(bits) /\ start[k] \in 0 .. Len(bits)
        BY <1>1, <4>1 DEF Trail
      <4>5. ASSUME NEW j \in 1 .. Len(c) PROVE bits'[start[k - 1] + j] = c[j]
        <5>1. start[k - 1] + j \in 1 .. Len(bits)
          <6>1. Len(c) \in Nat
            <7>1. sent[k] \in Symbol /\ Ranked(at[k - 1])
              BY <1>1, <1>2, <4>1 DEF Trail, GammaTypes
            <7>2. at[k - 1].rank[sent[k]] + 1 \in 1 .. symbols_amount
              <8>1. at[k - 1].rank[sent[k]] \in Symbol
                BY <7>1 DEF Ranked
              <8> QED BY <8>1 DEF Symbol
            <7>3. c \in Seq(Digits)
              BY <7>2, CodeIs DEF Code
            <7> HIDE DEF c
            <7> QED BY <7>3
          <6> HIDE DEF c
          <6> QED BY <1>7, <4>2, <4>4, <4>5, <6>1
        <5> HIDE DEF c
        <5> QED BY <1>7, <4>2, <4>5, <5>1
      <4> QED BY <4>1, <4>2, <4>3, <4>5 DEF Coded, Code
    <3>2. CASE k = n + 1
      <4>1. k - 1 = n /\ n \in 0 .. n
        BY <1>2, <3>2
      <4>2. nat[k - 1] = enc /\ nstart[k - 1] = Len(bits) /\ sent'[k] = symbol
        BY <1>2, <1>6, <1>8, <3>2, <4>1
      <4> QED BY <1>7, <1>8, <3>2, <4>2 DEF Coded, Code, code
    <3> QED BY <1>2, <3>1, <3>2
  <2> QED BY <1>6, <2>1, <2>2, <2>3 DEF Trail
<1>10. AtEnd(nat, nstart)'
  <2>1. nat[Len(sent')] = enc' /\ nstart[Len(sent')] = Len(bits') /\ dec' = nat[0]
    BY <1>2, <1>3, <1>6, <1>7, <1>8
  <2>2. \A j \in nstart[Len(sent')] + 1 .. Len(bits') : bits'[j] = 0
    BY <1>7, <2>1
  <2> QED BY <1>2, <1>3, <2>1, <2>2 DEF AtEnd
<1>11. OnTrail(nat, nstart)'
  <2>1. Len(decoded') = 0 /\ 0 <= Len(sent') /\ decoded' = <<>>
    BY <1>2, <1>3, <1>6
  <2>2. dec' = nat[0] /\ nstart[0] = 0 /\ pos' = 0 /\ pc' = "reading"
    BY <1>1, <1>2, <1>3, <1>8 DEF Trail
  <2> QED BY <2>1, <2>2 DEF OnTrail
<1>12. GammaTypes'
  BY <1>2, <1>3, <1>6, <1>7 DEF GammaTypes
<1> QED BY <1>9, <1>10, <1>11, <1>12 DEF GammaInv

\* Padding comes behind the trail.
LEMMA CloseKeeps ==
  ASSUME GammaInv, Close
  PROVE  GammaInv'
<1> USE GammaAssumption
<1>1. PICK at, start : Trail(at, start) /\ AtEnd(at, start)
  BY DEF GammaInv
<1> DEFINE m == (BITS - (Len(bits) % BITS)) % BITS
           zeros == [k \in 1 .. m |-> 0]
<1>2. GammaTypes /\ enc = at[Len(sent)] /\ start[Len(sent)] = Len(bits)
      /\ decoded = <<>> /\ dec = at[0] /\ pos = 0 /\ pc = "reading"
  BY <1>1 DEF GammaInv, Close, AtEnd, GammaTypes
<1>3. bits' = bits \o zeros /\ closed' = TRUE /\ UNCHANGED <<enc, dec, sent, pos, decoded, pc>>
  BY DEF Close
<1>4. bits \in Seq(Digits) /\ Len(bits) \in Nat /\ sent \in Seq(Symbol) /\ Len(sent) \in Nat
  BY <1>2 DEF GammaTypes
<1>5. m \in Nat
  <2>1. \A a \in Int : a % BITS \in Nat
    OBVIOUS
  <2>2. Len(bits) % BITS \in Int
    BY <1>4
  <2>3. BITS - (Len(bits) % BITS) \in Int
    BY <2>2
  <2> QED BY <2>1, <2>3
<1> HIDE DEF m
<1>6. zeros \in Seq(Digits) /\ Len(zeros) = m
  <2>1. zeros \in [1 .. m -> Digits]
    BY DEF Digits
  <2> QED BY <1>5, <2>1
<1> HIDE DEF zeros
<1>7. /\ bits' \in Seq(Digits) /\ Len(bits') = Len(bits) + m
      /\ \A j \in 1 .. Len(bits) : bits'[j] = bits[j]
      /\ \A j \in Len(bits) + 1 .. Len(bits') : bits'[j] = 0
  <2>1. /\ bits' \in Seq(Digits) /\ Len(bits') = Len(bits) + m
        /\ \A j \in 1 .. Len(bits) + m : bits'[j] = IF j <= Len(bits) THEN bits[j] ELSE zeros[j - Len(bits)]
    BY <1>3, <1>4, <1>6, ConcatProperties
  <2>2. \A j \in 1 .. Len(bits) : bits'[j] = bits[j]
    BY <1>4, <1>5, <2>1
  <2>3. ASSUME NEW j \in Len(bits) + 1 .. Len(bits') PROVE bits'[j] = 0
    <3>1. j \in 1 .. Len(bits) + m /\ ~ (j <= Len(bits)) /\ j - Len(bits) \in 1 .. m
      BY <1>4, <1>5, <2>1
    <3> QED BY <2>1, <3>1 DEF zeros
  <2> QED BY <2>1, <2>2, <2>3
<1>8. Trail(at, start)'
  <2>1. \A k \in 0 .. Len(sent) : Ranked(at[k]) /\ start[k] \in 0 .. Len(bits')
    BY <1>1, <1>4, <1>5, <1>7 DEF Trail
  <2>2. ASSUME NEW k \in 1 .. Len(sent) PROVE Coded(at, start, k)'
    <3> DEFINE c == Code(at[k - 1], sent[k])
    <3>1. Coded(at, start, k) /\ k \in 0 .. Len(sent) /\ k - 1 \in 0 .. Len(sent)
      BY <1>1, <1>4 DEF Trail
    <3>2. start[k - 1] \in 0 .. Len(bits) /\ start[k] \in 0 .. Len(bits) /\ Ranked(at[k - 1]) /\ sent[k] \in Symbol
      BY <1>1, <1>4, <3>1 DEF Trail
    <3>3. Len(c) \in Nat
      <4>1. at[k - 1].rank[sent[k]] + 1 \in 1 .. symbols_amount
        <5>1. at[k - 1].rank[sent[k]] \in Symbol
          BY <3>2 DEF Ranked
        <5> QED BY <5>1 DEF Symbol
      <4>2. c \in Seq(Digits)
        BY <4>1, CodeIs DEF Code
      <4> HIDE DEF c
      <4> QED BY <4>2
    <3>4. start[k] = start[k - 1] + Len(c) /\ \A j \in 1 .. Len(c) : bits[start[k - 1] + j] = c[j]
      BY <3>1 DEF Coded
    <3>5. ASSUME NEW j \in 1 .. Len(c) PROVE bits'[start[k - 1] + j] = c[j]
      <4> HIDE DEF c
      <4>1. start[k - 1] + j \in 1 .. Len(bits)
        BY <1>4, <3>2, <3>3, <3>4, <3>5
      <4> QED BY <1>7, <3>4, <3>5, <4>1
    <3> QED BY <1>3, <3>1, <3>4, <3>5 DEF Coded, Code
  <2> QED BY <1>1, <1>3, <2>1, <2>2 DEF Trail
<1>9. AtEnd(at, start)' /\ OnTrail(at, start)'
  <2>1. Len(decoded') = 0 /\ start[0] = 0
    BY <1>1, <1>2, <1>3 DEF Trail
  <2>2. AtEnd(at, start)'
    BY <1>2, <1>3, <1>7 DEF AtEnd
  <2>3. OnTrail(at, start)'
    BY <1>2, <1>3, <1>4, <2>1 DEF OnTrail
  <2> QED BY <2>2, <2>3
<1>10. GammaTypes'
  BY <1>2, <1>3, <1>7 DEF GammaTypes
<1> QED BY <1>8, <1>9, <1>10 DEF GammaInv

\* The decoder moves along the trail, and comes off it at its end at most.
LEMMA DecodeKeeps ==
  ASSUME GammaInv, Decode
  PROVE  GammaInv'
<1> USE GammaAssumption
<1>1. PICK at, start : Trail(at, start) /\ AtEnd(at, start) /\ (OnTrail(at, start) \/ Beyond)
  BY DEF GammaInv
<1> DEFINE n == Len(sent)
           d == Len(decoded)
           got == elias_gamma_decode
<1>2. /\ GammaTypes /\ closed /\ pc = "reading"
      /\ pos' = pos + got.used /\ UNCHANGED <<enc, sent, bits, closed>>
      /\ got.symbol = EOF => pc' = "done" /\ UNCHANGED <<dec, decoded>>
      /\ got.symbol # EOF =>
           /\ dec' = update_frequencies(dec, dec.map[got.symbol - 1])
           /\ decoded' = Append(decoded, dec.map[got.symbol - 1]) /\ pc' = pc
  BY DEF GammaInv, Decode
<1>3. /\ sent \in Seq(Symbol) /\ decoded \in Seq(Symbol) /\ bits \in Seq(Digits) /\ pos \in Nat
      /\ n \in Nat /\ d \in Nat /\ Len(bits) \in Nat
  BY <1>2 DEF GammaTypes
<1> HIDE DEF got
<1>4. Trail(at, start)'
  BY <1>1, <1>2 DEF Trail, Coded
<1>5. AtEnd(at, start)'
  BY <1>1, <1>2 DEF AtEnd
<1>6. CASE OnTrail(at, start) /\ d < n
  <2> DEFINE s == sent[d + 1]
             x == dec.rank[s] + 1
             code == elias_gamma_encode(x)
  <2>1. /\ d + 1 \in 1 .. n /\ (d + 1) - 1 = d /\ d \in 0 .. n /\ d + 1 \in 0 .. n
        /\ dec = at[d] /\ pos = start[d] /\ \A k \in 1 .. d : decoded[k] = sent[k]
    BY <1>2, <1>3, <1>6 DEF OnTrail
  <2>2. Ranked(dec) /\ s \in Symbol /\ start[d + 1] \in 0 .. Len(bits) /\ Coded(at, start, d + 1)
    BY <1>1, <1>3, <2>1 DEF Trail
  <2>3. x \in 1 .. symbols_amount /\ dec.map[x - 1] = s
    <3>1. dec.rank[s] \in Symbol /\ dec.map[dec.rank[s]] = s
      BY <2>2 DEF Ranked
    <3>2. \A r \in Symbol : r + 1 \in 1 .. symbols_amount /\ (r + 1) - 1 = r
      BY DEF Symbol
    <3> HIDE DEF s
    <3> QED BY <3>1, <3>2
  <2>4. /\ at[d + 1] = update_frequencies(dec, s) /\ start[d + 1] = pos + Len(code)
        /\ \A j \in 1 .. Len(code) : bits[pos + j] = code[j]
    BY <2>1, <2>2 DEF Coded, Code
  <2> HIDE DEF x, s
  <2>5. got = [symbol |-> x, used |-> Len(code)]
    <3>1. pos + Len(code) <= Len(bits)
      BY <2>2, <2>4
    <3> QED BY <1>3, <2>3, <2>4, <3>1, CodeRead DEF got
  <2>6. got.symbol = x /\ x # EOF /\ got.used = Len(code)
    BY <2>3, <2>5 DEF EOF
  <2>7. dec' = at[d + 1] /\ decoded' = Append(decoded, s) /\ pc' = pc /\ pos' = start[d + 1]
    BY <1>2, <2>3, <2>4, <2>6
  <2>8. /\ decoded' \in Seq(Symbol) /\ Len(decoded') = d + 1 /\ decoded'[d + 1] = s
        /\ \A k \in 1 .. d : decoded'[k] = decoded[k]
    BY <1>3, <2>2, <2>7, AppendProperties
  <2>9. \A k \in 1 .. d + 1 : decoded'[k] = sent[k]
    <3> SUFFICES ASSUME NEW k \in 1 .. d + 1 PROVE decoded'[k] = sent[k]
      OBVIOUS
    <3>1. CASE k = d + 1
      BY <2>8, <3>1 DEF s
    <3>2. CASE k # d + 1
      <4>1. k \in 1 .. d
        BY <1>3, <3>2
      <4> QED BY <2>1, <2>8, <4>1
    <3> QED BY <3>1, <3>2
  <2>10. OnTrail(at, start)'
    <3>1. d + 1 <= n /\ pc' = "reading" /\ sent' = sent
      BY <1>2, <1>3, <1>6, <2>7
    <3> QED BY <2>7, <2>8, <2>9, <3>1 DEF OnTrail
  <2>11. pos' \in Nat
    BY <2>2, <2>7
  <2>12. GammaTypes'
    BY <1>2, <1>3, <2>8, <2>11 DEF GammaTypes
  <2> QED BY <1>4, <1>5, <2>10, <2>12 DEF GammaInv
<1>7. ASSUME got.symbol = EOF, got.used \in Nat, OnTrail(at, start) => d = n PROVE GammaInv'
  <2>1. pc' = "done" /\ dec' = dec /\ decoded' = decoded /\ pos' = pos + got.used /\ sent' = sent /\ bits' = bits
    BY <1>2, <1>7
  <2>2. GammaTypes'
    BY <1>2, <1>3, <1>7, <2>1 DEF GammaTypes
  <2>3. OnTrail(at, start) => OnTrail(at, start)'
    BY <1>3, <1>7, <2>1 DEF OnTrail
  <2>4. Beyond => Beyond'
    BY <1>3, <1>7, <2>1 DEF Beyond
  <2> QED BY <1>1, <1>4, <1>5, <2>2, <2>3, <2>4 DEF GammaInv
<1>8. CASE Beyond
  <2>1. ~ remaining
    BY <1>3, <1>8 DEF Beyond, remaining
  <2>2. got = [symbol |-> EOF, used |-> 0]
    BY <2>1 DEF got, elias_gamma_decode
  <2>3. CASE OnTrail(at, start) => d = n
    BY <1>7, <2>2, <2>3
  <2>4. CASE ~ (OnTrail(at, start) => d = n)
    <3>1. d < n
      BY <1>3, <2>4 DEF OnTrail
    <3> QED BY <1>6, <2>4, <3>1
  <2> QED BY <2>3, <2>4
<1>9. CASE OnTrail(at, start) /\ d = n
  <2>1. dec = at[n] /\ pos = start[n] /\ n \in 0 .. n
    BY <1>2, <1>3, <1>9 DEF OnTrail
  <2>2. Ranked(dec) /\ pos <= Len(bits) /\ \A j \in pos + 1 .. Len(bits) : bits[j] = 0
    BY <1>1, <1>3, <2>1 DEF Trail, AtEnd
  <2>3. CASE pos < Len(bits)
    <3>1. got = [symbol |-> EOF, used |-> Len(bits) - pos]
      BY <1>3, <2>2, <2>3, PaddingRead DEF got
    <3>2. Len(bits) - pos \in Nat
      BY <1>3, <2>3
    <3> QED BY <1>7, <1>9, <3>1, <3>2
  <2>4. CASE pos = Len(bits) /\ Len(bits) % SIZE # 0
    <3>1. ~ remaining
      BY <1>3, <2>4 DEF remaining
    <3>2. got = [symbol |-> EOF, used |-> 0]
      BY <3>1 DEF got, elias_gamma_decode
    <3> QED BY <1>7, <1>9, <3>2
  <2>5. CASE pos = Len(bits) /\ Len(bits) % SIZE = 0
    <3>1. got = [symbol |-> 1, used |-> 1]
      BY <1>3, <2>5, EndRead DEF got
    <3>2. got.symbol # EOF /\ got.symbol - 1 = 0 /\ got.used = 1
      BY <3>1 DEF EOF
    <3>3. dec.map[0] \in Symbol
      <4>1. 0 \in Symbol
        BY DEF Symbol
      <4> QED BY <2>2, <4>1 DEF Ranked
    <3>4. dec' = update_frequencies(dec, dec.map[0]) /\ decoded' = Append(decoded, dec.map[0]) /\ pos' = pos + 1
      BY <1>2, <3>2
    <3>5. Ranked(dec') /\ decoded' \in Seq(Symbol)
      BY <1>3, <2>2, <3>3, <3>4, UpdateRanked, AppendProperties
    <3>6. Beyond'
      <4>1. bits' = bits /\ pos' > Len(bits)
        BY <1>2, <1>3, <2>5, <3>4
      <4> QED BY <2>5, <3>5, <4>1 DEF Beyond
    <3>7. GammaTypes'
      BY <1>2, <1>3, <3>4, <3>5 DEF GammaTypes
    <3> QED BY <1>4, <1>5, <3>6, <3>7 DEF GammaInv
  <2> QED BY <1>3, <2>2, <2>3, <2>4, <2>5
<1>10. OnTrail(at, start) => d <= n
  BY DEF OnTrail
<1> QED BY <1>1, <1>3, <1>6, <1>8, <1>9, <1>10

\* Each step of the gamma coder keeps the invariant.
LEMMA GammaInvStep == GammaInv /\ [Next]_vars => GammaInv'
<1> SUFFICES ASSUME GammaInv, [Next]_vars PROVE GammaInv'
  OBVIOUS
<1>1. CASE \E symbol \in Symbol : Encode(symbol)
  BY <1>1, EncodeKeeps
<1>2. CASE Close
  BY <1>2, CloseKeeps
<1>3. CASE Decode
  BY <1>3, DecodeKeeps
<1>4. CASE UNCHANGED vars
  <2>1. PICK at, start : Trail(at, start) /\ AtEnd(at, start) /\ (OnTrail(at, start) \/ Beyond)
    BY DEF GammaInv
  <2>2. Trail(at, start)' /\ AtEnd(at, start)' /\ (OnTrail(at, start)' \/ Beyond')
    BY <1>4, <2>1 DEF vars, Trail, Coded, AtEnd, OnTrail, Beyond
  <2>3. GammaTypes'
    BY <1>4 DEF vars, GammaInv, GammaTypes
  <2> QED BY <2>2, <2>3 DEF GammaInv
<1> QED BY <1>1, <1>2, <1>3, <1>4 DEF Next

\* The arithmetic coder beside it does not disturb the gamma coder.
THEOREM GammaAlone == BothSpec => Spec
<1>1. BothInit => Init
  BY DEF BothInit
<1>2. [BothNext]_allVars => [Next]_vars
  <2> SUFFICES ASSUME [BothNext]_allVars PROVE [Next]_vars
    OBVIOUS
  <2>1. CASE \E symbol \in Symbol : EncodeBoth(symbol)
    BY <2>1 DEF EncodeBoth, Next
  <2>2. CASE CloseBoth
    BY <2>2 DEF CloseBoth, Next
  <2>3. CASE DecodeGamma
    BY <2>3 DEF DecodeGamma, Next
  <2>4. CASE StartArithmetic
    BY <2>4 DEF StartArithmetic
  <2>5. CASE DecodeArithmetic
    BY <2>5 DEF DecodeArithmetic
  <2>6. CASE UNCHANGED allVars
    BY <2>6 DEF allVars, vars
  <2> QED BY <2>1, <2>2, <2>3, <2>4, <2>5, <2>6 DEF BothNext
<1> QED BY <1>1, <1>2, PTL DEF BothSpec, Spec

\* The invariant holds always.
LEMMA GammaInvAlways == BothSpec => []GammaInv
<1>1. Spec => []GammaInv
  BY GammaInvInit, GammaInvStep, PTL DEF Spec
<1> QED BY <1>1, GammaAlone, PTL

\* In both gamma coders rank and symbol are inverse to each other and the ranks
\* are in the order of the counts, also when the decoder has read a symbol that
\* was not sent.
THEOREM RanksOrderedCorrect == BothSpec => []RanksOrdered
<1>1. GammaInv => RanksOrdered
  <2> SUFFICES ASSUME GammaInv PROVE RanksOrdered
    OBVIOUS
  <2>1. PICK at, start : Trail(at, start) /\ AtEnd(at, start) /\ (OnTrail(at, start) \/ Beyond)
    BY DEF GammaInv
  <2>2. Len(sent) \in Nat /\ Len(decoded) \in Nat
    BY DEF GammaInv, GammaTypes
  <2>3. Ranked(enc)
    BY <2>1, <2>2 DEF Trail, AtEnd
  <2>4. Ranked(dec)
    BY <2>1, <2>2 DEF Trail, OnTrail, Beyond
  <2> QED BY <2>3, <2>4 DEF RanksOrdered, Ranked, Falls
<1> QED BY <1>1, GammaInvAlways, PTL

\* Of an archive that does not end where a buffer does, the gamma decoder gets
\* what was encoded, in order, and all of it when it stops.
THEOREM ReversibleInsideCorrect == BothSpec => []ReversibleInside
<1>1. GammaInv => ReversibleInside
  <2> SUFFICES ASSUME GammaInv, closed, Len(bits) % SIZE # 0 PROVE Reversible
    BY DEF ReversibleInside
  <2>1. PICK at, start : OnTrail(at, start)
    BY DEF GammaInv, Beyond
  <2>2. sent \in Seq(Symbol) /\ decoded \in Seq(Symbol)
    BY DEF GammaInv, GammaTypes
  <2>3. Len(decoded) <= Len(sent) /\ \A k \in 1 .. Len(decoded) : decoded[k] = sent[k]
    BY <2>1 DEF OnTrail
  <2>4. IsPrefix(decoded, sent)
    <3>1. SubSeq(decoded, 1, Len(decoded)) = SubSeq(sent, 1, Len(decoded))
      BY <2>2, <2>3
    <3> QED BY <2>3, <3>1 DEF IsPrefix
  <2>5. ASSUME pc = "done" PROVE decoded = sent
    <3>1. Len(decoded) = Len(sent)
      BY <2>1, <2>5 DEF OnTrail
    <3> QED BY <2>2, <2>3, <3>1
  <2> QED BY <2>4, <2>5 DEF Reversible
<1> QED BY <1>1, GammaInvAlways, PTL

-------------------------------------------------------------------------------
(* The registers of the arithmetic coder. *)

\* Induction up to a number, and down from it.
LEMMA StepsUp ==
  ASSUME NEW N \in Nat, NEW T, 0 \in T, \A n \in 1 .. N : n - 1 \in T => n \in T
  PROVE  \A n \in 0 .. N : n \in T
<1> DEFINE R == {n \in Nat : n <= N => n \in T}
<1>1. 0 \in R
  OBVIOUS
<1>2. ASSUME NEW n \in R PROVE n + 1 \in R
  <2>1. CASE n + 1 <= N
    <3>1. n + 1 \in 1 .. N /\ (n + 1) - 1 = n /\ n \in T
      BY <2>1
    <3>2. n + 1 \in T
      BY <3>1
    <3> QED BY <3>2
  <2> QED BY <2>1
<1> HIDE DEF R
<1>3. R = Nat
  BY <1>1, <1>2, NatSetInduction DEF R
<1>4. \A n \in 0 .. N : n \in Nat /\ n <= N
  OBVIOUS
<1> QED BY <1>3, <1>4 DEF R

LEMMA StepsDown ==
  ASSUME NEW N \in Nat, NEW T, N \in T, \A n \in 1 .. N : n \in T => n - 1 \in T
  PROVE  \A n \in 0 .. N : n \in T
<1> DEFINE R == {n \in 0 .. N : N - n \in T}
<1>1. 0 \in R
  OBVIOUS
<1>2. ASSUME NEW n \in 1 .. N, n - 1 \in R PROVE n \in R
  <2>1. N - (n - 1) \in T /\ N - (n - 1) \in 1 .. N /\ (N - (n - 1)) - 1 = N - n
    BY <1>2
  <2>2. N - n \in T
    BY <2>1
  <2> QED BY <2>2
<1> HIDE DEF R
<1>3. \A n \in 0 .. N : n \in R
  BY <1>1, <1>2, StepsUp
<1>4. ASSUME NEW n \in 0 .. N PROVE n \in T
  <2>1. N - n \in 0 .. N /\ N - (N - n) = n
    OBVIOUS
  <2>2. N - n \in R
    BY <1>3, <2>1
  <2> QED BY <2>1, <2>2 DEF R
<1> QED BY <1>4

\* A quotient by its bounds.
LEMMA Quotient ==
  ASSUME NEW k \in Nat \ {0}, NEW x \in Nat
  PROVE  /\ x \div k \in Nat
         /\ x < k => x \div k = 0
         /\ k <= x /\ x < 2 * k => x \div k = 1
         /\ 2 * k <= x /\ x < 3 * k => x \div k = 2
         /\ 3 * k <= x /\ x < 4 * k => x \div k = 3
OBVIOUS

LEMMA Remainder ==
  ASSUME NEW k \in Nat \ {0}, NEW x \in Nat
  PROVE  /\ x % k \in 0 .. k - 1
         /\ x < k => x % k = x
         /\ k <= x /\ x < 2 * k => x % k = x - k
OBVIOUS

LEMMA PowerUnfold ==
  /\ power[0] = 1
  /\ \A n \in 1 .. FRACTION_BITS + 1 : power[n] = 2 * power[n - 1]
  /\ \A n \in 0 .. FRACTION_BITS + 1 : power[n] \in Nat \ {0}
<1> USE ArithmeticAssumption
<1> DEFINE N == FRACTION_BITS + 1
           E(f) == [n \in 0 .. N |-> IF n = 0 THEN 1 ELSE 2 * f[n - 1]]
           G == [n \in Nat |-> [x \in Nat |-> 2 * x]]
<1>n. N \in Nat
  OBVIOUS
<1>1. G \in [Nat -> [Nat -> Nat]]
  OBVIOUS
<1>2. RecursiveOn(Nat, 1, G, N)
  <2> HIDE DEF G, N
  <2> QED BY <1>1, <1>n, IntervalRecursion
<1>3. PICK f \in [0 .. N -> Nat] : f[0] = 1 /\ \A n \in 1 .. N : f[n] = G[n][f[n - 1]]
  <2> HIDE DEF G, N
  <2> QED BY <1>2 DEF RecursiveOn
<1>4. \A n \in 1 .. N : f[n] = 2 * f[n - 1]
  <2>1. \A n \in 1 .. N : n \in Nat /\ f[n - 1] \in Nat
    OBVIOUS
  <2> QED BY <1>3, <2>1
<1>5. f = E(f)
  <2>1. \A n \in 0 .. N : n = 0 \/ n \in 1 .. N
    BY <1>n
  <2> HIDE DEF N
  <2>2. \A n \in 0 .. N : f[n] = IF n = 0 THEN 1 ELSE 2 * f[n - 1]
    BY <1>3, <1>4, <2>1
  <2>3. f = [n \in 0 .. N |-> f[n]]
    OBVIOUS
  <2> QED BY <2>2, <2>3
<1>6. power = CHOOSE g : g = E(g)
  BY DEF power
<1>7. power = E(power)
  <2> HIDE DEF E
  <2> QED BY <1>5, <1>6
<1>8. power[0] = 1 /\ \A n \in 1 .. N : power[n] = 2 * power[n - 1]
  <2>1. \A n \in 0 .. N : power[n] = E(power)[n]
    BY <1>7
  <2> QED BY <2>1
<1> DEFINE T == {n \in Nat : n <= N => power[n] \in Nat \ {0}}
<1>9. 0 \in T
  BY <1>8
<1>10. ASSUME NEW n \in T PROVE n + 1 \in T
  <2>1. CASE n + 1 <= N
    <3>1. n + 1 \in 1 .. N /\ (n + 1) - 1 = n /\ power[n] \in Nat \ {0}
      BY <2>1
    <3>2. power[n + 1] = 2 * power[n]
      BY <1>8, <3>1
    <3> QED BY <3>1, <3>2
  <2> QED BY <2>1
<1> HIDE DEF T
<1>11. T = Nat
  BY <1>9, <1>10, NatSetInduction DEF T
<1>12. \A n \in 0 .. N : power[n] \in Nat \ {0}
  BY <1>11 DEF T
<1> QED BY <1>8, <1>12

\* The masks, as multiples of one another.
LEMMA Masks ==
  /\ SECOND_TOP_BIT_MASK \in Nat \ {0}
  /\ TOP_BIT_MASK = 2 * SECOND_TOP_BIT_MASK
  /\ UINT_MAX = 4 * SECOND_TOP_BIT_MASK - 1
  /\ MAXIMUM = SECOND_TOP_BIT_MASK - 1
<1> USE ArithmeticAssumption
<1> DEFINE F == FRACTION_BITS
<1>1. F \in 1 .. F + 1 /\ F - 1 \in 1 .. F + 1 /\ F - 2 \in 0 .. F + 1 /\ (F - 1) - 1 = F - 2
  OBVIOUS
<1>2. power[F - 2] \in Nat \ {0} /\ power[F - 1] = 2 * power[F - 2] /\ power[F] = 2 * power[F - 1]
  BY <1>1, PowerUnfold
<1>3. power[F] = 4 * power[F - 2] /\ power[F] - 1 \in Nat
  BY <1>2
<1>4. \A q \in Nat \ {0} : (4 * q - 1) \div 4 = q - 1
  OBVIOUS
<1> QED BY <1>2, <1>3, <1>4 DEF UINT_MAX, MAXIMUM, TOP_BIT_MASK, SECOND_TOP_BIT_MASK

LEMMA LoopUnfold ==
  ASSUME NEW turn \in [Registers -> Registers], NEW r \in Registers
  PROVE  \E after \in [0 .. FRACTION_BITS -> Registers] :
           /\ after[0] = r
           /\ \A n \in 1 .. FRACTION_BITS : after[n] = turn[after[n - 1]]
           /\ Loop(turn, r) = after[FRACTION_BITS]
<1> USE ArithmeticAssumption
<1> DEFINE E(f) == [n \in 0 .. FRACTION_BITS |-> IF n = 0 THEN r ELSE turn[f[n - 1]]]
           G == [n \in Nat |-> turn]
           c == CHOOSE f : f = E(f)
<1>1. G \in [Nat -> [Registers -> Registers]]
  OBVIOUS
<1>2. RecursiveOn(Registers, r, G, FRACTION_BITS)
  <2>1. FRACTION_BITS \in Nat
    OBVIOUS
  <2> HIDE DEF G
  <2> QED BY <1>1, <2>1, IntervalRecursion
<1>3. PICK f \in [0 .. FRACTION_BITS -> Registers] :
        f[0] = r /\ \A n \in 1 .. FRACTION_BITS : f[n] = G[n][f[n - 1]]
  <2> HIDE DEF G
  <2> QED BY <1>2 DEF RecursiveOn
<1>4. \A n \in 1 .. FRACTION_BITS : f[n] = turn[f[n - 1]]
  <2>1. \A n \in 1 .. FRACTION_BITS : n \in Nat
    OBVIOUS
  <2> QED BY <1>3, <2>1
<1>5. f = E(f)
  <2>1. \A n \in 0 .. FRACTION_BITS : f[n] = E(f)[n]
    BY <1>3, <1>4
  <2>2. f = [n \in 0 .. FRACTION_BITS |-> f[n]]
    OBVIOUS
  <2> QED BY <2>1, <2>2
<1>6. c = E(c)
  <2> HIDE DEF E
  <2> QED BY <1>5
<1>7. Loop(turn, r) = c[FRACTION_BITS]
  BY DEF Loop
<1> HIDE DEF c
<1>8. c[0] = r /\ \A n \in 1 .. FRACTION_BITS : c[n] = turn[c[n - 1]]
  <2>1. \A n \in 0 .. FRACTION_BITS : c[n] = E(c)[n]
    BY <1>6
  <2> QED BY <2>1
<1>9. \A n \in 0 .. FRACTION_BITS : c[n] \in Registers
  <2> DEFINE T == {n \in Nat : n <= FRACTION_BITS => c[n] \in Registers}
  <2>1. 0 \in T
    BY <1>8
  <2>2. ASSUME NEW n \in T PROVE n + 1 \in T
    <3>1. CASE n + 1 <= FRACTION_BITS
      <4>1. n + 1 \in 1 .. FRACTION_BITS /\ (n + 1) - 1 = n /\ c[n] \in Registers
        BY <3>1
      <4>2. c[n + 1] = turn[c[n]]
        BY <1>8, <4>1
      <4> QED BY <4>1, <4>2
    <3> QED BY <3>1
  <2> HIDE DEF T
  <2>3. T = Nat
    BY <2>1, <2>2, NatSetInduction DEF T
  <2> QED BY <2>3 DEF T
<1>10. c \in [0 .. FRACTION_BITS -> Registers]
  <2>1. c = [n \in 0 .. FRACTION_BITS |-> c[n]]
    BY <1>6
  <2> QED BY <1>9, <2>1
<1> QED BY <1>7, <1>8, <1>10

\* A quarter of what a register holds.
Quarter == SECOND_TOP_BIT_MASK

\* Words by their first two bits.
LEMMA Halves ==
  ASSUME NEW x \in Word
  PROVE  /\ TopBit(x) = IF x < 2 * Quarter THEN 0 ELSE 1
         /\ SecondBit(x) = 1 <=> (Quarter <= x /\ x < 2 * Quarter) \/ 3 * Quarter <= x
         /\ SecondBit(x) = 0 <=> x < Quarter \/ (2 * Quarter <= x /\ x < 3 * Quarter)
<1>1. Quarter \in Nat \ {0} /\ TOP_BIT_MASK = 2 * Quarter /\ UINT_MAX = 4 * Quarter - 1
  BY Masks DEF Quarter
<1>2. x \in Nat /\ x < 4 * Quarter /\ 2 * Quarter \in Nat \ {0}
  BY <1>1 DEF Word
<1>3. TopBit(x) = x \div (2 * Quarter) /\ SecondBit(x) = (x \div Quarter) % 2
  BY <1>1 DEF TopBit, SecondBit, Quarter
<1> HIDE DEF Quarter
<1>4. /\ x < 2 * Quarter => x \div (2 * Quarter) = 0
      /\ 2 * Quarter <= x => x \div (2 * Quarter) = 1
  <2>1. x < 2 * (2 * Quarter)
    BY <1>1, <1>2
  <2> QED BY <1>2, <2>1, Quotient
<1>5. /\ x < Quarter => (x \div Quarter) % 2 = 0
      /\ Quarter <= x /\ x < 2 * Quarter => (x \div Quarter) % 2 = 1
      /\ 2 * Quarter <= x /\ x < 3 * Quarter => (x \div Quarter) % 2 = 0
      /\ 3 * Quarter <= x => (x \div Quarter) % 2 = 1
  <2>1. 0 % 2 = 0 /\ 1 % 2 = 1 /\ 2 % 2 = 0 /\ 3 % 2 = 1
    OBVIOUS
  <2>2. /\ x < Quarter => x \div Quarter = 0
        /\ Quarter <= x /\ x < 2 * Quarter => x \div Quarter = 1
        /\ 2 * Quarter <= x /\ x < 3 * Quarter => x \div Quarter = 2
        /\ 3 * Quarter <= x => x \div Quarter = 3
    BY <1>1, <1>2, Quotient
  <2> QED BY <2>1, <2>2
<1>6. TopBit(x) = IF x < 2 * Quarter THEN 0 ELSE 1
  BY <1>1, <1>2, <1>3, <1>4
<1>7. x < Quarter \/ (Quarter <= x /\ x < 2 * Quarter) \/ (2 * Quarter <= x /\ x < 3 * Quarter) \/ 3 * Quarter <= x
  BY <1>1, <1>2
<1> QED BY <1>1, <1>2, <1>3, <1>5, <1>6, <1>7

\* What is left of a number in a register it is one bit too long for.
LEMMA WordIs ==
  ASSUME NEW x \in Nat, x < 8 * Quarter
  PROVE  word(x) \in Word /\ word(x) = IF x < 4 * Quarter THEN x ELSE x - 4 * Quarter
<1>1. Quarter \in Nat \ {0} /\ UINT_MAX + 1 = 4 * Quarter /\ UINT_MAX = 4 * Quarter - 1
  BY Masks DEF Quarter
<1> DEFINE k == 4 * Quarter
<1>2. word(x) = x % k /\ Word = 0 .. k - 1
  BY <1>1 DEF word, Word
<1>3. k \in Nat \ {0} /\ x < 2 * k
  BY <1>1
<1> HIDE DEF k, Quarter
<1>4. x % k \in 0 .. k - 1 /\ (x < k => x % k = x) /\ (k <= x => x % k = x - k)
  BY <1>3, Remainder
<1>5. word(x) \in Word /\ word(x) = IF x < k THEN x ELSE x - k
  BY <1>2, <1>3, <1>4
<1> QED BY <1>5 DEF k

\* A register shifted by one place.
LEMMA Doubled ==
  ASSUME NEW x \in Word
  PROVE  /\ word(2 * x) \in Word /\ word(2 * x + 1) \in Word
         /\ word(2 * x) = IF x < 2 * Quarter THEN 2 * x ELSE 2 * x - 4 * Quarter
         /\ word(2 * x + 1) = IF x < 2 * Quarter THEN 2 * x + 1 ELSE 2 * x + 1 - 4 * Quarter
<1>1. Quarter \in Nat \ {0} /\ UINT_MAX = 4 * Quarter - 1
  BY Masks DEF Quarter
<1>2. x \in Nat /\ x < 4 * Quarter
  BY <1>1 DEF Word
<1> HIDE DEF Quarter
<1>3. 2 * x \in Nat /\ 2 * x + 1 \in Nat /\ 2 * x < 8 * Quarter /\ 2 * x + 1 < 8 * Quarter
  BY <1>1, <1>2
<1>4. word(2 * x) \in Word /\ word(2 * x) = IF 2 * x < 4 * Quarter THEN 2 * x ELSE 2 * x - 4 * Quarter
  BY <1>3, WordIs
<1>5. word(2 * x + 1) \in Word /\ word(2 * x + 1) = IF 2 * x + 1 < 4 * Quarter THEN 2 * x + 1 ELSE 2 * x + 1 - 4 * Quarter
  <2>1. \A y \in Nat : y < 8 * Quarter => word(y) \in Word /\ word(y) = IF y < 4 * Quarter THEN y ELSE y - 4 * Quarter
    BY WordIs
  <2> DEFINE y == 2 * x + 1
  <2>2. y \in Nat /\ y < 8 * Quarter
    BY <1>3
  <2> HIDE DEF y
  <2>3. word(y) \in Word /\ word(y) = IF y < 4 * Quarter THEN y ELSE y - 4 * Quarter
    BY <2>1, <2>2
  <2>4. y = 2 * x + 1
    BY DEF y
  <2> QED BY <1>1, <1>2, <1>3, <2>2, <2>3, <2>4, SMT
<1>6. (2 * x < 4 * Quarter <=> x < 2 * Quarter) /\ (2 * x + 1 < 4 * Quarter <=> x < 2 * Quarter)
  BY <1>1, <1>2
<1> QED BY <1>4, <1>5, <1>6

\* A turn of the first loop takes the bit off that low and high agree on.
LEMMA ShiftIs ==
  ASSUME NEW r \in Registers, Agree(r), r.low < r.high
  PROVE  /\ TopBit(r.low) \in {0, 1} /\ Shift(r).low \in Word /\ Shift(r).high \in Word
         /\ Shift(r).low = 2 * r.low - TopBit(r.low) * (4 * Quarter)
         /\ Shift(r).high = 2 * r.high + 1 - TopBit(r.low) * (4 * Quarter)
<1>1. r.low \in Word /\ r.high \in Word /\ TopBit(r.low) = TopBit(r.high)
  BY DEF Registers, Agree
<1>2. Shift(r).low = word(2 * r.low) /\ Shift(r).high = word(2 * r.high + 1)
  BY DEF Shift, Registers
<1>3. Quarter \in Nat \ {0}
  BY Masks DEF Quarter
<1>4. TopBit(r.low) = IF r.low < 2 * Quarter THEN 0 ELSE 1
  BY <1>1, Halves
<1>5. TopBit(r.high) = IF r.high < 2 * Quarter THEN 0 ELSE 1
  BY <1>1, Halves
<1>6. word(2 * r.low) \in Word /\ word(2 * r.low) = IF r.low < 2 * Quarter THEN 2 * r.low ELSE 2 * r.low - 4 * Quarter
  BY <1>1, Doubled
<1>7. word(2 * r.high + 1) \in Word
      /\ word(2 * r.high + 1) = IF r.high < 2 * Quarter THEN 2 * r.high + 1 ELSE 2 * r.high + 1 - 4 * Quarter
  BY <1>1, Doubled
<1>8. r.low \in Nat /\ r.high \in Nat
  BY <1>1 DEF Word
<1> HIDE DEF Quarter
<1>9. CASE r.low < 2 * Quarter
  <2>1. TopBit(r.low) = 0 /\ TopBit(r.high) = 0 /\ r.high < 2 * Quarter
    <3>1. TopBit(r.low) = 0 /\ TopBit(r.high) = 0
      BY <1>1, <1>4, <1>9
    <3> QED BY <1>5, <3>1
  <2>2. 0 * (4 * Quarter) = 0
    BY <1>3
  <2> QED BY <1>2, <1>6, <1>7, <1>8, <1>9, <2>1, <2>2
<1>10. CASE ~ (r.low < 2 * Quarter)
  <2>1. TopBit(r.low) = 1 /\ TopBit(r.high) = 1 /\ ~ (r.high < 2 * Quarter)
    BY <1>1, <1>3, <1>4, <1>5, <1>8, <1>10
  <2>2. 1 * (4 * Quarter) = 4 * Quarter
    BY <1>3
  <2> QED BY <1>2, <1>6, <1>7, <1>8, <1>10, <2>1, <2>2
<1> QED BY <1>9, <1>10

\* When they do not agree the middle is between them.
LEMMA Parted ==
  ASSUME NEW r \in Registers, ~ Agree(r), r.low < r.high
  PROVE  r.low < 2 * Quarter /\ 2 * Quarter <= r.high
<1>1. r.low \in Word /\ r.high \in Word /\ TopBit(r.low) # TopBit(r.high)
  BY DEF Registers, Agree
<1>2. TopBit(r.low) = IF r.low < 2 * Quarter THEN 0 ELSE 1
  BY <1>1, Halves
<1>3. TopBit(r.high) = IF r.high < 2 * Quarter THEN 0 ELSE 1
  BY <1>1, Halves
<1>4. r.low \in Nat /\ r.high \in Nat /\ Quarter \in Nat
  BY <1>1, Masks DEF Word, Quarter
<1> HIDE DEF Quarter
<1> QED BY <1>1, <1>2, <1>3, <1>4

\* A turn of the second loop doubles the interval about the middle.
LEMMA SpreadIs ==
  ASSUME NEW r \in Registers, Straddle(r), r.low < 2 * Quarter, 2 * Quarter <= r.high
  PROVE  /\ Spread(r).low = 2 * r.low - 2 * Quarter /\ Spread(r).high = 2 * r.high + 1 - 2 * Quarter
         /\ Spread(r).low \in Word /\ Spread(r).high \in Word
         /\ Spread(r).low < 2 * Quarter /\ 2 * Quarter <= Spread(r).high
<1>1. r.low \in Word /\ r.high \in Word /\ SecondBit(r.low) = 1 /\ SecondBit(r.high) = 0
  BY DEF Registers, Straddle
<1>2. Spread(r).low = word(2 * r.low) - TOP_BIT_MASK /\ Spread(r).high = word(2 * r.high + 1) + TOP_BIT_MASK
  BY DEF Spread, Registers
<1>3. Quarter \in Nat \ {0} /\ TOP_BIT_MASK = 2 * Quarter /\ UINT_MAX = 4 * Quarter - 1
  BY Masks DEF Quarter
<1>4. r.low \in Nat /\ r.high \in Nat
  BY <1>1 DEF Word
<1>5. (Quarter <= r.low /\ r.low < 2 * Quarter) \/ 3 * Quarter <= r.low
  BY <1>1, Halves
<1>6. r.high < Quarter \/ (2 * Quarter <= r.high /\ r.high < 3 * Quarter)
  BY <1>1, Halves
<1>7. word(2 * r.low) = 2 * r.low
  BY <1>1, Doubled
<1>8. word(2 * r.high + 1) = 2 * r.high + 1 - 4 * Quarter
  <2>1. ~ (r.high < 2 * Quarter)
    BY <1>3, <1>4
  <2> QED BY <1>1, <2>1, Doubled
<1> HIDE DEF Quarter
<1> QED BY <1>2, <1>3, <1>4, <1>5, <1>6, <1>7, <1>8 DEF Word

\* When it has ended the interval is wider than any sum of frequencies.
LEMMA Wide ==
  ASSUME NEW r \in Registers, ~ Straddle(r), r.low < 2 * Quarter, 2 * Quarter <= r.high
  PROVE  r.high - r.low > MAXIMUM
<1>1. r.low \in Word /\ r.high \in Word /\ (SecondBit(r.low) # 1 \/ SecondBit(r.high) # 0)
  BY DEF Registers, Straddle
<1>2. Quarter \in Nat \ {0} /\ MAXIMUM = Quarter - 1
  BY Masks DEF Quarter
<1>3. r.low \in Nat /\ r.high \in Nat
  BY <1>1 DEF Word
<1>4. SecondBit(r.low) = 1 <=> (Quarter <= r.low /\ r.low < 2 * Quarter) \/ 3 * Quarter <= r.low
  BY <1>1, Halves
<1>5. SecondBit(r.high) = 0 <=> r.high < Quarter \/ (2 * Quarter <= r.high /\ r.high < 3 * Quarter)
  BY <1>1, Halves
<1> HIDE DEF Quarter
<1>6. r.low < Quarter \/ 3 * Quarter <= r.high
  BY <1>1, <1>2, <1>3, <1>4, <1>5
<1> QED BY <1>2, <1>3, <1>6

\* The turns are functions on registers.
LEMMA TurnTypes ==
  /\ write_bits \in [Registers -> Registers]
  /\ put_off \in [Registers -> Registers]
  /\ \A r \in Registers : TopBit(r.low) \in {0, 1}
  /\ \A r \in Registers : Shift(r) \in Registers /\ (Straddle(r) => Spread(r) \in Registers)
<1>s. Quarter \in Nat \ {0} /\ TOP_BIT_MASK = 2 * Quarter /\ UINT_MAX = 4 * Quarter - 1
  BY Masks DEF Quarter
<1>1. ASSUME NEW r \in Registers PROVE TopBit(r.low) \in {0, 1}
  BY <1>1, Halves DEF Registers
<1>2. ASSUME NEW r \in Registers PROVE Shift(r) \in Registers
  <2>1. r.low \in Word /\ r.high \in Word
    BY <1>2 DEF Registers
  <2>2. word(2 * r.low) \in Word /\ word(2 * r.high + 1) \in Word
    BY <2>1, Doubled
  <2> QED BY <1>2, <2>2 DEF Shift, Registers
<1>3. ASSUME NEW r \in Registers, Straddle(r) PROVE Spread(r) \in Registers
  <2>1. r.low \in Word /\ r.high \in Word /\ SecondBit(r.low) = 1 /\ SecondBit(r.high) = 0
    BY <1>3 DEF Registers, Straddle
  <2>2. (Quarter <= r.low /\ r.low < 2 * Quarter) \/ 3 * Quarter <= r.low
    BY <2>1, Halves
  <2>3. r.high < Quarter \/ (2 * Quarter <= r.high /\ r.high < 3 * Quarter)
    BY <2>1, Halves
  <2>4. word(2 * r.low) = IF r.low < 2 * Quarter THEN 2 * r.low ELSE 2 * r.low - 4 * Quarter
    BY <2>1, Doubled
  <2>5. word(2 * r.high + 1) = IF r.high < 2 * Quarter THEN 2 * r.high + 1 ELSE 2 * r.high + 1 - 4 * Quarter
    BY <2>1, Doubled
  <2>6. r.low \in 0 .. 4 * Quarter - 1 /\ r.high \in 0 .. 4 * Quarter - 1
    BY <1>s, <2>1 DEF Word
  <2>7. word(2 * r.low) - 2 * Quarter \in 0 .. 4 * Quarter - 1 /\ word(2 * r.high + 1) + 2 * Quarter \in 0 .. 4 * Quarter - 1
    <3> HIDE DEF Quarter
    <3>1. word(2 * r.low) - 2 * Quarter \in 0 .. 4 * Quarter - 1
      BY <1>s, <2>2, <2>4, <2>6
    <3>2. word(2 * r.high + 1) + 2 * Quarter \in 0 .. 4 * Quarter - 1
      BY <1>s, <2>3, <2>5, <2>6
    <3> QED BY <3>1, <3>2
  <2>8. word(2 * r.low) - TOP_BIT_MASK \in Word /\ word(2 * r.high + 1) + TOP_BIT_MASK \in Word
    BY <1>s, <2>7 DEF Word
  <2> QED BY <1>3, <2>8 DEF Spread, Registers
<1>4. ASSUME NEW r \in Registers PROVE WriteBit(r) \in Registers
  <2> DEFINE bit == TopBit(r.low)
             out == Append(Shift(r).out, bit) \o [j \in 1 .. r.underflow |-> 1 - bit]
  <2>1. bit \in {0, 1} /\ Shift(r) \in Registers /\ r.underflow \in Nat
    BY <1>1, <1>2, <1>4 DEF Registers
  <2> HIDE DEF bit
  <2>2. out \in Seq({0, 1})
    <3>1. [j \in 1 .. r.underflow |-> 1 - bit] \in [1 .. r.underflow -> {0, 1}]
      BY <2>1
    <3>2. [j \in 1 .. r.underflow |-> 1 - bit] \in Seq({0, 1})
      BY <2>1, <3>1
    <3>3. Shift(r).out \in Seq({0, 1})
      BY <2>1 DEF Registers
    <3>4. Append(Shift(r).out, bit) \in Seq({0, 1})
      BY <2>1, <3>3
    <3> QED BY <3>2, <3>4, ConcatProperties
  <2>3. WriteBit(r) = [Shift(r) EXCEPT !.out = out, !.underflow = 0]
    BY DEF WriteBit, bit
  <2> HIDE DEF out
  <2>4. [Shift(r) EXCEPT !.out = out, !.underflow = 0] \in Registers
    BY <2>1, <2>2 DEF Registers
  <2> QED BY <2>3, <2>4
<1>5. ASSUME NEW r \in Registers, Straddle(r) PROVE PutOff(r) \in Registers
  <2>1. Spread(r) \in Registers
    BY <1>3, <1>5
  <2> QED BY <2>1 DEF PutOff, Registers
<1>6. write_bits \in [Registers -> Registers]
  BY <1>4 DEF write_bits
<1>7. put_off \in [Registers -> Registers]
  BY <1>5 DEF put_off
<1> QED BY <1>1, <1>2, <1>3, <1>6, <1>7

\* The registers of the encoder between two turns of the first loop.
Apart(r) == r \in Registers /\ r.low < r.high
\* Between two of the second.
About(r) == r \in Registers /\ r.low < 2 * Quarter /\ 2 * Quarter <= r.high
\* And when it has ended.
Ready(r) == About(r) /\ r.high - r.low > MAXIMUM

LEMMA RegisterRanges ==
  ASSUME NEW r \in Registers
  PROVE  /\ r.low \in Word /\ r.high \in Word /\ r.underflow \in Nat /\ r.code \in Int
         /\ r.out \in Seq({0, 1}) /\ r.pos \in Nat
         /\ r.low \in Nat /\ r.high \in Nat /\ r.high <= UINT_MAX /\ r.low <= UINT_MAX
<1>1. r.low \in Word /\ r.high \in Word /\ r.underflow \in Nat /\ r.code \in Int
      /\ r.out \in Seq({0, 1}) /\ r.pos \in Nat
  BY DEF Registers
<1>2. UINT_MAX \in Nat
  BY Masks
<1> QED BY <1>1, <1>2 DEF Word

\* A turn of the first loop: the width grows to twice its own and one.
LEMMA WriteTurn ==
  ASSUME NEW r, Apart(r), Agree(r)
  PROVE  /\ Apart(WriteBit(r))
         /\ WriteBit(r).low = Shift(r).low /\ WriteBit(r).high = Shift(r).high
         /\ WriteBit(r).underflow = 0 /\ WriteBit(r).code = r.code /\ WriteBit(r).pos = r.pos
         /\ WriteBit(r).out = Append(r.out, TopBit(r.low)) \o [j \in 1 .. r.underflow |-> 1 - TopBit(r.low)]
         /\ WriteBit(r).high - WriteBit(r).low = 2 * (r.high - r.low) + 1
<1> DEFINE w == WriteBit(r)
           b == TopBit(r.low)
           out == Append(Shift(r).out, b) \o [j \in 1 .. r.underflow |-> 1 - b]
<1>1. r \in Registers /\ r.low < r.high /\ w \in Registers /\ Shift(r) \in Registers
  <2>1. r \in Registers /\ r.low < r.high
    BY DEF Apart
  <2>2. write_bits[r] = w /\ write_bits[r] \in Registers /\ Shift(r) \in Registers
    BY <2>1, TurnTypes DEF write_bits
  <2> QED BY <2>1, <2>2
<1>2. w = [Shift(r) EXCEPT !.out = out, !.underflow = 0]
  BY DEF WriteBit
<1>3. Shift(r).out = r.out /\ Shift(r).code = r.code /\ Shift(r).pos = r.pos
  BY <1>1 DEF Shift, Registers
<1> HIDE DEF b
<1>4. w.low = Shift(r).low /\ w.high = Shift(r).high /\ w.underflow = 0 /\ w.code = r.code /\ w.pos = r.pos /\ w.out = out
  <2> HIDE DEF out, w
  <2> QED BY <1>1, <1>2, <1>3 DEF Registers
<1>5. out = Append(r.out, b) \o [j \in 1 .. r.underflow |-> 1 - b]
  BY <1>3
<1>6. /\ Shift(r).low \in Word /\ Shift(r).high \in Word
      /\ Shift(r).low = 2 * r.low - b * (4 * Quarter)
      /\ Shift(r).high = 2 * r.high + 1 - b * (4 * Quarter)
  BY <1>1, ShiftIs DEF b
<1>7. r.low \in Nat /\ r.high \in Nat /\ Quarter \in Nat /\ b \in {0, 1}
  <2>1. Quarter \in Nat
    BY Masks DEF Quarter
  <2>2. b \in {0, 1}
    BY <1>1, TurnTypes DEF b
  <2> QED BY <1>1, <2>1, <2>2, RegisterRanges
<1> DEFINE c == b * (4 * Quarter)
<1>8. c \in Int
  <2> HIDE DEF Quarter
  <2> QED BY <1>7
<1> HIDE DEF c, w, out
<1>9. w.high - w.low = 2 * (r.high - r.low) + 1 /\ w.low < w.high
  <2>1. w.low = 2 * r.low - c /\ w.high = 2 * r.high + 1 - c
    BY <1>4, <1>6 DEF c
  <2> QED BY <1>1, <1>7, <1>8, <2>1
<1>10. w.out = Append(r.out, b) \o [j \in 1 .. r.underflow |-> 1 - b]
  BY <1>4, <1>5
<1> QED BY <1>1, <1>4, <1>9, <1>10 DEF Apart, w, b

LEMMA PutOffTurn ==
  ASSUME NEW r, About(r), Straddle(r)
  PROVE  /\ About(PutOff(r))
         /\ PutOff(r).low = Spread(r).low /\ PutOff(r).high = Spread(r).high
         /\ PutOff(r).underflow = r.underflow + 1 /\ PutOff(r).code = r.code /\ PutOff(r).pos = r.pos
         /\ PutOff(r).out = r.out
         /\ PutOff(r).high - PutOff(r).low = 2 * (r.high - r.low) + 1
<1> DEFINE w == PutOff(r)
<1>1. r \in Registers /\ r.low < 2 * Quarter /\ 2 * Quarter <= r.high /\ w \in Registers /\ Spread(r) \in Registers
  <2>1. r \in Registers /\ r.low < 2 * Quarter /\ 2 * Quarter <= r.high
    BY DEF About
  <2>2. put_off[r] = w /\ put_off[r] \in Registers /\ Spread(r) \in Registers
    BY <2>1, TurnTypes DEF put_off
  <2> QED BY <2>1, <2>2
<1>2. w = [Spread(r) EXCEPT !.underflow = @ + 1]
  BY DEF PutOff
<1>3. Spread(r).out = r.out /\ Spread(r).code = r.code /\ Spread(r).pos = r.pos /\ Spread(r).underflow = r.underflow
  BY <1>1 DEF Spread, Registers
<1>4. w.low = Spread(r).low /\ w.high = Spread(r).high /\ w.underflow = r.underflow + 1 /\ w.code = r.code /\ w.pos = r.pos /\ w.out = r.out
  <2> HIDE DEF w
  <2> QED BY <1>1, <1>2, <1>3 DEF Registers
<1>6. /\ Spread(r).low = 2 * r.low - 2 * Quarter /\ Spread(r).high = 2 * r.high + 1 - 2 * Quarter
      /\ Spread(r).low < 2 * Quarter /\ 2 * Quarter <= Spread(r).high
  BY <1>1, SpreadIs
<1>7. r.low \in Nat /\ r.high \in Nat /\ Quarter \in Nat
  BY <1>1, Masks DEF Registers, Word, Quarter
<1> HIDE DEF w, Quarter
<1>9. w.high - w.low = 2 * (r.high - r.low) + 1 /\ w.low < 2 * Quarter /\ 2 * Quarter <= w.high
  BY <1>4, <1>6, <1>7
<1> QED BY <1>1, <1>4, <1>9 DEF About, w

\* A width that doubles with each turn passes every word before the turns end.
LEMMA Doubling ==
  ASSUME NEW width, \A n \in 0 .. FRACTION_BITS : width[n] \in Nat,
         NEW go, \A n \in 1 .. FRACTION_BITS : go[n] => go[n - 1] /\ width[n] = 2 * width[n - 1] + 1,
         width[0] >= 1, go[FRACTION_BITS]
  PROVE  width[FRACTION_BITS] > UINT_MAX
<1> USE ArithmeticAssumption
<1> DEFINE F == FRACTION_BITS
           T == {n \in Nat : n <= F => (go[n] => width[n] + 1 >= power[n + 1])}
<1>1. 0 \in T
  <2>1. power[1] = 2 * power[0] /\ power[0] = 1
    <3>1. 1 \in 1 .. F + 1 /\ 1 - 1 = 0
      OBVIOUS
    <3> QED BY <3>1, PowerUnfold
  <2>2. width[0] \in Nat /\ 0 + 1 = 1
    OBVIOUS
  <2>3. width[0] + 1 >= 2
    BY <2>2
  <2>4. width[0] + 1 >= power[0 + 1]
    BY <2>1, <2>2, <2>3
  <2> QED BY <2>4
<1>2. ASSUME NEW n \in T PROVE n + 1 \in T
  <2> DEFINE m == n + 1
  <2>1. n \in Nat /\ m \in Nat /\ m - 1 = n
    OBVIOUS
  <2>2. ASSUME m <= F, go[m] PROVE width[m] + 1 >= power[m + 1]
    <3>1. n <= F /\ m \in 1 .. F /\ m + 1 \in 1 .. F + 1 /\ m \in 0 .. F + 1 /\ (m + 1) - 1 = m /\ n \in 0 .. F
      BY <2>1, <2>2
    <3>2. go[n] /\ width[m] = 2 * width[n] + 1
      BY <2>1, <2>2, <3>1
    <3>3. width[n] + 1 >= power[m]
      BY <3>1, <3>2
    <3>4. power[m + 1] = 2 * power[m] /\ power[m] \in Nat
      BY <3>1, PowerUnfold
    <3>5. width[n] \in Nat
      BY <3>1
    <3> HIDE DEF m
    <3> QED BY <3>2, <3>3, <3>4, <3>5
  <2> QED BY <2>1, <2>2
<1> HIDE DEF T
<1>3. T = Nat
  BY <1>1, <1>2, NatSetInduction DEF T
<1>4. width[F] + 1 >= power[F + 1]
  BY <1>3 DEF T
<1>5. F + 1 \in 1 .. F + 1 /\ (F + 1) - 1 = F /\ F \in 0 .. F + 1
  OBVIOUS
<1>6. power[F + 1] = 2 * power[F] /\ power[F] \in Nat \ {0}
  BY <1>5, PowerUnfold
<1>7. width[F] \in Nat
  OBVIOUS
<1> QED BY <1>4, <1>6, <1>7 DEF UINT_MAX

\* The first loop ends, and leaves low and high on both sides of the middle.
LEMMA WriteLoop ==
  ASSUME NEW r, Apart(r)
  PROVE  \E a \in [0 .. FRACTION_BITS -> Registers] :
           /\ a[0] = r /\ Loop(write_bits, r) = a[FRACTION_BITS]
           /\ \A n \in 1 .. FRACTION_BITS : a[n] = IF Agree(a[n - 1]) THEN WriteBit(a[n - 1]) ELSE a[n - 1]
           /\ \A n \in 0 .. FRACTION_BITS : Apart(a[n])
           /\ About(a[FRACTION_BITS])
<1> USE ArithmeticAssumption
<1> DEFINE F == FRACTION_BITS
<1>1. r \in Registers /\ F \in Nat
  BY DEF Apart
<1>2. PICK a \in [0 .. F -> Registers] :
        /\ a[0] = r /\ Loop(write_bits, r) = a[F]
        /\ \A n \in 1 .. F : a[n] = write_bits[a[n - 1]]
  BY <1>1, LoopUnfold, TurnTypes
<1>3. \A n \in 1 .. F : a[n - 1] \in Registers /\ a[n] = IF Agree(a[n - 1]) THEN WriteBit(a[n - 1]) ELSE a[n - 1]
  <2>1. \A n \in 1 .. F : a[n - 1] \in Registers
    BY <1>1
  <2> QED BY <1>2, <2>1 DEF write_bits
<1>4. \A n \in 0 .. F : Apart(a[n])
  <2> DEFINE T == {n \in Nat : n <= F => Apart(a[n])}
  <2>1. 0 \in T
    BY <1>2
  <2>2. ASSUME NEW n \in T PROVE n + 1 \in T
    <3>1. CASE n + 1 <= F
      <4>1. n + 1 \in 1 .. F /\ (n + 1) - 1 = n /\ Apart(a[n])
        BY <1>1, <3>1
      <4>2. a[n + 1] = IF Agree(a[n]) THEN WriteBit(a[n]) ELSE a[n]
        BY <1>3, <4>1
      <4>3. Apart(a[n + 1])
        BY <4>1, <4>2, WriteTurn
      <4> QED BY <4>3
    <3> QED BY <3>1
  <2> HIDE DEF T
  <2>3. T = Nat
    BY <2>1, <2>2, NatSetInduction DEF T
  <2> QED BY <2>3 DEF T
<1>5. ~ Agree(a[F])
  <2> DEFINE width == [n \in 0 .. F |-> a[n].high - a[n].low]
             go == [n \in 0 .. F |-> Agree(a[n])]
  <2>1. \A n \in 0 .. F : a[n].high \in Nat /\ a[n].low \in Nat /\ a[n].low < a[n].high /\ a[n].high <= UINT_MAX
    BY <1>4, RegisterRanges DEF Apart
  <2>2. \A n \in 0 .. F : width[n] \in Nat /\ width[n] >= 1
    BY <2>1
  <2>3. ASSUME NEW n \in 1 .. F, go[n] PROVE go[n - 1] /\ width[n] = 2 * width[n - 1] + 1
    <3>1. n - 1 \in 0 .. F /\ n \in 0 .. F
      OBVIOUS
    <3>2. Agree(a[n]) /\ Apart(a[n - 1])
      BY <1>4, <2>3, <3>1
    <3>3. Agree(a[n - 1])
      BY <1>3, <3>2
    <3>4. a[n] = WriteBit(a[n - 1])
      BY <1>3, <3>3
    <3>5. a[n].high - a[n].low = 2 * (a[n - 1].high - a[n - 1].low) + 1
      BY <3>2, <3>3, <3>4, WriteTurn
    <3> QED BY <3>1, <3>3, <3>5
  <2>4. F \in 0 .. F /\ 0 \in 0 .. F
    BY <1>1
  <2>5. width[F] <= UINT_MAX
    <3>1. UINT_MAX \in Nat
      BY Masks
    <3> QED BY <2>1, <2>4, <3>1
  <2>6. go[F] = Agree(a[F])
    BY <2>4
  <2> HIDE DEF width, go
  <2>7. width[0] >= 1
    BY <2>2, <2>4
  <2>8. go[F] => width[F] > UINT_MAX
    BY <2>2, <2>3, <2>7, Doubling
  <2>9. UINT_MAX \in Nat /\ width[F] \in Nat
    BY <2>2, <2>4, Masks
  <2> QED BY <2>5, <2>6, <2>8, <2>9
<1>6. About(a[F])
  <2>1. a[F] \in Registers /\ a[F].low < a[F].high
    BY <1>1, <1>4 DEF Apart
  <2> QED BY <1>5, <2>1, Parted DEF About
<1> QED BY <1>2, <1>3, <1>4, <1>6

\* The second loop ends, and leaves an interval wider than any sum.
LEMMA PutOffLoop ==
  ASSUME NEW r, About(r)
  PROVE  \E a \in [0 .. FRACTION_BITS -> Registers] :
           /\ a[0] = r /\ Loop(put_off, r) = a[FRACTION_BITS]
           /\ \A n \in 1 .. FRACTION_BITS : a[n] = IF Straddle(a[n - 1]) THEN PutOff(a[n - 1]) ELSE a[n - 1]
           /\ \A n \in 0 .. FRACTION_BITS : About(a[n])
           /\ Ready(a[FRACTION_BITS])
<1> USE ArithmeticAssumption
<1> DEFINE F == FRACTION_BITS
<1>1. r \in Registers /\ F \in Nat
  BY DEF About
<1>2. PICK a \in [0 .. F -> Registers] :
        /\ a[0] = r /\ Loop(put_off, r) = a[F]
        /\ \A n \in 1 .. F : a[n] = put_off[a[n - 1]]
  BY <1>1, LoopUnfold, TurnTypes
<1>3. \A n \in 1 .. F : a[n - 1] \in Registers /\ a[n] = IF Straddle(a[n - 1]) THEN PutOff(a[n - 1]) ELSE a[n - 1]
  <2>1. \A n \in 1 .. F : a[n - 1] \in Registers
    BY <1>1
  <2> QED BY <1>2, <2>1 DEF put_off
<1>4. \A n \in 0 .. F : About(a[n])
  <2> DEFINE T == {n \in Nat : n <= F => About(a[n])}
  <2>1. 0 \in T
    BY <1>2
  <2>2. ASSUME NEW n \in T PROVE n + 1 \in T
    <3>1. CASE n + 1 <= F
      <4>1. n + 1 \in 1 .. F /\ (n + 1) - 1 = n /\ About(a[n])
        BY <1>1, <3>1
      <4>2. a[n + 1] = IF Straddle(a[n]) THEN PutOff(a[n]) ELSE a[n]
        BY <1>3, <4>1
      <4>3. About(a[n + 1])
        BY <4>1, <4>2, PutOffTurn
      <4> QED BY <4>3
    <3> QED BY <3>1
  <2> HIDE DEF T
  <2>3. T = Nat
    BY <2>1, <2>2, NatSetInduction DEF T
  <2> QED BY <2>3 DEF T
<1>5. ~ Straddle(a[F])
  <2> DEFINE width == [n \in 0 .. F |-> a[n].high - a[n].low]
             go == [n \in 0 .. F |-> Straddle(a[n])]
  <2>0. Quarter \in Nat
    BY Masks DEF Quarter
  <2>1. \A n \in 0 .. F : a[n].high \in Nat /\ a[n].low \in Nat /\ a[n].low < a[n].high /\ a[n].high <= UINT_MAX
    <3>1. \A n \in 0 .. F : a[n].high \in Nat /\ a[n].low \in Nat /\ a[n].high <= UINT_MAX
      BY <1>4, RegisterRanges DEF About
    <3>2. \A n \in 0 .. F : a[n].low < 2 * Quarter /\ 2 * Quarter <= a[n].high
      BY <1>4 DEF About
    <3> HIDE DEF Quarter
    <3> QED BY <2>0, <3>1, <3>2
  <2>2. \A n \in 0 .. F : width[n] \in Nat /\ width[n] >= 1
    BY <2>1
  <2>3. ASSUME NEW n \in 1 .. F, go[n] PROVE go[n - 1] /\ width[n] = 2 * width[n - 1] + 1
    <3>1. n - 1 \in 0 .. F /\ n \in 0 .. F
      OBVIOUS
    <3>2. Straddle(a[n]) /\ About(a[n - 1])
      BY <1>4, <2>3, <3>1
    <3>3. Straddle(a[n - 1])
      BY <1>3, <3>2
    <3>4. a[n] = PutOff(a[n - 1])
      BY <1>3, <3>3
    <3>5. a[n].high - a[n].low = 2 * (a[n - 1].high - a[n - 1].low) + 1
      BY <3>2, <3>3, <3>4, PutOffTurn
    <3> QED BY <3>1, <3>3, <3>5
  <2>4. F \in 0 .. F /\ 0 \in 0 .. F
    BY <1>1
  <2>5. width[F] <= UINT_MAX
    <3>1. UINT_MAX \in Nat
      BY Masks
    <3> QED BY <2>1, <2>4, <3>1
  <2>6. go[F] = Straddle(a[F])
    BY <2>4
  <2> HIDE DEF width, go
  <2>7. width[0] >= 1
    BY <2>2, <2>4
  <2>8. go[F] => width[F] > UINT_MAX
    BY <2>2, <2>3, <2>7, Doubling
  <2>9. UINT_MAX \in Nat /\ width[F] \in Nat
    BY <2>2, <2>4, Masks
  <2> QED BY <2>5, <2>6, <2>8, <2>9
<1>6. Ready(a[F])
  <2>1. About(a[F])
    BY <1>1, <1>4
  <2> QED BY <1>5, <2>1, Wide DEF About, Ready
<1> QED BY <1>2, <1>3, <1>4, <1>6

-------------------------------------------------------------------------------
(* The distribution. *)

Distributions ==
  [cumulative : [Index -> Nat], frequencies : [Index -> Nat],
   symbol_to_index : [Letters -> 1 .. alphabet_size], index_to_symbol : [Index -> Letters]]

\* What update_distribution keeps.
Distributed(d) ==
  /\ d \in Distributions
  /\ d.frequencies[0] = 0
  /\ \A i \in 1 .. alphabet_size :
       /\ d.frequencies[i] >= 1
       /\ i > 1 => d.frequencies[i - 1] >= d.frequencies[i]
       /\ d.cumulative[i - 1] = d.cumulative[i] + d.frequencies[i]
       /\ d.symbol_to_index[d.index_to_symbol[i]] = i
  /\ \A s \in Letters : d.index_to_symbol[d.symbol_to_index[s]] = s
  /\ d.cumulative[alphabet_size] \in {0, 1}
  /\ d.cumulative[0] <= MAXIMUM

LEMMA DistributionRanges ==
  /\ alphabet_size \in Nat \ {0} /\ MAXIMUM \in Nat /\ alphabet_size < MAXIMUM
  /\ FRACTION_BITS \in Nat /\ FRACTION_BITS > 2
  /\ \A i \in 1 .. alphabet_size : i \in Index /\ i - 1 \in Index /\ i \in Nat /\ (i > 1 => i - 1 \in 1 .. alphabet_size)
  /\ 0 \in Index /\ alphabet_size \in Index
  /\ \A i \in Index : i \in Nat /\ (i = 0 \/ i \in 1 .. alphabet_size)
<1>1. alphabet_size \in Nat \ {0} /\ alphabet_size < MAXIMUM /\ FRACTION_BITS \in Nat /\ FRACTION_BITS > 2
  BY ArithmeticAssumption
<1>2. MAXIMUM \in Nat
  BY Masks
<1> QED BY <1>1, <1>2 DEF Index

\* A property of every index, from the last one down.
LEMMA DownwardInduction ==
  ASSUME NEW T \in SUBSET Index, alphabet_size \in T,
         \A i \in 1 .. alphabet_size : i \in T => i - 1 \in T
  PROVE  T = Index
<1>1. alphabet_size \in Nat
  BY DistributionRanges
<1>2. \A i \in 0 .. alphabet_size : i \in T
  BY <1>1, StepsDown
<1> QED BY <1>2 DEF Index

\* The sums fall with the index.
LEMMA SumsFall ==
  ASSUME NEW d, Distributed(d)
  PROVE  \A i \in Index : d.cumulative[i] \in Nat /\ d.cumulative[i] <= d.cumulative[0]
<1> USE DistributionRanges
<1>1. d.cumulative \in [Index -> Nat] /\ d.frequencies \in [Index -> Nat]
  BY DEF Distributed, Distributions
<1>2. \A i \in 1 .. alphabet_size : d.cumulative[i - 1] = d.cumulative[i] + d.frequencies[i]
  BY DEF Distributed
<1> DEFINE T == {n \in Nat : n <= alphabet_size => d.cumulative[n] <= d.cumulative[0]}
<1>3. 0 \in T
  BY <1>1
<1>4. ASSUME NEW n \in T PROVE n + 1 \in T
  <2>1. CASE n + 1 <= alphabet_size
    <3>1. n + 1 \in 1 .. alphabet_size /\ (n + 1) - 1 = n /\ n \in Index /\ n + 1 \in Index
      BY <2>1 DEF Index
    <3>2. d.cumulative[n] = d.cumulative[n + 1] + d.frequencies[n + 1]
      BY <1>2, <3>1
    <3>3. d.cumulative[n] \in Nat /\ d.cumulative[n + 1] \in Nat /\ d.frequencies[n + 1] \in Nat /\ d.cumulative[0] \in Nat
      BY <1>1, <3>1
    <3>4. d.cumulative[n] <= d.cumulative[0]
      BY <2>1
    <3>5. d.cumulative[n + 1] <= d.cumulative[0]
      BY <3>2, <3>3, <3>4
    <3> QED BY <3>5
  <2> QED BY <2>1
<1> HIDE DEF T
<1>5. T = Nat
  BY <1>3, <1>4, NatSetInduction DEF T
<1>6. \A n \in Nat : n <= alphabet_size => d.cumulative[n] <= d.cumulative[0]
  BY <1>5 DEF T
<1>7. \A i \in Index : i \in Nat /\ i <= alphabet_size
  BY DEF Index
<1> QED BY <1>1, <1>6, <1>7

LEMMA NewDistributed ==
  Distributed(NewDistribution) /\ NewDistribution.cumulative[alphabet_size] = 1
<1> USE DistributionRanges
<1> DEFINE d == NewDistribution
<1>1. \A i \in Index : alphabet_size - i + 1 \in Nat
  BY DEF Index
<1>2. \A s \in Letters : s + 1 \in 1 .. alphabet_size
  BY DEF Letters
<1>3. \A i \in Index : (IF i = 0 THEN 0 ELSE i - 1) \in Letters
  BY DEF Index, Letters
<1>4. d \in Distributions
  BY <1>1, <1>2, <1>3 DEF NewDistribution, Distributions
<1>5. /\ \A i \in Index : d.cumulative[i] = alphabet_size - i + 1
      /\ \A i \in Index : d.frequencies[i] = IF i = 0 THEN 0 ELSE 1
      /\ \A i \in Index : d.index_to_symbol[i] = IF i = 0 THEN 0 ELSE i - 1
      /\ \A s \in Letters : d.symbol_to_index[s] = s + 1
  BY DEF NewDistribution
<1> HIDE DEF d
<1>6. d.frequencies[0] = 0 /\ d.cumulative[alphabet_size] = 1 /\ d.cumulative[0] <= MAXIMUM
  <2>1. d.cumulative[0] = alphabet_size - 0 + 1 /\ d.cumulative[alphabet_size] = alphabet_size - alphabet_size + 1
    BY <1>5
  <2> QED BY <1>5, <2>1
<1>7. ASSUME NEW i \in 1 .. alphabet_size
      PROVE  /\ d.frequencies[i] >= 1 /\ (i > 1 => d.frequencies[i - 1] >= d.frequencies[i])
             /\ d.cumulative[i - 1] = d.cumulative[i] + d.frequencies[i]
             /\ d.symbol_to_index[d.index_to_symbol[i]] = i
  <2>1. i \in Index /\ i - 1 \in Index /\ i # 0 /\ (i > 1 => i - 1 # 0) /\ i - 1 \in Letters
    BY DEF Letters
  <2>2. d.frequencies[i] = 1 /\ (i > 1 => d.frequencies[i - 1] = 1)
    BY <1>5, <2>1
  <2>3. d.cumulative[i - 1] = alphabet_size - (i - 1) + 1 /\ d.cumulative[i] = alphabet_size - i + 1
    BY <1>5, <2>1
  <2>4. d.symbol_to_index[i - 1] = (i - 1) + 1 /\ d.index_to_symbol[i] = i - 1
    BY <1>5, <2>1
  <2> QED BY <2>2, <2>3, <2>4
<1>8. ASSUME NEW s \in Letters PROVE d.index_to_symbol[d.symbol_to_index[s]] = s
  <2>1. s + 1 \in Index /\ s + 1 # 0 /\ (s + 1) - 1 = s
    BY DEF Letters, Index
  <2> QED BY <1>5, <2>1
<1>9. Distributed(d) /\ d.cumulative[alphabet_size] = 1
  BY <1>4, <1>6, <1>7, <1>8 DEF Distributed
<1> QED BY <1>9 DEF d

\* The sums of halved frequencies, whatever they are.
LEMMA HalvedIs ==
  ASSUME NEW d \in Distributions
  PROVE  /\ Halved(d) \in Distributions
         /\ \A i \in Index : Halved(d).frequencies[i] = (d.frequencies[i] + 1) \div 2
         /\ Halved(d).cumulative[alphabet_size] = 0
         /\ \A i \in 1 .. alphabet_size :
              Halved(d).cumulative[i - 1] = Halved(d).cumulative[i] + Halved(d).frequencies[i]
         /\ Halved(d).symbol_to_index = d.symbol_to_index
         /\ Halved(d).index_to_symbol = d.index_to_symbol
<1> USE DistributionRanges
<1> DEFINE A == alphabet_size
           half == [i \in Index |-> (d.frequencies[i] + 1) \div 2]
           E(f) == [i \in Index |-> IF i = alphabet_size THEN 0 ELSE f[i + 1] + half[i + 1]]
           sum == CHOOSE f : f = E(f)
           G == [n \in Nat |-> [x \in Nat |-> IF n \in 1 .. A THEN x + half[A - n + 1] ELSE x]]
<1>1. half \in [Index -> Nat]
  <2>1. \A i \in Index : d.frequencies[i] \in Nat
    BY DEF Distributions
  <2>2. \A x \in Nat : (x + 1) \div 2 \in Nat
    OBVIOUS
  <2> QED BY <2>1, <2>2
<1>2. Halved(d) = [d EXCEPT !.frequencies = half, !.cumulative = sum]
  BY DEF Halved
<1> HIDE DEF half
<1>3. \A n \in 1 .. A : A - n + 1 \in 1 .. A /\ A - n + 1 \in Index
  BY DEF Index
<1>4. G \in [Nat -> [Nat -> Nat]]
  <2>1. ASSUME NEW n \in Nat, NEW x \in Nat PROVE (IF n \in 1 .. A THEN x + half[A - n + 1] ELSE x) \in Nat
    <3>1. CASE n \in 1 .. A
      <4>1. half[A - n + 1] \in Nat
        BY <1>1, <1>3, <3>1
      <4> QED BY <3>1, <4>1
    <3> QED BY <3>1
  <2> QED BY <2>1
<1>5. RecursiveOn(Nat, 0, G, A)
  <2> HIDE DEF G
  <2> QED BY <1>4, IntervalRecursion
<1>6. PICK g \in [0 .. A -> Nat] : g[0] = 0 /\ \A n \in 1 .. A : g[n] = G[n][g[n - 1]]
  <2> HIDE DEF G
  <2> QED BY <1>5 DEF RecursiveOn
<1>7. \A n \in 1 .. A : g[n] = g[n - 1] + half[A - n + 1]
  <2>1. ASSUME NEW n \in 1 .. A PROVE g[n] = g[n - 1] + half[A - n + 1]
    <3>1. n \in Nat /\ n - 1 \in 0 .. A
      OBVIOUS
    <3>2. g[n - 1] \in Nat
      BY <1>6, <3>1
    <3> QED BY <1>6, <3>1, <3>2
  <2> QED BY <2>1
<1> DEFINE u == [i \in Index |-> g[A - i]]
<1>8. u = E(u)
  <2>1. ASSUME NEW i \in Index PROVE g[A - i] = IF i = A THEN 0 ELSE u[i + 1] + half[i + 1]
    <3>1. CASE i = A
      <4>1. A - i = 0
        BY <3>1
      <4> QED BY <1>6, <3>1, <4>1
    <3>2. CASE i # A
      <4>1. A - i \in 1 .. A /\ A - (A - i) + 1 = i + 1 /\ i + 1 \in Index /\ (A - i) - 1 = A - (i + 1)
        BY <3>2 DEF Index
      <4>2. g[A - i] = g[A - (i + 1)] + half[i + 1]
        BY <1>7, <4>1
      <4>3. u[i + 1] = g[A - (i + 1)]
        BY <4>1
      <4> QED BY <3>2, <4>2, <4>3
    <3> QED BY <3>1, <3>2
  <2> QED BY <2>1
<1>9. sum = E(sum)
  <2> HIDE DEF E, u
  <2> QED BY <1>8
<1> HIDE DEF sum, u
<1>10. /\ sum[A] = 0
       /\ \A i \in 1 .. A : sum[i - 1] = sum[i] + half[i]
  <2>0. \A i \in Index : sum[i] = E(sum)[i]
    BY <1>9
  <2>1. sum[A] = 0
    BY <2>0
  <2>2. ASSUME NEW i \in 1 .. A PROVE sum[i - 1] = sum[i] + half[i]
    <3>1. i - 1 \in Index /\ i - 1 # A /\ (i - 1) + 1 = i
      OBVIOUS
    <3> QED BY <2>0, <3>1
  <2> QED BY <2>1, <2>2
<1>11. sum \in [Index -> Nat]
  <2> DEFINE T == {i \in Index : sum[i] \in Nat}
  <2>1. A \in T
    BY <1>10
  <2>2. ASSUME NEW i \in 1 .. A, i \in T PROVE i - 1 \in T
    <3>1. sum[i - 1] = sum[i] + half[i] /\ half[i] \in Nat /\ sum[i] \in Nat
      BY <1>1, <1>10, <2>2
    <3>2. sum[i - 1] \in Nat
      BY <3>1
    <3> QED BY <3>2
  <2> HIDE DEF T
  <2>3. T = Index
    BY <2>1, <2>2, DownwardInduction DEF T
  <2>4. \A i \in Index : sum[i] \in Nat
    BY <2>3 DEF T
  <2>5. sum = [i \in Index |-> sum[i]]
    BY <1>9
  <2> QED BY <2>4, <2>5
<1> DEFINE h == Halved(d)
<1>12. h \in Distributions /\ h.frequencies = half /\ h.cumulative = sum
       /\ h.symbol_to_index = d.symbol_to_index /\ h.index_to_symbol = d.index_to_symbol
  BY <1>1, <1>2, <1>11 DEF Distributions
<1>13. \A i \in Index : half[i] = (d.frequencies[i] + 1) \div 2
  BY DEF half
<1> HIDE DEF h
<1> QED BY <1>10, <1>12, <1>13 DEF h

\* Halving keeps it a distribution, and makes room for at least one count more.
LEMMA HalvedDistributed ==
  ASSUME NEW d, Distributed(d), d.cumulative[0] = MAXIMUM
  PROVE  /\ Distributed(Halved(d)) /\ Halved(d).cumulative[0] < MAXIMUM
         /\ Halved(d).cumulative[alphabet_size] = 0
<1> USE DistributionRanges
<1> DEFINE A == alphabet_size
           f == d.frequencies
           c == d.cumulative
           h == Halved(d)
           g == Halved(d).frequencies
           k == Halved(d).cumulative
<1>1. /\ d \in Distributions /\ f[0] = 0 /\ c[A] \in {0, 1} /\ c[0] = MAXIMUM
      /\ \A s \in Letters : d.index_to_symbol[d.symbol_to_index[s]] = s
      /\ \A i \in 1 .. A : /\ f[i] >= 1 /\ (i > 1 => f[i - 1] >= f[i])
                           /\ c[i - 1] = c[i] + f[i] /\ d.symbol_to_index[d.index_to_symbol[i]] = i
  BY DEF Distributed
<1>2. /\ h \in Distributions
      /\ \A i \in Index : g[i] = (f[i] + 1) \div 2
      /\ k[A] = 0
      /\ \A i \in 1 .. A : k[i - 1] = k[i] + g[i]
      /\ h.symbol_to_index = d.symbol_to_index
      /\ h.index_to_symbol = d.index_to_symbol
  BY <1>1, HalvedIs
<1>3. \A i \in Index : f[i] \in Nat /\ c[i] \in Nat /\ g[i] \in Nat /\ k[i] \in Nat
  BY <1>1, <1>2 DEF Distributions
<1> HIDE DEF f, c, g, k
<1>4. /\ \A x \in Nat : x >= 1 => (x + 1) \div 2 >= 1 /\ (x + 1) \div 2 <= x
      /\ \A x \in Nat : x >= 2 => (x + 1) \div 2 < x
      /\ (0 + 1) \div 2 = 0
      /\ \A x, y \in Nat : x >= y => (x + 1) \div 2 >= (y + 1) \div 2
  OBVIOUS
<1>5. g[0] = 0
  BY <1>1, <1>2, <1>4
<1>6. ASSUME NEW i \in 1 .. A
      PROVE  /\ g[i] >= 1 /\ g[i] <= f[i] /\ (f[i] >= 2 => g[i] < f[i])
             /\ i > 1 => g[i - 1] >= g[i]
             /\ k[i - 1] = k[i] + g[i]
             /\ h.symbol_to_index[h.index_to_symbol[i]] = i
  <2>1. i \in Index /\ f[i] \in Nat /\ f[i] >= 1 /\ g[i] = (f[i] + 1) \div 2
    BY <1>1, <1>2, <1>3
  <2>2. g[i] >= 1 /\ g[i] <= f[i] /\ (f[i] >= 2 => g[i] < f[i])
    BY <1>4, <2>1
  <2>3. ASSUME i > 1 PROVE g[i - 1] >= g[i]
    <3>1. i - 1 \in Index /\ f[i - 1] \in Nat /\ f[i - 1] >= f[i] /\ g[i - 1] = (f[i - 1] + 1) \div 2
      BY <1>1, <1>2, <1>3, <2>3
    <3> QED BY <1>4, <2>1, <3>1
  <2> QED BY <1>1, <1>2, <2>2, <2>3
<1>7. \A i \in Index : k[i] <= c[i] - c[A]
  <2> DEFINE T == {i \in Index : k[i] <= c[i] - c[A]}
  <2>1. A \in T
    BY <1>2, <1>3
  <2>2. ASSUME NEW i \in 1 .. A, i \in T PROVE i - 1 \in T
    <3>1. k[i - 1] = k[i] + g[i] /\ g[i] <= f[i] /\ c[i - 1] = c[i] + f[i] /\ k[i] <= c[i] - c[A]
      BY <1>1, <1>6, <2>2
    <3>2. i \in Index /\ i - 1 \in Index /\ A \in Index
      OBVIOUS
    <3>3. g[i] \in Nat /\ f[i] \in Nat /\ k[i] \in Nat /\ c[i] \in Nat /\ c[A] \in Nat
      BY <1>3, <3>2
    <3>4. k[i - 1] <= c[i - 1] - c[A]
      BY <3>1, <3>3
    <3> QED BY <3>2, <3>4
  <2> HIDE DEF T
  <2>3. T = Index
    BY <2>1, <2>2, DownwardInduction DEF T
  <2> QED BY <2>3 DEF T
<1>8. k[0] < MAXIMUM
  <2>1. 1 \in 1 .. A /\ 1 - 1 = 0 /\ 0 \in Index /\ 1 \in Index /\ A \in Index
    OBVIOUS
  <2>2. CASE f[1] >= 2
    <3>1. k[0] = k[1] + g[1] /\ g[1] < f[1] /\ c[0] = c[1] + f[1] /\ k[1] <= c[1] - c[A] /\ c[0] = MAXIMUM
      BY <1>1, <1>6, <1>7, <2>1, <2>2
    <3>2. k[1] \in Nat /\ g[1] \in Nat /\ f[1] \in Nat /\ c[1] \in Nat /\ c[A] \in Nat
      BY <1>3, <2>1
    <3> QED BY <3>1, <3>2
  <2>3. CASE ~ (f[1] >= 2)
    <3>1. f[1] = 1
      BY <1>1, <1>3, <2>1, <2>3
    <3>2. \A i \in 1 .. A : f[i] = 1
      <4> DEFINE R == {n \in Nat : n + 1 <= A => f[n + 1] = 1}
      <4>1. 0 \in R
        BY <3>1
      <4>2. ASSUME NEW n \in R PROVE n + 1 \in R
        <5>1. CASE (n + 1) + 1 <= A
          <6>1. (n + 1) + 1 \in 1 .. A /\ (n + 1) + 1 > 1 /\ ((n + 1) + 1) - 1 = n + 1 /\ f[n + 1] = 1
            BY <5>1
          <6>2. f[(n + 1) + 1] >= 1 /\ 1 >= f[(n + 1) + 1]
            BY <1>1, <6>1
          <6>3. f[(n + 1) + 1] \in Nat
            BY <1>3, <6>1
          <6>4. f[(n + 1) + 1] = 1
            BY <6>2, <6>3
          <6> QED BY <6>4
        <5> QED BY <5>1
      <4> HIDE DEF R
      <4>3. R = Nat
        BY <4>1, <4>2, NatSetInduction DEF R
      <4>4. ASSUME NEW i \in 1 .. A PROVE f[i] = 1
        <5>1. i - 1 \in R /\ (i - 1) + 1 = i
          BY <4>3
        <5> QED BY <5>1 DEF R
      <4> QED BY <4>4
    <3>3. \A i \in Index : c[i] = A - i + c[A]
      <4> DEFINE T == {i \in Index : c[i] = A - i + c[A]}
      <4>1. A \in T
        BY <1>3, <2>1
      <4>2. ASSUME NEW i \in 1 .. A, i \in T PROVE i - 1 \in T
        <5>1. c[i - 1] = c[i] + 1 /\ c[i] = A - i + c[A] /\ c[A] \in Nat
          BY <1>1, <1>3, <3>2, <4>2
        <5>2. c[i - 1] = A - (i - 1) + c[A]
          BY <5>1
        <5> QED BY <5>2
      <4> HIDE DEF T
      <4>3. T = Index
        BY <4>1, <4>2, DownwardInduction DEF T
      <4> QED BY <4>3 DEF T
    <3>4. c[0] = A - 0 + c[A] /\ k[0] <= c[0] - c[A]
      BY <1>7, <2>1, <3>3
    <3>5. c[A] \in Nat /\ k[0] \in Nat
      BY <1>3, <2>1
    <3> QED BY <3>4, <3>5
  <2> QED BY <2>2, <2>3
<1>9. k[0] <= MAXIMUM /\ k[A] \in {0, 1}
  BY <1>2, <1>3, <1>8
<1>10. \A s \in Letters : h.index_to_symbol[h.symbol_to_index[s]] = s
  BY <1>1, <1>2
<1>11. Distributed(h)
  <2> HIDE DEF h
  <2>1. h.frequencies = g /\ h.cumulative = k
    BY DEF g, k, h
  <2> QED BY <1>2, <1>5, <1>6, <1>9, <1>10, <2>1 DEF Distributed
<1> QED BY <1>2, <1>8, <1>11 DEF k

\* The place where the loop stops.
LEMMA FirstOfEqualIs ==
  ASSUME NEW d, Distributed(d), NEW index \in 1 .. alphabet_size
  PROVE  LET i == FirstOfEqual(d, index)
         IN  /\ i \in 1 .. index /\ i \in 1 .. alphabet_size
             /\ \A j \in i .. index : d.frequencies[j] = d.frequencies[index]
             /\ i > 1 => d.frequencies[i - 1] > d.frequencies[i]
<1> USE DistributionRanges
<1> DEFINE f == d.frequencies
           S0 == {n \in 1 .. index : \A j \in n .. index : f[j] = f[index]}
           i == FirstOfEqual(d, index)
<1>1. i = Min(S0)
  BY DEF FirstOfEqual
<1>2. index \in S0 /\ S0 \in SUBSET Nat
  <2>1. \A j \in index .. index : j = index
    OBVIOUS
  <2> QED BY <2>1
<1> HIDE DEF i
<1>3. i \in S0 /\ \A n \in S0 : i <= n
  <2> HIDE DEF S0
  <2> QED BY <1>1, <1>2, MinOfNats
<1>4. i \in 1 .. index /\ i \in 1 .. alphabet_size /\ \A j \in i .. index : f[j] = f[index]
  BY <1>3
<1>5. ASSUME i > 1 PROVE f[i - 1] > f[i]
  <2>1. i - 1 \notin S0 /\ i - 1 \in 1 .. index
    BY <1>3, <1>4, <1>5
  <2>2. PICK j \in i - 1 .. index : f[j] # f[index]
    BY <2>1
  <2>3. j = i - 1
    <3>1. CASE j \in i .. index
      BY <1>4, <2>2, <3>1
    <3>2. CASE j \notin i .. index
      BY <1>4, <2>2, <3>2
    <3> QED BY <3>1, <3>2
  <2>4. i \in i .. index
    BY <1>4
  <2>5. f[i - 1] # f[i]
    BY <1>4, <2>2, <2>3, <2>4
  <2>6. f[i - 1] >= f[i] /\ f[i - 1] \in Nat /\ f[i] \in Nat
    <3>1. i - 1 \in Index /\ i \in Index /\ i \in 1 .. alphabet_size
      BY <1>4, <1>5
    <3> QED BY <1>5, <3>1 DEF Distributed, Distributions
  <2> QED BY <2>5, <2>6
<1> QED BY <1>4, <1>5 DEF i

\* Counting a symbol, place by place.
LEMMA CountedIs ==
  ASSUME NEW d, Distributed(d), NEW index \in 1 .. alphabet_size
  PROVE  LET i == FirstOfEqual(d, index)
             e == Counted(d, index)
         IN  /\ \A j \in Index : /\ e.frequencies[j] = IF j = i THEN d.frequencies[j] + 1 ELSE d.frequencies[j]
                                 /\ e.cumulative[j] = IF j < i THEN d.cumulative[j] + 1 ELSE d.cumulative[j]
                                 /\ e.index_to_symbol[j] = IF j = i THEN d.index_to_symbol[index]
                                                           ELSE IF j = index THEN d.index_to_symbol[i]
                                                           ELSE d.index_to_symbol[j]
             /\ \A s \in Letters : e.symbol_to_index[s] = IF s = d.index_to_symbol[index] THEN i
                                                          ELSE IF s = d.index_to_symbol[i] THEN index
                                                          ELSE d.symbol_to_index[s]
             /\ e \in Distributions
<1> USE DistributionRanges
<1> DEFINE i == FirstOfEqual(d, index)
           e == Counted(d, index)
           o == d.index_to_symbol[i]
           s0 == d.index_to_symbol[index]
<1>1. i \in 1 .. index /\ i \in 1 .. alphabet_size /\ i \in Index /\ index \in Index
  BY FirstOfEqualIs
<1>2. /\ d.cumulative \in [Index -> Nat] /\ d.frequencies \in [Index -> Nat]
      /\ d.symbol_to_index \in [Letters -> 1 .. alphabet_size] /\ d.index_to_symbol \in [Index -> Letters]
  BY DEF Distributed, Distributions
<1>3. e = [index_to_symbol |-> [d.index_to_symbol EXCEPT ![index] = o, ![i] = s0],
           symbol_to_index |-> [d.symbol_to_index EXCEPT ![o] = index, ![s0] = i],
           frequencies |-> [d.frequencies EXCEPT ![i] = @ + 1],
           cumulative |-> [j \in Index |-> IF j < i THEN d.cumulative[j] + 1 ELSE d.cumulative[j]]]
  BY DEF Counted
<1> HIDE DEF i, e
<1>4. o \in Letters /\ s0 \in Letters
  BY <1>1, <1>2
<1> HIDE DEF o, s0
<1>5. /\ e.index_to_symbol = [d.index_to_symbol EXCEPT ![index] = o, ![i] = s0]
      /\ e.symbol_to_index = [d.symbol_to_index EXCEPT ![o] = index, ![s0] = i]
      /\ e.frequencies = [d.frequencies EXCEPT ![i] = @ + 1]
      /\ e.cumulative = [j \in Index |-> IF j < i THEN d.cumulative[j] + 1 ELSE d.cumulative[j]]
      /\ e = [index_to_symbol |-> e.index_to_symbol, symbol_to_index |-> e.symbol_to_index,
              frequencies |-> e.frequencies, cumulative |-> e.cumulative]
  BY <1>3
<1>6. /\ e.index_to_symbol \in [Index -> Letters]
      /\ \A j \in Index : e.index_to_symbol[j] = IF j = i THEN s0 ELSE IF j = index THEN o ELSE d.index_to_symbol[j]
  BY <1>1, <1>2, <1>4, <1>5
<1>7. /\ e.symbol_to_index \in [Letters -> 1 .. alphabet_size]
      /\ \A s \in Letters : e.symbol_to_index[s] = IF s = s0 THEN i ELSE IF s = o THEN index ELSE d.symbol_to_index[s]
  BY <1>1, <1>2, <1>4, <1>5
<1>8. /\ e.frequencies \in [Index -> Nat]
      /\ \A j \in Index : e.frequencies[j] = IF j = i THEN d.frequencies[j] + 1 ELSE d.frequencies[j]
  BY <1>1, <1>2, <1>5
<1>9. /\ e.cumulative \in [Index -> Nat]
      /\ \A j \in Index : e.cumulative[j] = IF j < i THEN d.cumulative[j] + 1 ELSE d.cumulative[j]
  BY <1>2, <1>5
<1>10. e \in Distributions
  BY <1>5, <1>6, <1>7, <1>8, <1>9 DEF Distributions
<1> QED BY <1>6, <1>7, <1>8, <1>9, <1>10 DEF i, e, o, s0

LEMMA CountedDistributed ==
  ASSUME NEW d, Distributed(d), NEW index \in 1 .. alphabet_size, d.cumulative[0] < MAXIMUM
  PROVE  /\ Distributed(Counted(d, index))
         /\ Counted(d, index).cumulative[alphabet_size] = d.cumulative[alphabet_size]
<1> USE DistributionRanges
<1> DEFINE A == alphabet_size
           i == FirstOfEqual(d, index)
           e == Counted(d, index)
           f == d.frequencies
           c == d.cumulative
           m == d.index_to_symbol
<1>1. /\ i \in 1 .. index /\ i \in 1 .. A /\ i \in Index /\ index \in Index
      /\ \A j \in i .. index : f[j] = f[index]
      /\ i > 1 => f[i - 1] > f[i]
  BY FirstOfEqualIs
<1>2. /\ \A j \in Index : /\ e.frequencies[j] = IF j = i THEN f[j] + 1 ELSE f[j]
                          /\ e.cumulative[j] = IF j < i THEN c[j] + 1 ELSE c[j]
                          /\ e.index_to_symbol[j] = IF j = i THEN m[index] ELSE IF j = index THEN m[i] ELSE m[j]
      /\ \A s \in Letters : e.symbol_to_index[s] = IF s = m[index] THEN i ELSE IF s = m[i] THEN index
                                                   ELSE d.symbol_to_index[s]
      /\ e \in Distributions
  BY CountedIs
<1>3. /\ d \in Distributions /\ f[0] = 0 /\ c[A] \in {0, 1} /\ c[0] <= MAXIMUM
      /\ \A s \in Letters : m[d.symbol_to_index[s]] = s
      /\ \A j \in 1 .. A : /\ f[j] >= 1 /\ (j > 1 => f[j - 1] >= f[j])
                           /\ c[j - 1] = c[j] + f[j] /\ d.symbol_to_index[m[j]] = j
  BY DEF Distributed
<1>4. /\ \A j \in Index : f[j] \in Nat /\ c[j] \in Nat /\ m[j] \in Letters
      /\ \A s \in Letters : d.symbol_to_index[s] \in 1 .. A
  BY <1>3 DEF Distributions
<1> HIDE DEF i, e, f, c, m
<1>5. e.frequencies[0] = 0 /\ e.cumulative[0] <= MAXIMUM /\ e.cumulative[A] = c[A]
  <2>1. 0 # i /\ 0 < i /\ ~ (A < i)
    BY <1>1
  <2>2. e.cumulative[0] = c[0] + 1 /\ c[0] \in Nat /\ c[0] < MAXIMUM
    BY <1>2, <1>4, <2>1 DEF c
  <2> QED BY <1>2, <1>3, <2>1, <2>2
<1>6. ASSUME NEW j \in 1 .. A
      PROVE  /\ e.frequencies[j] >= 1 /\ (j > 1 => e.frequencies[j - 1] >= e.frequencies[j])
             /\ e.cumulative[j - 1] = e.cumulative[j] + e.frequencies[j]
  <2>1. j \in Index /\ j - 1 \in Index /\ f[j] \in Nat /\ f[j - 1] \in Nat /\ c[j] \in Nat /\ c[j - 1] \in Nat
    BY <1>4
  <2>2. /\ e.frequencies[j] = IF j = i THEN f[j] + 1 ELSE f[j]
        /\ e.frequencies[j - 1] = IF j - 1 = i THEN f[j - 1] + 1 ELSE f[j - 1]
        /\ e.cumulative[j] = IF j < i THEN c[j] + 1 ELSE c[j]
        /\ e.cumulative[j - 1] = IF j - 1 < i THEN c[j - 1] + 1 ELSE c[j - 1]
    BY <1>2, <2>1
  <2>3. f[j] >= 1 /\ (j > 1 => f[j - 1] >= f[j]) /\ c[j - 1] = c[j] + f[j]
    BY <1>3
  <2>4. e.frequencies[j] >= 1 /\ e.cumulative[j - 1] = e.cumulative[j] + e.frequencies[j]
    BY <1>1, <2>1, <2>2, <2>3
  <2>5. j > 1 => e.frequencies[j - 1] >= e.frequencies[j]
    <3>1. CASE j = i
      BY <1>1, <2>1, <2>2, <3>1
    <3>2. CASE j # i
      BY <1>1, <2>1, <2>2, <2>3, <3>2
    <3> QED BY <3>1, <3>2
  <2> QED BY <2>4, <2>5
<1>7. ASSUME NEW j \in 1 .. A PROVE e.symbol_to_index[e.index_to_symbol[j]] = j
  <2>1. j \in Index /\ m[j] \in Letters /\ m[i] \in Letters /\ m[index] \in Letters
    BY <1>1, <1>4
  <2>2. \A x, y \in 1 .. A : m[x] = m[y] => x = y
    BY <1>3
  <2>3. CASE j = i
    <3>1. e.index_to_symbol[j] = m[index]
      BY <1>2, <2>1, <2>3
    <3> QED BY <1>2, <2>1, <2>3, <3>1
  <2>4. CASE j # i /\ j = index
    <3>1. e.index_to_symbol[j] = m[i]
      BY <1>2, <2>1, <2>4
    <3>2. m[i] # m[index]
      BY <1>1, <2>2, <2>4
    <3> QED BY <1>2, <2>1, <2>4, <3>1, <3>2
  <2>5. CASE j # i /\ j # index
    <3>1. e.index_to_symbol[j] = m[j]
      BY <1>2, <2>1, <2>5
    <3>2. m[j] # m[index] /\ m[j] # m[i]
      BY <1>1, <2>2, <2>5
    <3> QED BY <1>2, <1>3, <2>1, <3>1, <3>2
  <2> QED BY <2>3, <2>4, <2>5
<1>8. ASSUME NEW s \in Letters PROVE e.index_to_symbol[e.symbol_to_index[s]] = s
  <2>1. d.symbol_to_index[s] \in 1 .. A /\ d.symbol_to_index[s] \in Index /\ m[d.symbol_to_index[s]] = s
    BY <1>3, <1>4
  <2>2. CASE s = m[index]
    BY <1>1, <1>2, <2>2
  <2>3. CASE s # m[index] /\ s = m[i]
    <3>1. index # i /\ e.symbol_to_index[s] = index
      BY <1>2, <2>3
    <3> QED BY <1>1, <1>2, <2>3, <3>1
  <2>4. CASE s # m[index] /\ s # m[i]
    <3>1. e.symbol_to_index[s] = d.symbol_to_index[s] /\ d.symbol_to_index[s] # index /\ d.symbol_to_index[s] # i
      BY <1>2, <2>1, <2>4
    <3> QED BY <1>2, <2>1, <3>1
  <2> QED BY <2>2, <2>3, <2>4
<1>9. Distributed(e)
  BY <1>2, <1>3, <1>5, <1>6, <1>7, <1>8 DEF Distributed
<1> QED BY <1>5, <1>9 DEF e, c

LEMMA UpdateDistributed ==
  ASSUME NEW d, Distributed(d), NEW index \in 1 .. alphabet_size
  PROVE  /\ Distributed(update_distribution(d, index))
         /\ update_distribution(d, index).cumulative[alphabet_size] = 1 =>
              /\ d.cumulative[alphabet_size] = 1
              /\ update_distribution(d, index) = Counted(d, index)
<1> USE DistributionRanges
<1>1. CASE d.cumulative[0] = MAXIMUM
  <2>1. update_distribution(d, index) = Counted(Halved(d), index)
    BY <1>1 DEF update_distribution
  <2>2. /\ Distributed(Halved(d)) /\ Halved(d).cumulative[0] < MAXIMUM
        /\ Halved(d).cumulative[alphabet_size] = 0
    BY <1>1, HalvedDistributed
  <2>3. /\ Distributed(Counted(Halved(d), index))
        /\ Counted(Halved(d), index).cumulative[alphabet_size] = 0
    BY <2>2, CountedDistributed
  <2> QED BY <2>1, <2>3
<1>2. CASE d.cumulative[0] # MAXIMUM
  <2>1. update_distribution(d, index) = Counted(d, index)
    BY <1>2 DEF update_distribution
  <2>2. d.cumulative[0] < MAXIMUM
    <3>1. d.cumulative[0] \in Nat /\ d.cumulative[0] <= MAXIMUM
      BY DEF Distributed, Distributions
    <3> QED BY <1>2, <3>1
  <2>3. /\ Distributed(Counted(d, index))
        /\ Counted(d, index).cumulative[alphabet_size] = d.cumulative[alphabet_size]
    BY <2>2, CountedDistributed
  <2> QED BY <2>1, <2>3
<1> QED BY <1>1, <1>2

-------------------------------------------------------------------------------
(* Shares. *)

\* The coder between two symbols.
Fine(h) == Distributed(h.dist) /\ Ready(h.reg)

\* A quotient of a product grows by one at least with each step of a factor.
LEMMA ShareGrows ==
  ASSUME NEW x \in Nat, NEW y \in Nat, NEW range \in Nat, NEW total \in Nat \ {0},
         x < y, y <= total, total <= range
  PROVE  /\ (x * range) \div total \in Nat
         /\ (x * range) \div total < (y * range) \div total
         /\ (y * range) \div total <= range
<1>1. x * range \in Nat /\ y * range \in Nat
  OBVIOUS
<1>2. x * range + range <= y * range /\ y * range <= total * range
  OBVIOUS
<1>3. x * range + total <= y * range
  BY <1>1, <1>2
<1>4. \A a, b \in Nat : a + total <= b => a \div total \in Nat /\ b \div total \in Nat /\ a \div total < b \div total
  OBVIOUS
<1>5. (total * range) \div total = range
  OBVIOUS
<1>6. \A a, b \in Nat : a <= b => a \div total <= b \div total
  OBVIOUS
<1>7. total * range \in Nat
  OBVIOUS
<1> QED BY <1>1, <1>2, <1>3, <1>4, <1>5, <1>6, <1>7

\* No share is empty, and none reaches over the interval.
LEMMA Shares ==
  ASSUME NEW h, Fine(h), NEW index \in 1 .. alphabet_size
  PROVE  /\ Bound(h, index) \in Nat /\ Bound(h, index - 1) \in Nat
         /\ Bound(h, index) < Bound(h, index - 1)
         /\ Bound(h, index - 1) <= h.reg.high - h.reg.low
<1> USE DistributionRanges
<1> DEFINE c == h.dist.cumulative
           range == h.reg.high - h.reg.low
<1>1. index \in Index /\ index - 1 \in Index /\ Distributed(h.dist)
  BY DEF Fine
<1>2. c[index] \in Nat /\ c[index - 1] \in Nat /\ c[index - 1] <= c[0] /\ c[0] \in Nat
  BY <1>1, SumsFall
<1>3. c[index] < c[index - 1]
  <2>1. c[index - 1] = c[index] + h.dist.frequencies[index] /\ h.dist.frequencies[index] >= 1
    BY <1>1 DEF Distributed
  <2>2. h.dist.frequencies[index] \in Nat
    BY <1>1 DEF Distributed, Distributions
  <2> HIDE DEF c
  <2>3. c[index - 1] = c[index] + h.dist.frequencies[index]
    BY <2>1 DEF c
  <2> QED BY <1>2, <2>1, <2>2, <2>3
<1>4. range \in Nat /\ c[0] <= range
  <2>1. h.reg \in Registers /\ h.reg.high - h.reg.low > MAXIMUM
    BY DEF Fine, Ready, About
  <2>2. h.reg.low \in Nat /\ h.reg.high \in Nat
    BY <2>1, RegisterRanges
  <2>3. c[0] <= MAXIMUM
    BY <1>1 DEF Distributed
  <2>4. range \in Int /\ range > MAXIMUM
    BY <2>1, <2>2
  <2> HIDE DEF range, c
  <2> QED BY <1>2, <2>3, <2>4
<1>5. c[0] \in Nat \ {0}
  <2> HIDE DEF c
  <2> QED BY <1>2, <1>3
<1>6. Bound(h, index) = (c[index] * range) \div c[0] /\ Bound(h, index - 1) = (c[index - 1] * range) \div c[0]
  BY DEF Bound
<1> HIDE DEF c, range
<1>7. /\ (c[index] * range) \div c[0] \in Nat
      /\ (c[index] * range) \div c[0] < (c[index - 1] * range) \div c[0]
      /\ (c[index - 1] * range) \div c[0] <= range
  BY <1>2, <1>3, <1>4, <1>5, ShareGrows
<1>8. (c[index - 1] * range) \div c[0] \in Nat
  <2>1. \A a \in Nat : a \div c[0] \in Nat
    BY <1>5
  <2>2. c[index - 1] * range \in Nat
    BY <1>2, <1>4
  <2> QED BY <2>1, <2>2
<1> QED BY <1>6, <1>7, <1>8 DEF range

LEMMA NarrowIs ==
  ASSUME NEW h, Fine(h), NEW index \in 1 .. alphabet_size
  PROVE  /\ Apart(Narrow(h, index))
         /\ Narrow(h, index).low = h.reg.low + Bound(h, index)
         /\ Narrow(h, index).high = h.reg.low + Bound(h, index - 1)
         /\ Narrow(h, index).underflow = h.reg.underflow /\ Narrow(h, index).code = h.reg.code
         /\ Narrow(h, index).pos = h.reg.pos /\ Narrow(h, index).out = h.reg.out
<1> DEFINE r == h.reg
           n == Narrow(h, index)
           b == Bound(h, index)
           t == Bound(h, index - 1)
<1>1. r \in Registers
  BY DEF Fine, Ready, About
<1>2. r.low \in Nat /\ r.high \in Nat /\ r.high <= UINT_MAX /\ UINT_MAX \in Nat
  BY <1>1, RegisterRanges, Masks
<1>3. b \in Nat /\ t \in Nat /\ b < t /\ t <= r.high - r.low
  BY Shares
<1>4. n = [r EXCEPT !.low = @ + b, !.high = r.low + t]
  BY DEF Narrow
<1> HIDE DEF b, t, n, r
<1>5. r.low + b \in Word /\ r.low + t \in Word /\ r.low + b < r.low + t
  BY <1>2, <1>3 DEF Word
<1>6. /\ n \in Registers /\ n.low = r.low + b /\ n.high = r.low + t
      /\ n.underflow = r.underflow /\ n.code = r.code /\ n.pos = r.pos /\ n.out = r.out
  BY <1>1, <1>4, <1>5 DEF Registers
<1> QED BY <1>5, <1>6 DEF Apart, b, t, n, r

LEMMA EncodeFine ==
  ASSUME NEW h, Fine(h), NEW symbol \in Letters
  PROVE  Fine(encode(h, symbol))
<1> DEFINE index == h.dist.symbol_to_index[symbol]
           w == Loop(write_bits, Narrow(h, index))
<1>1. Distributed(h.dist)
  BY DEF Fine
<1>2. index \in 1 .. alphabet_size
  BY <1>1 DEF Distributed, Distributions
<1>3. encode(h, symbol).reg = Loop(put_off, w) /\ encode(h, symbol).dist = update_distribution(h.dist, index)
  BY DEF encode, update
<1> HIDE DEF index
<1>4. Apart(Narrow(h, index))
  BY <1>2, NarrowIs
<1>5. About(w)
  <2> DEFINE n == Narrow(h, index)
  <2> HIDE DEF n
  <2>1. Apart(n)
    BY <1>4 DEF n
  <2>2. About(Loop(write_bits, n))
    BY <2>1, WriteLoop
  <2> QED BY <2>2 DEF n
<1> HIDE DEF w
<1>6. Ready(Loop(put_off, w))
  BY <1>5, PutOffLoop
<1>7. Distributed(update_distribution(h.dist, index))
  BY <1>1, <1>2, UpdateDistributed
<1> QED BY <1>3, <1>6, <1>7 DEF Fine

LEMMA NewFine == Fine(NewArithmetic) /\ NewRegisters \in Registers
<1>1. Quarter \in Nat \ {0} /\ UINT_MAX = 4 * Quarter - 1 /\ MAXIMUM = Quarter - 1
  BY Masks DEF Quarter
<1>2. NewArithmetic.reg = NewRegisters /\ NewArithmetic.dist = NewDistribution
  BY DEF NewArithmetic
<1>3. NewRegisters.low = 0 /\ NewRegisters.high = UINT_MAX
  BY DEF NewRegisters
<1> HIDE DEF Quarter
<1>4. NewRegisters \in Registers
  <2>1. 0 \in Word /\ UINT_MAX \in Word /\ <<>> \in Seq({0, 1})
    BY <1>1 DEF Word
  <2> QED BY <2>1 DEF NewRegisters, Registers
<1>5. Ready(NewRegisters)
  <2>1. 0 < 2 * Quarter /\ 2 * Quarter <= UINT_MAX /\ UINT_MAX - 0 > MAXIMUM
    BY <1>1
  <2> QED BY <1>3, <1>4, <2>1 DEF Ready, About
<1> QED BY <1>2, <1>4, <1>5, NewDistributed DEF Fine

-------------------------------------------------------------------------------
(* The two encoders. *)

\* Until frequencies are halved both rank alike; then cumulative[alphabet_size]
\* is 0 for good.
Alike(d, g) ==
  d.cumulative[alphabet_size] = 1 =>
    \A s \in Symbol : /\ d.symbol_to_index[s] = g.rank[s] + 1
                      /\ d.frequencies[g.rank[s] + 1] = g.count[s] + 1

LEMMA SymbolIsLetter == Symbol \subseteq Letters /\ eof_symbol \in Letters
<1>1. symbols_amount \in Nat \ {0} /\ alphabet_size \in Nat \ {0} /\ symbols_amount < alphabet_size
  BY GammaAssumption, ArithmeticAssumption, CodersAssumption
<1> QED BY <1>1 DEF Symbol, Letters, eof_symbol

LEMMA NewAlike == Alike(NewDistribution, NewCoder)
<1>1. \A s \in Symbol : s \in Letters /\ s + 1 \in Index /\ s + 1 # 0
  BY SymbolIsLetter, DistributionRanges DEF Index, Letters
<1>2. \A s \in Symbol : NewCoder.rank[s] = s /\ NewCoder.count[s] = 0
  BY DEF NewCoder
<1>3. \A s \in Symbol : NewDistribution.symbol_to_index[s] = s + 1 /\ NewDistribution.frequencies[s + 1] = 1
  BY <1>1 DEF NewDistribution
<1> QED BY <1>2, <1>3 DEF Alike

\* They count a symbol to the same place.
LEMMA AlikeStep ==
  ASSUME NEW d, NEW g, Distributed(d), Ranked(g), Alike(d, g), NEW symbol \in Symbol
  PROVE  Alike(update_distribution(d, d.symbol_to_index[symbol]), update_frequencies(g, symbol))
<1> USE DistributionRanges
<1> DEFINE index == d.symbol_to_index[symbol]
           e == update_distribution(d, index)
           i == FirstOfEqual(d, index)
           f == d.frequencies
           m == d.index_to_symbol
           new == update_frequencies(g, symbol)
<1>1. SUFFICES ASSUME e.cumulative[alphabet_size] = 1
               PROVE  \A s \in Symbol : /\ e.symbol_to_index[s] = new.rank[s] + 1
                                        /\ e.frequencies[new.rank[s] + 1] = new.count[s] + 1
  BY DEF Alike
<1>2. index \in 1 .. alphabet_size /\ symbol \in Letters
  BY SymbolIsLetter DEF Distributed, Distributions
<1>3. d.cumulative[alphabet_size] = 1 /\ e = Counted(d, index)
  BY <1>1, <1>2, UpdateDistributed
<1>4. \A s \in Symbol : d.symbol_to_index[s] = g.rank[s] + 1 /\ f[g.rank[s] + 1] = g.count[s] + 1
  BY <1>3 DEF Alike
<1>5. /\ \A s \in Symbol : g.rank[s] \in Symbol /\ g.map[s] \in Symbol /\ g.count[s] \in Nat
      /\ \A s \in Symbol : g.map[g.rank[s]] = s
      /\ \A r \in Symbol : g.rank[g.map[r]] = r
      /\ g \in [count : [Symbol -> Nat], rank : [Symbol -> Symbol], map : [Symbol -> Symbol]]
  BY DEF Ranked
<1>6. \A r \in Symbol : r \in Nat /\ r + 1 \in 1 .. alphabet_size /\ r + 1 \in Index /\ r \in Letters
  BY SymbolIsLetter DEF Letters, Index
<1>7. PICK j \in 0 .. g.rank[symbol] :
        /\ j \in Symbol /\ g.count[g.map[j]] = g.count[symbol]
        /\ j > 0 => g.count[g.map[j - 1]] >= g.count[symbol] + 1
        /\ new = [count |-> [g.count EXCEPT ![symbol] = @ + 1],
                  rank  |-> [g.rank EXCEPT ![g.map[j]] = g.rank[symbol], ![symbol] = j],
                  map   |-> [g.map EXCEPT ![g.rank[symbol]] = g.map[j], ![j] = symbol]]
  BY Overtakes
<1>8. /\ \A s \in Symbol : new.count[s] = IF s = symbol THEN g.count[s] + 1 ELSE g.count[s]
      /\ \A s \in Symbol : new.rank[s] = IF s = symbol THEN j ELSE IF s = g.map[j] THEN g.rank[symbol] ELSE g.rank[s]
  <2>1. /\ new.count = [g.count EXCEPT ![symbol] = @ + 1]
        /\ new.rank = [g.rank EXCEPT ![g.map[j]] = g.rank[symbol], ![symbol] = j]
    BY <1>7
  <2>2. g.count \in [Symbol -> Nat] /\ g.rank \in [Symbol -> Symbol] /\ g.map[j] \in Symbol
    BY <1>5, <1>7
  <2> HIDE DEF new
  <2> QED BY <2>1, <2>2
<1> HIDE DEF new
<1>9. /\ i \in 1 .. index /\ i \in 1 .. alphabet_size
      /\ \A n \in i .. index : f[n] = f[index]
      /\ i > 1 => f[i - 1] > f[i]
  BY <1>2, FirstOfEqualIs
<1>10. /\ \A n \in Index : e.frequencies[n] = IF n = i THEN f[n] + 1 ELSE f[n]
       /\ \A s \in Letters : e.symbol_to_index[s] = IF s = m[index] THEN i ELSE IF s = m[i] THEN index
                                                    ELSE d.symbol_to_index[s]
  BY <1>2, <1>3, CountedIs
<1>11. index = g.rank[symbol] + 1 /\ m[index] = symbol
  <2>1. m[d.symbol_to_index[symbol]] = symbol
    BY <1>2 DEF Distributed
  <2> QED BY <1>4, <2>1
<1>12. \A r \in Symbol : m[r + 1] = g.map[r] /\ f[r + 1] = g.count[g.map[r]] + 1
  <2> SUFFICES ASSUME NEW r \in Symbol PROVE m[r + 1] = g.map[r] /\ f[r + 1] = g.count[g.map[r]] + 1
    OBVIOUS
  <2>1. g.map[r] \in Symbol /\ g.rank[g.map[r]] = r
    BY <1>5
  <2>2. d.symbol_to_index[g.map[r]] = r + 1 /\ f[r + 1] = g.count[g.map[r]] + 1
    BY <1>4, <2>1
  <2>3. g.map[r] \in Letters
    BY <2>1, SymbolIsLetter
  <2>4. m[d.symbol_to_index[g.map[r]]] = g.map[r]
    BY <2>3 DEF Distributed
  <2> QED BY <2>2, <2>4
<1>13. \A n \in Index : f[n] \in Nat
  BY DEF Distributed, Distributions
<1> HIDE DEF i, f, m, index
<1>14. g.rank[symbol] \in Nat /\ j \in Nat /\ j <= g.rank[symbol] /\ g.rank[symbol] \in Symbol
  <2>1. g.rank[symbol] \in Symbol
    BY <1>5
  <2>2. g.rank[symbol] \in Nat
    BY <1>6, <2>1
  <2> QED BY <1>7, <2>1, <2>2
<1>15. f[index] = g.count[symbol] + 1 /\ g.count[symbol] \in Nat
  BY <1>4, <1>5, <1>11
<1>16. i = j + 1
  <2>1. ~ (j + 1 > i)
    <3> SUFFICES ASSUME j + 1 > i PROVE FALSE
      OBVIOUS
    <3>1. j > 0 /\ j \in i .. index /\ j - 1 \in 0 .. g.rank[symbol]
      BY <1>9, <1>11, <1>14
    <3>2. j - 1 \in Symbol
      BY GammaAssumption, <1>14, <3>1 DEF Symbol
    <3>3. g.count[g.map[j - 1]] >= g.count[symbol] + 1 /\ f[(j - 1) + 1] = g.count[g.map[j - 1]] + 1
      BY <1>7, <1>12, <3>1, <3>2
    <3>4. f[j] = f[index] /\ (j - 1) + 1 = j /\ g.count[g.map[j - 1]] \in Nat
      BY <1>5, <1>9, <1>14, <3>1, <3>2
    <3> QED BY <1>15, <3>3, <3>4
  <2>2. ~ (j + 1 < i)
    <3> SUFFICES ASSUME j + 1 < i PROVE FALSE
      OBVIOUS
    <3>1. i > 1 /\ i - 1 \in 1 .. index - 1 /\ i - 2 \in 0 .. g.rank[symbol] /\ i - 2 >= j /\ (i - 2) + 1 = i - 1
      BY <1>9, <1>11, <1>14
    <3>2. f[i - 1] > f[i] /\ f[i] = f[index] /\ i - 1 \in Index /\ i \in Index
      <4>1. i \in i .. index
        BY <1>9
      <4>2. i - 1 \in Index /\ i \in Index
        BY <1>9, <3>1
      <4> QED BY <1>9, <3>1, <4>1, <4>2
    <3>3. f[j + 1] = f[index]
      BY <1>7, <1>12, <1>15
    <3>4. f[j + 1] >= f[i - 1]
      <4>1. i - 2 \in Symbol /\ j \in Symbol
        BY GammaAssumption, <1>7, <1>9, <1>14, <3>1 DEF Symbol
      <4>2. f[i - 1] = g.count[g.map[i - 2]] + 1 /\ f[j + 1] = g.count[g.map[j]] + 1
        BY <1>12, <3>1, <4>1
      <4>3. CASE j = i - 2
        BY <3>1, <3>2, <1>13, <4>3
      <4>4. CASE j # i - 2
        <5>1. j < i - 2
          BY <3>1, <4>4, <1>9, <1>14
        <5>2. g.count[g.map[j]] >= g.count[g.map[i - 2]]
          BY <4>1, <5>1 DEF Ranked, Falls
        <5>3. g.count[g.map[j]] \in Nat /\ g.count[g.map[i - 2]] \in Nat
          BY <1>5, <4>1
        <5> QED BY <4>2, <5>2, <5>3
      <4> QED BY <4>3, <4>4
    <3>5. f[i - 1] \in Nat /\ f[i] \in Nat
      BY <1>13, <3>2
    <3> QED BY <3>2, <3>3, <3>4, <3>5
  <2> QED BY <1>9, <1>14, <2>1, <2>2
<1>17. m[i] = g.map[j] /\ f[i] = f[index]
  <2>1. i \in i .. index
    BY <1>9
  <2> QED BY <1>7, <1>9, <1>12, <1>16, <2>1
<1>18. ASSUME NEW s \in Symbol PROVE e.symbol_to_index[s] = new.rank[s] + 1
  <2>1. s \in Letters /\ d.symbol_to_index[s] = g.rank[s] + 1
    BY <1>4, <1>6
  <2>2. e.symbol_to_index[s] = IF s = symbol THEN j + 1 ELSE IF s = g.map[j] THEN g.rank[symbol] + 1 ELSE g.rank[s] + 1
    BY <1>10, <1>11, <1>16, <1>17, <2>1
  <2> QED BY <1>8, <2>2
<1>19. ASSUME NEW s \in Symbol PROVE e.frequencies[new.rank[s] + 1] = new.count[s] + 1
  <2>1. \A r \in Symbol : e.frequencies[r + 1] = IF r = j THEN f[r + 1] + 1 ELSE f[r + 1]
    <3> SUFFICES ASSUME NEW r \in Symbol PROVE e.frequencies[r + 1] = IF r = j THEN f[r + 1] + 1 ELSE f[r + 1]
      OBVIOUS
    <3>1. r + 1 \in Index /\ (r + 1 = j + 1 <=> r = j)
      BY <1>6, <1>14
    <3> QED BY <1>10, <1>16, <3>1
  <2>2. CASE s = symbol
    <3>1. new.rank[s] = j /\ new.count[s] = g.count[s] + 1
      BY <1>8, <2>2
    <3>2. e.frequencies[j + 1] = f[j + 1] + 1 /\ f[j + 1] = g.count[symbol] + 1
      BY <1>7, <1>15, <1>16, <1>17, <2>1
    <3> QED BY <2>2, <3>1, <3>2
  <2>3. CASE s # symbol /\ s = g.map[j]
    <3>1. new.rank[s] = g.rank[symbol] /\ new.count[s] = g.count[s]
      BY <1>8, <2>3
    <3>2. g.rank[symbol] # j
      BY <1>5, <2>3
    <3>3. e.frequencies[g.rank[symbol] + 1] = f[g.rank[symbol] + 1]
      BY <1>14, <2>1, <3>2
    <3>4. f[g.rank[symbol] + 1] = g.count[symbol] + 1 /\ g.count[s] = g.count[symbol]
      BY <1>7, <1>11, <1>15, <2>3
    <3> QED BY <3>1, <3>3, <3>4
  <2>4. CASE s # symbol /\ s # g.map[j]
    <3>1. new.rank[s] = g.rank[s] /\ new.count[s] = g.count[s]
      BY <1>8, <2>4
    <3>2. g.rank[s] # j /\ g.rank[s] \in Symbol
      BY <1>5, <2>4
    <3>3. e.frequencies[g.rank[s] + 1] = f[g.rank[s] + 1] /\ f[g.rank[s] + 1] = g.count[s] + 1
      BY <1>4, <2>1, <3>2
    <3> QED BY <3>1, <3>3
  <2> QED BY <2>2, <2>3, <2>4
<1> QED BY <1>18, <1>19

\* The arithmetic encoders between the symbols.
ArithmeticTrail(e) ==
  /\ e[0] = NewArithmetic
  /\ \A k \in 1 .. Len(sent) : e[k] = encode(e[k - 1], sent[k])
  /\ \A k \in 0 .. Len(sent) : Fine(e[k])

\* The archive is what the last of them wrote for the end of the file, a one,
\* and zeros.
Ended(last) ==
  /\ aenc.dist = last.dist /\ Ready(aenc.reg)
  /\ \A p \in Nat : Padded(p) = IF p < Len(last.reg.out) THEN last.reg.out[p + 1]
                                ELSE IF p = Len(last.reg.out) THEN 1 ELSE 0

\* Where the encoder is.
AtArithmeticEnd(e) ==
  /\ ~closed => aenc = e[Len(sent)] /\ Alike(aenc.dist, enc)
  /\ closed => Ended(encode(e[Len(sent)], eof_symbol))

ArithmeticInv == GammaInv /\ \E e : ArithmeticTrail(e) /\ AtArithmeticEnd(e)

LEMMA ArithmeticInvInit == BothInit => ArithmeticInv
<1> SUFFICES ASSUME BothInit PROVE ArithmeticInv
  OBVIOUS
<1>1. GammaInv /\ sent = <<>> /\ closed = FALSE /\ enc = NewCoder /\ aenc = NewArithmetic
  BY GammaInvInit DEF BothInit, Init
<1>2. Len(sent) = 0
  BY <1>1
<1> DEFINE e == [k \in Nat |-> NewArithmetic]
<1>3. ArithmeticTrail(e)
  <2>1. \A k \in 0 .. 0 : k = 0
    OBVIOUS
  <2>2. e[0] = NewArithmetic
    OBVIOUS
  <2> HIDE DEF e
  <2> QED BY <1>2, <2>1, <2>2, NewFine DEF ArithmeticTrail
<1>4. aenc = e[Len(sent)]
  BY <1>1, <1>2
<1>5. Alike(aenc.dist, enc)
  BY <1>1, NewAlike DEF NewArithmetic
<1> HIDE DEF e
<1> QED BY <1>1, <1>3, <1>4, <1>5 DEF ArithmeticInv, AtArithmeticEnd

\* Encoding makes the trail longer.
LEMMA EncodeBothKeeps ==
  ASSUME ArithmeticInv, NEW symbol \in Symbol, EncodeBoth(symbol)
  PROVE  ArithmeticInv'
<1>1. GammaInv /\ Encode(symbol) /\ aenc' = encode(aenc, symbol)
  BY DEF ArithmeticInv, EncodeBoth
<1>2. GammaInv'
  BY <1>1, EncodeKeeps
<1>3. ~closed /\ closed' = closed /\ sent' = Append(sent, symbol) /\ enc' = update_frequencies(enc, symbol)
  BY <1>1 DEF Encode
<1>4. PICK e : ArithmeticTrail(e) /\ aenc = e[Len(sent)] /\ Alike(aenc.dist, enc)
  BY <1>3 DEF ArithmeticInv, AtArithmeticEnd
<1>5. sent \in Seq(Symbol) /\ Ranked(enc)
  <2>1. PICK at, start : Trail(at, start) /\ AtEnd(at, start)
    BY <1>1 DEF GammaInv
  <2>2. sent \in Seq(Symbol)
    BY <1>1 DEF GammaInv, GammaTypes
  <2>3. Len(sent) \in 0 .. Len(sent)
    BY <2>2
  <2> QED BY <2>1, <2>2, <2>3 DEF Trail, AtEnd
<1> DEFINE n == Len(sent)
<1>6. n \in Nat /\ Len(sent') = n + 1 /\ sent'[n + 1] = symbol /\ \A k \in 1 .. n : sent'[k] = sent[k]
  BY <1>3, <1>5, AppendProperties
<1>7. PICK d : (\A k \in 0 .. n : d[k] = e[k]) /\ d[n + 1] = aenc'
  <2> DEFINE x == [k \in Nat |-> IF k <= n THEN e[k] ELSE aenc']
  <2>1. (\A k \in 0 .. n : x[k] = e[k]) /\ x[n + 1] = aenc'
    BY <1>6
  <2> HIDE DEF x
  <2> QED BY <2>1
<1> HIDE DEF n
<1>8. /\ e[0] = NewArithmetic /\ aenc = e[n]
      /\ \A k \in 1 .. n : e[k] = encode(e[k - 1], sent[k])
      /\ \A k \in 0 .. n : Fine(e[k])
  BY <1>4 DEF ArithmeticTrail, n
<1>9. Fine(aenc') /\ Fine(aenc)
  <2>1. n \in 0 .. n /\ symbol \in Letters
    BY <1>6, SymbolIsLetter
  <2>2. Fine(aenc)
    BY <1>8, <2>1
  <2> QED BY <1>1, <2>1, <2>2, EncodeFine
<1>10. ArithmeticTrail(d)'
  <2>1. d[0] = NewArithmetic
    BY <1>6, <1>7, <1>8
  <2>2. ASSUME NEW k \in 1 .. n + 1 PROVE d[k] = encode(d[k - 1], sent'[k])
    <3>1. CASE k = n + 1
      <4>1. k - 1 = n /\ n \in 0 .. n
        BY <1>6, <3>1
      <4>2. d[k - 1] = aenc /\ d[k] = aenc' /\ sent'[k] = symbol
        BY <1>6, <1>7, <1>8, <3>1, <4>1
      <4> QED BY <1>1, <4>2
    <3>2. CASE k # n + 1
      <4>1. k \in 1 .. n /\ k \in 0 .. n /\ k - 1 \in 0 .. n
        BY <1>6, <3>2
      <4>2. d[k - 1] = e[k - 1] /\ d[k] = e[k] /\ sent'[k] = sent[k]
        BY <1>6, <1>7, <4>1
      <4>3. e[k] = encode(e[k - 1], sent[k])
        BY <1>8, <4>1
      <4> QED BY <4>2, <4>3
    <3> QED BY <3>1, <3>2
  <2>3. ASSUME NEW k \in 0 .. n + 1 PROVE Fine(d[k])
    <3>1. k = n + 1 \/ k \in 0 .. n
      BY <1>6
    <3> QED BY <1>7, <1>8, <1>9, <3>1
  <2> QED BY <1>6, <2>1, <2>2, <2>3 DEF ArithmeticTrail
<1>11. Alike(aenc.dist, enc)'
  <2>1. aenc'.dist = update_distribution(aenc.dist, aenc.dist.symbol_to_index[symbol])
    BY <1>1 DEF encode
  <2>2. Distributed(aenc.dist)
    BY <1>9 DEF Fine
  <2>3. Alike(aenc'.dist, enc')
    BY <1>3, <1>4, <1>5, <2>1, <2>2, AlikeStep
  <2> QED BY <2>3
<1>12. aenc' = d[Len(sent')]
  BY <1>6, <1>7
<1>13. ~closed'
  BY <1>3
<1>14. AtArithmeticEnd(d)'
  BY <1>11, <1>12, <1>13 DEF AtArithmeticEnd
<1> QED BY <1>2, <1>10, <1>14 DEF ArithmeticInv

\* The end of an archive.
LEMMA CloseBothKeeps ==
  ASSUME ArithmeticInv, CloseBoth
  PROVE  ArithmeticInv'
<1> USE GammaAssumption
<1>1. GammaInv /\ Close
  BY DEF ArithmeticInv, CloseBoth
<1>2. GammaInv'
  BY <1>1, CloseKeeps
<1>3. ~closed /\ closed' = TRUE /\ sent' = sent /\ enc' = enc
  BY <1>1 DEF Close
<1>4. PICK e : ArithmeticTrail(e) /\ aenc = e[Len(sent)]
  BY <1>3 DEF ArithmeticInv, AtArithmeticEnd
<1>l. PICK last : last = encode(e[Len(sent)], eof_symbol)
  OBVIOUS
<1> DEFINE out == last.reg.out
           whole == Append(out, 1)
           m == (BITS - (Len(whole) % BITS)) % BITS
           zeros == [k \in 1 .. m |-> 0]
<1>5. Fine(last)
  <2>1. sent \in Seq(Symbol)
    BY <1>1 DEF GammaInv, GammaTypes
  <2>2. Len(sent) \in 0 .. Len(sent)
    BY <2>1
  <2>3. Fine(e[Len(sent)])
    BY <1>4, <2>2 DEF ArithmeticTrail
  <2> QED BY <1>l, <2>3, EncodeFine, SymbolIsLetter
<1>6. aenc' = [reg |-> [[last.reg EXCEPT !.out = whole] EXCEPT !.out = whole \o zeros], dist |-> last.dist]
  <2> DEFINE done == encode_end(aenc, eof_symbol)
             fill == [k \in 1 .. (BITS - (Len(done.reg.out) % BITS)) % BITS |-> 0]
  <2>1. done = [reg |-> [last.reg EXCEPT !.out = Append(@, 1)], dist |-> last.dist]
    BY <1>4, <1>l DEF encode_end
  <2>2. done.reg = [last.reg EXCEPT !.out = Append(@, 1)] /\ done.dist = last.dist
    BY <2>1
  <2>3. last.reg \in Registers
    BY <1>5 DEF Fine, Ready, About
  <2>4. done.reg = [last.reg EXCEPT !.out = whole]
    BY <2>2
  <2>5. done.reg.out = whole
    <3> HIDE DEF done, whole
    <3> QED BY <2>3, <2>4 DEF Registers
  <2>6. aenc' = [reg |-> [done.reg EXCEPT !.out = @ \o fill], dist |-> done.dist]
    BY DEF CloseBoth
  <2>7. fill = zeros
    <3> HIDE DEF done, whole
    <3> QED BY <2>5
  <2> HIDE DEF done, whole, fill, zeros
  <2> QED BY <2>2, <2>4, <2>5, <2>6, <2>7
<1>7. last.reg \in Registers /\ out \in Seq({0, 1}) /\ Ready(last.reg)
  <2>1. last.reg \in Registers /\ Ready(last.reg)
    BY <1>5 DEF Fine, Ready, About
  <2> QED BY <2>1, RegisterRanges
<1> HIDE DEF out
<1>8. /\ whole \in Seq({0, 1}) /\ Len(whole) = Len(out) + 1 /\ whole[Len(out) + 1] = 1
      /\ Len(out) \in Nat /\ \A k \in 1 .. Len(out) : whole[k] = out[k]
  BY <1>7, AppendProperties
<1> HIDE DEF whole
<1>9. m \in Nat
  <2>1. \A a \in Int : a % BITS \in Nat
    OBVIOUS
  <2>2. Len(whole) % BITS \in Int
    BY <1>8
  <2>3. BITS - (Len(whole) % BITS) \in Int
    BY <2>2
  <2> QED BY <2>1, <2>3
<1> HIDE DEF m
<1>10. zeros \in Seq({0, 1}) /\ Len(zeros) = m /\ \A k \in 1 .. m : zeros[k] = 0
  <2>1. zeros \in [1 .. m -> {0, 1}]
    OBVIOUS
  <2> QED BY <1>9, <2>1
<1> HIDE DEF zeros
<1> DEFINE all == whole \o zeros
<1>11. /\ all \in Seq({0, 1}) /\ Len(all) = Len(whole) + m
       /\ \A k \in 1 .. Len(whole) + m : all[k] = IF k <= Len(whole) THEN whole[k] ELSE zeros[k - Len(whole)]
  <2>1. Len(whole) \in Nat
    BY <1>8
  <2>2. /\ all \in Seq({0, 1}) /\ Len(all) = Len(whole) + Len(zeros)
        /\ \A k \in 1 .. Len(whole) + Len(zeros) : all[k] = IF k <= Len(whole) THEN whole[k] ELSE zeros[k - Len(whole)]
    <3>1. whole \in Seq({0, 1}) /\ zeros \in Seq({0, 1})
      BY <1>8, <1>10
    <3> QED BY <3>1, ConcatProperties DEF all
  <2> HIDE DEF all
  <2> QED BY <1>10, <2>2
<1> HIDE DEF all
<1>12. aenc'.dist = last.dist /\ aenc'.reg = [[last.reg EXCEPT !.out = whole] EXCEPT !.out = all]
  BY <1>6 DEF all
<1>13. aenc'.reg \in Registers /\ aenc'.reg.low = last.reg.low /\ aenc'.reg.high = last.reg.high /\ aenc'.reg.out = all
  BY <1>7, <1>11, <1>12 DEF Registers
<1>14. Ready(aenc.reg)'
  <2>1. Ready(aenc'.reg)
    BY <1>7, <1>13 DEF Ready, About
  <2> QED BY <2>1
<1>15. ASSUME NEW p \in Nat
       PROVE  Padded(p)' = IF p < Len(out) THEN out[p + 1] ELSE IF p = Len(out) THEN 1 ELSE 0
  <2>1. Padded(p)' = IF p < Len(all) THEN all[p + 1] ELSE 0
    BY <1>13 DEF Padded
  <2>2. CASE p < Len(out)
    <3>1. p + 1 \in 1 .. Len(whole) + m /\ p + 1 <= Len(whole) /\ p + 1 \in 1 .. Len(out) /\ p < Len(all)
      BY <1>8, <1>9, <1>11, <2>2
    <3>2. all[p + 1] = out[p + 1]
      BY <1>8, <1>11, <3>1
    <3> QED BY <2>1, <2>2, <3>1, <3>2
  <2>3. CASE p = Len(out)
    <3>1. p + 1 \in 1 .. Len(whole) + m /\ p + 1 <= Len(whole) /\ p < Len(all)
      BY <1>8, <1>9, <1>11, <2>3
    <3>2. all[p + 1] = 1
      BY <1>8, <1>11, <2>3, <3>1
    <3> QED BY <1>8, <2>1, <2>3, <3>1, <3>2
  <2>4. CASE p > Len(out)
    <3>1. CASE p < Len(all)
      <4>1. p + 1 \in 1 .. Len(whole) + m /\ ~ (p + 1 <= Len(whole)) /\ p + 1 - Len(whole) \in 1 .. m
        BY <1>8, <1>9, <1>11, <2>4, <3>1
      <4>2. all[p + 1] = 0
        BY <1>10, <1>11, <4>1
      <4> QED BY <1>8, <2>1, <2>4, <3>1, <4>2
    <3> QED BY <1>8, <2>1, <2>4, <3>1
  <2> QED BY <1>8, <2>2, <2>3, <2>4
<1>16. Ended(last)'
  BY <1>12, <1>14, <1>15 DEF Ended, out
<1>17. ArithmeticTrail(e)'
  BY <1>3, <1>4 DEF ArithmeticTrail
<1>18. Ended(encode(e[Len(sent)], eof_symbol))'
  <2>1. encode(e[Len(sent')], eof_symbol) = last
    BY <1>3, <1>l
  <2> QED BY <1>16, <2>1
<1>19. AtArithmeticEnd(e)'
  BY <1>3, <1>18 DEF AtArithmeticEnd
<1> QED BY <1>2, <1>17, <1>19 DEF ArithmeticInv

\* The steps that leave the encoders alone.
LEMMA IdleKeeps ==
  ASSUME ArithmeticInv, GammaInv', UNCHANGED <<sent, closed, enc, aenc>>
  PROVE  ArithmeticInv'
<1>1. PICK e : ArithmeticTrail(e) /\ AtArithmeticEnd(e)
  BY DEF ArithmeticInv
<1>2. ArithmeticTrail(e)'
  BY <1>1 DEF ArithmeticTrail
<1>3. AtArithmeticEnd(e)'
  BY <1>1 DEF AtArithmeticEnd, Ended, Padded, Alike
<1> QED BY <1>2, <1>3 DEF ArithmeticInv

LEMMA ArithmeticInvStep == ArithmeticInv /\ [BothNext]_allVars => ArithmeticInv'
<1> SUFFICES ASSUME ArithmeticInv, [BothNext]_allVars PROVE ArithmeticInv'
  OBVIOUS
<1>g. GammaInv
  BY DEF ArithmeticInv
<1>1. CASE \E symbol \in Symbol : EncodeBoth(symbol)
  BY <1>1, EncodeBothKeeps
<1>2. CASE CloseBoth
  BY <1>2, CloseBothKeeps
<1>3. CASE DecodeGamma
  <2>1. GammaInv'
    BY <1>g, <1>3, DecodeKeeps DEF DecodeGamma
  <2>2. UNCHANGED <<sent, closed, enc, aenc>>
    BY <1>3 DEF DecodeGamma, Decode, avars
  <2> QED BY <2>1, <2>2, IdleKeeps
<1>4. ASSUME UNCHANGED vars, aenc' = aenc PROVE ArithmeticInv'
  <2>1. GammaInv'
    BY <1>g, <1>4, GammaInvStep
  <2>2. UNCHANGED <<sent, closed, enc, aenc>>
    BY <1>4 DEF vars
  <2> QED BY <2>1, <2>2, IdleKeeps
<1>5. CASE StartArithmetic
  BY <1>4, <1>5 DEF StartArithmetic
<1>6. CASE DecodeArithmetic
  BY <1>4, <1>6 DEF DecodeArithmetic
<1>7. CASE UNCHANGED allVars
  BY <1>4, <1>7 DEF allVars, vars, avars
<1> QED BY <1>1, <1>2, <1>3, <1>5, <1>6, <1>7 DEF BothNext

LEMMA ArithmeticInvAlways == BothSpec => []ArithmeticInv
BY ArithmeticInvInit, ArithmeticInvStep, PTL DEF BothSpec

\* The encoder's distribution is one, however often it was halved: the sums are
\* the sums of the frequencies, these fall, the maps are inverse, and no share
\* of the interval is empty; and until then it ranks as the gamma coder does.
THEOREM DistributionCorrect == BothSpec => []Distribution
<1>1. ArithmeticInv => Distribution
  <2> SUFFICES ASSUME ArithmeticInv PROVE Distribution
    OBVIOUS
  <2>1. PICK e : /\ ArithmeticTrail(e)
                 /\ ~closed => aenc = e[Len(sent)] /\ Alike(aenc.dist, enc)
                 /\ closed => Ended(encode(e[Len(sent)], eof_symbol))
    BY DEF ArithmeticInv, AtArithmeticEnd
  <2>2. Fine(e[Len(sent)])
    <3>1. sent \in Seq(Symbol)
      BY DEF ArithmeticInv, GammaInv, GammaTypes
    <3>2. Len(sent) \in 0 .. Len(sent)
      BY <3>1
    <3> QED BY <2>1, <3>2 DEF ArithmeticTrail
  <2>3. Fine(aenc)
    <3>1. CASE closed
      <4>1. Fine(encode(e[Len(sent)], eof_symbol))
        BY <2>2, EncodeFine, SymbolIsLetter
      <4> QED BY <2>1, <3>1, <4>1 DEF Ended, Fine
    <3> QED BY <2>1, <2>2, <3>1
  <2> DEFINE d == aenc.dist
  <2>4. Distributed(d)
    BY <2>3 DEF Fine
  <2>5. ASSUME NEW i \in 1 .. alphabet_size
        PROVE  /\ d.cumulative[i - 1] - d.cumulative[i] = d.frequencies[i]
               /\ i > 1 => d.frequencies[i - 1] >= d.frequencies[i]
               /\ d.symbol_to_index[d.index_to_symbol[i]] = i
               /\ Bound(aenc, i) < Bound(aenc, i - 1)
    <3>1. /\ d.cumulative[i - 1] = d.cumulative[i] + d.frequencies[i]
          /\ i > 1 => d.frequencies[i - 1] >= d.frequencies[i]
          /\ d.symbol_to_index[d.index_to_symbol[i]] = i
      BY <2>4 DEF Distributed
    <3>2. Bound(aenc, i) < Bound(aenc, i - 1)
      BY <2>3, Shares
    <3>3. i \in Index /\ d.cumulative \in [Index -> Nat] /\ d.frequencies \in [Index -> Nat]
      BY <2>4, DistributionRanges DEF Distributed, Distributions
    <3>4. d.cumulative[i] \in Nat /\ d.frequencies[i] \in Nat
      BY <3>3
    <3> HIDE DEF d
    <3>5. d.cumulative[i - 1] - d.cumulative[i] = d.frequencies[i]
      BY <3>1, <3>4
    <3> QED BY <3>1, <3>2, <3>5
  <2>6. ASSUME ~closed, d.cumulative[alphabet_size] = 1
        PROVE  \A s \in Symbol : d.symbol_to_index[s] = enc.rank[s] + 1
    BY <2>1, <2>6 DEF Alike
  <2> QED BY <2>5, <2>6 DEF Distribution
<1> QED BY <1>1, ArithmeticInvAlways, PTL

-------------------------------------------------------------------------------
(* The archive as a number. *)

Bits01 == \A p \in Nat : Padded(p) \in {0, 1}

\* window[p] is the number in the FRACTION_BITS - 1 bits from p on.
Window(window) ==
  \A p \in Nat :
    /\ window[p] \in Nat /\ window[p] < TOP_BIT_MASK
    /\ 2 * window[p] + Padded(p + FRACTION_BITS - 1) = Padded(p) * TOP_BIT_MASK + window[p + 1]
    /\ (\A q \in Nat : q >= p => Padded(q) = 0) => window[p] = 0

\* Induction over the turns of a loop, and back.
LEMMA TurnInduction ==
  ASSUME NEW T, 0 \in T, \A n \in 1 .. FRACTION_BITS : n - 1 \in T => n \in T
  PROVE  \A n \in 0 .. FRACTION_BITS : n \in T
BY DistributionRanges, StepsUp

LEMMA TurnInductionBack ==
  ASSUME NEW T, FRACTION_BITS \in T, \A n \in 1 .. FRACTION_BITS : n \in T => n - 1 \in T
  PROVE  \A n \in 0 .. FRACTION_BITS : n \in T
BY DistributionRanges, StepsDown

\* The number in the first k bits from p on, for every p.
LEMMA Values ==
  ASSUME Bits01
  PROVE  \E V : /\ \A p \in Nat, k \in 0 .. FRACTION_BITS : V[p][k] \in Nat /\ V[p][k] < power[k]
                /\ \A p \in Nat : V[p][0] = 0
                /\ \A p \in Nat, k \in 1 .. FRACTION_BITS : V[p][k] = 2 * V[p][k - 1] + Padded(p + k - 1)
                /\ \A p \in Nat, k \in 1 .. FRACTION_BITS : V[p][k] = Padded(p) * power[k - 1] + V[p + 1][k - 1]
                /\ \A p \in Nat : (\A q \in Nat : q >= p => Padded(q) = 0) =>
                     \A k \in 0 .. FRACTION_BITS : V[p][k] = 0
<1> USE DistributionRanges
<1> DEFINE F == FRACTION_BITS
           Is(p, f) == f[0] = 0 /\ \A k \in 1 .. F : f[k] = 2 * f[k - 1] + Padded(p + k - 1)
           V == [p \in Nat |-> CHOOSE f \in [0 .. F -> Nat] : Is(p, f)]
<1>1. ASSUME NEW p \in Nat PROVE \E f \in [0 .. F -> Nat] : Is(p, f)
  <2> DEFINE G == [k \in Nat |-> [x \in Nat |-> IF k \in 1 .. F THEN 2 * x + Padded(p + k - 1) ELSE x]]
  <2>1. G \in [Nat -> [Nat -> Nat]]
    <3>1. ASSUME NEW k \in Nat, NEW x \in Nat
          PROVE  (IF k \in 1 .. F THEN 2 * x + Padded(p + k - 1) ELSE x) \in Nat
      <4>1. CASE k \in 1 .. F
        <5>1. p + k - 1 \in Nat
          BY <4>1
        <5>2. Padded(p + k - 1) \in {0, 1}
          BY <5>1 DEF Bits01
        <5> QED BY <4>1, <5>2
      <4> QED BY <4>1
    <3> QED BY <3>1
  <2>2. RecursiveOn(Nat, 0, G, F)
    <3> HIDE DEF G
    <3> QED BY <2>1, IntervalRecursion
  <2>3. PICK f \in [0 .. F -> Nat] : f[0] = 0 /\ \A k \in 1 .. F : f[k] = G[k][f[k - 1]]
    <3> HIDE DEF G
    <3> QED BY <2>2 DEF RecursiveOn
  <2>4. ASSUME NEW k \in 1 .. F PROVE f[k] = 2 * f[k - 1] + Padded(p + k - 1)
    <3>1. k \in Nat /\ k - 1 \in 0 .. F
      OBVIOUS
    <3>2. f[k - 1] \in Nat
      BY <2>3, <3>1
    <3>3. G[k][f[k - 1]] = 2 * f[k - 1] + Padded(p + k - 1)
      BY <3>1, <3>2
    <3> HIDE DEF G
    <3> QED BY <2>3, <3>3
  <2> QED BY <2>3, <2>4
<1>2. ASSUME NEW p \in Nat PROVE V[p] \in [0 .. F -> Nat] /\ Is(p, V[p])
  <2>1. V[p] = CHOOSE f \in [0 .. F -> Nat] : Is(p, f)
    OBVIOUS
  <2> HIDE DEF Is, V
  <2> QED BY <1>1, <2>1
<1>3. /\ \A p \in Nat, k \in 0 .. F : V[p][k] \in Nat
      /\ \A p \in Nat : V[p][0] = 0
      /\ \A p \in Nat, k \in 1 .. F : V[p][k] = 2 * V[p][k - 1] + Padded(p + k - 1)
  <2> HIDE DEF V
  <2> QED BY <1>2
<1> HIDE DEF V, Is
<1>4. /\ power[0] = 1 /\ \A k \in 1 .. F : power[k] = 2 * power[k - 1]
      /\ \A k \in 0 .. F : power[k] \in Nat \ {0}
  <2>1. \A k \in 1 .. F : k \in 1 .. F + 1
    OBVIOUS
  <2>2. \A k \in 0 .. F : k \in 0 .. F + 1
    OBVIOUS
  <2> QED BY <2>1, <2>2, PowerUnfold
<1>5. \A p \in Nat, k \in 0 .. F : V[p][k] < power[k]
  <2> SUFFICES ASSUME NEW p \in Nat PROVE \A k \in 0 .. F : V[p][k] < power[k]
    OBVIOUS
  <2> DEFINE T == {k \in Nat : V[p][k] < power[k]}
  <2>1. 0 \in T
    BY <1>3, <1>4
  <2>2. ASSUME NEW k \in 1 .. F, k - 1 \in T PROVE k \in T
    <3>1. V[p][k - 1] < power[k - 1] /\ k - 1 \in 0 .. F /\ p + k - 1 \in Nat
      BY <2>2
    <3>2. V[p][k] = 2 * V[p][k - 1] + Padded(p + k - 1) /\ power[k] = 2 * power[k - 1]
      BY <1>3, <1>4
    <3>3. V[p][k - 1] \in Nat /\ power[k - 1] \in Nat /\ Padded(p + k - 1) \in {0, 1}
      BY <1>3, <1>4, <3>1 DEF Bits01
    <3>4. V[p][k] < power[k]
      BY <3>1, <3>2, <3>3
    <3> QED BY <3>4
  <2> HIDE DEF T
  <2>3. \A k \in 0 .. F : k \in T
    BY <2>1, <2>2, TurnInduction
  <2> QED BY <2>3 DEF T
<1>6. \A p \in Nat, k \in 1 .. F : V[p][k] = Padded(p) * power[k - 1] + V[p + 1][k - 1]
  <2> SUFFICES ASSUME NEW p \in Nat
               PROVE  \A k \in 1 .. F : V[p][k] = Padded(p) * power[k - 1] + V[p + 1][k - 1]
    OBVIOUS
  <2>b. Padded(p) \in {0, 1} /\ p + 1 \in Nat
    BY DEF Bits01
  <2> DEFINE T == {k \in Nat : k >= 1 => V[p][k] = Padded(p) * power[k - 1] + V[p + 1][k - 1]}
  <2>1. 0 \in T
    OBVIOUS
  <2>2. ASSUME NEW k \in 1 .. F, k - 1 \in T PROVE k \in T
    <3>1. CASE k = 1
      <4>1. V[p][1] = 2 * V[p][1 - 1] + Padded(p + 1 - 1)
        BY <1>3, <3>1
      <4>2. p + 1 - 1 = p /\ 1 - 1 = 0
        OBVIOUS
      <4>3. V[p][0] = 0 /\ V[p + 1][0] = 0
        BY <1>3, <2>b
      <4>4. V[p][1] = Padded(p)
        BY <4>1, <4>2, <4>3, <2>b
      <4>5. Padded(p) * power[0] + V[p + 1][0] = Padded(p)
        BY <1>4, <2>b, <4>3
      <4>6. V[p][k] = Padded(p) * power[k - 1] + V[p + 1][k - 1]
        BY <3>1, <4>2, <4>4, <4>5
      <4> QED BY <4>6
    <3>2. CASE k # 1
      <4>1. k - 1 \in 1 .. F /\ k - 1 >= 1 /\ k - 1 \in 0 .. F /\ k - 2 \in 0 .. F
            /\ (k - 1) - 1 = k - 2 /\ p + k - 1 \in Nat /\ (p + 1) + (k - 1) - 1 = p + k - 1
        BY <3>2
      <4>2. V[p][k - 1] = Padded(p) * power[k - 2] + V[p + 1][k - 2]
        BY <2>2, <4>1
      <4>3. V[p][k] = 2 * V[p][k - 1] + Padded(p + k - 1)
        BY <1>3
      <4>4. V[p + 1][k - 1] = 2 * V[p + 1][k - 2] + Padded(p + k - 1)
        <5>1. V[p + 1][k - 1] = 2 * V[p + 1][(k - 1) - 1] + Padded((p + 1) + (k - 1) - 1)
          BY <1>3, <2>b, <4>1
        <5> QED BY <4>1, <5>1
      <4>5. power[k - 1] = 2 * power[k - 2]
        BY <1>4, <4>1
      <4>6. V[p][k - 1] \in Nat /\ V[p + 1][k - 2] \in Nat /\ V[p + 1][k - 1] \in Nat /\ V[p][k] \in Nat
            /\ power[k - 2] \in Nat /\ Padded(p + k - 1) \in {0, 1}
        <5>1. V[p][k - 1] \in Nat /\ V[p + 1][k - 2] \in Nat /\ V[p + 1][k - 1] \in Nat /\ power[k - 2] \in Nat
          BY <1>3, <1>4, <2>b, <4>1
        <5>2. k \in 0 .. F
          OBVIOUS
        <5>3. V[p][k] \in Nat /\ Padded(p + k - 1) \in {0, 1}
          BY <1>3, <4>1, <5>2 DEF Bits01
        <5> QED BY <5>1, <5>3
      <4>7. V[p][k] = Padded(p) * power[k - 1] + V[p + 1][k - 1]
        <5>1. CASE Padded(p) = 0
          BY <4>2, <4>3, <4>4, <4>5, <4>6, <5>1
        <5>2. CASE Padded(p) = 1
          BY <4>2, <4>3, <4>4, <4>5, <4>6, <5>2
        <5> QED BY <2>b, <5>1, <5>2
      <4> QED BY <4>7
    <3> QED BY <3>1, <3>2
  <2> HIDE DEF T
  <2>3. \A k \in 0 .. F : k \in T
    BY <2>1, <2>2, TurnInduction
  <2>4. \A k \in 1 .. F : k \in 0 .. F /\ k >= 1
    OBVIOUS
  <2> QED BY <2>3, <2>4 DEF T
<1>7. ASSUME NEW p \in Nat, \A q \in Nat : q >= p => Padded(q) = 0 PROVE \A k \in 0 .. F : V[p][k] = 0
  <2> DEFINE T == {k \in Nat : V[p][k] = 0}
  <2>1. 0 \in T
    BY <1>3
  <2>2. ASSUME NEW k \in 1 .. F, k - 1 \in T PROVE k \in T
    <3>1. V[p][k - 1] = 0 /\ p + k - 1 \in Nat /\ p + k - 1 >= p
      BY <2>2
    <3>2. V[p][k] = 2 * V[p][k - 1] + Padded(p + k - 1) /\ Padded(p + k - 1) = 0
      BY <1>3, <1>7, <3>1
    <3> QED BY <3>1, <3>2
  <2> HIDE DEF T
  <2>3. \A k \in 0 .. F : k \in T
    BY <2>1, <2>2, TurnInduction
  <2> QED BY <2>3 DEF T
<1> QED BY <1>3, <1>5, <1>6, <1>7

-------------------------------------------------------------------------------
(* The decoder that follows the encoder. *)

\* It has read FRACTION_BITS bits more than the encoder has decided on.  If
\* those that were put off are the opposite of the one before them, as they
\* will be when they are written, code is that one, without them, and the bits
\* behind.
Matches(f, r, window) ==
  LET m == Len(r.out)
  IN  /\ f \in Registers /\ f.low = r.low /\ f.high = r.high
      /\ f.pos = FRACTION_BITS + m + r.underflow
      /\ (\A j \in 1 .. r.underflow : Padded(m + j) = 1 - Padded(m)) =>
            f.code = Padded(m) * TOP_BIT_MASK + window[m + 1 + r.underflow]

\* The encoder's bits are those of the archive.
Written(r) == \A p \in Nat : p < Len(r.out) => Padded(p) = r.out[p + 1]

Inside(f) == f.low <= f.code /\ f.code <= f.high

\* The decoder's turns.
FollowShift(r) == [Shift(r) EXCEPT !.code = word(Taken(r)), !.pos = @ + 1]
FollowSpread(r) == [Spread(r) EXCEPT !.code = Taken(r) - TOP_BIT_MASK, !.pos = @ + 1]
shiftTurn == [r \in Registers |-> IF Agree(r) THEN FollowShift(r) ELSE r]
spreadTurn == [r \in Registers |-> IF Straddle(r) THEN FollowSpread(r) ELSE r]

LEMMA FollowIs ==
  ASSUME NEW h, NEW symbol
  PROVE  LET index == h.dist.symbol_to_index[symbol]
         IN  /\ Follow(h, symbol).reg = Loop(spreadTurn, Loop(shiftTurn, Narrow(h, index)))
             /\ Follow(h, symbol).dist = update_distribution(h.dist, index)
BY DEF Follow, shiftTurn, spreadTurn, FollowShift, FollowSpread

LEMMA TakenIs ==
  ASSUME Bits01, NEW r \in Registers
  PROVE  Padded(r.pos) \in {0, 1} /\ Taken(r) = 2 * r.code + Padded(r.pos) /\ Taken(r) \in Int
<1>1. r.pos \in Nat /\ r.code \in Int
  BY RegisterRanges
<1>2. Padded(r.pos) \in {0, 1}
  BY <1>1 DEF Bits01
<1>3. Taken(r) = 2 * r.code + Padded(r.pos)
  BY DEF Taken
<1> QED BY <1>1, <1>2, <1>3

LEMMA FollowTurns ==
  ASSUME Bits01
  PROVE  /\ \A r \in Registers : FollowShift(r) \in Registers
         /\ \A r \in Registers : Straddle(r) => FollowSpread(r) \in Registers
         /\ shiftTurn \in [Registers -> Registers] /\ spreadTurn \in [Registers -> Registers]
<1>s. Quarter \in Nat \ {0} /\ TOP_BIT_MASK \in Nat /\ UINT_MAX + 1 \in Nat \ {0}
  BY Masks DEF Quarter
<1>1. ASSUME NEW r \in Registers PROVE FollowShift(r) \in Registers
  <2>1. Taken(r) \in Int
    BY TakenIs
  <2>2. \A x \in Int : word(x) \in Int
    BY <1>s DEF word
  <2>3. word(Taken(r)) \in Int /\ Shift(r) \in Registers
    BY <2>1, <2>2, TurnTypes
  <2> DEFINE x == Shift(r)
             c == word(Taken(r))
  <2>4. FollowShift(r) = [x EXCEPT !.code = c, !.pos = @ + 1]
    BY DEF FollowShift
  <2> HIDE DEF x, c
  <2>5. [x EXCEPT !.code = c, !.pos = @ + 1] \in Registers
    <3>1. x \in Registers /\ c \in Int
      BY <2>3 DEF x, c
    <3> DEFINE y == x.pos + 1
    <3>2. y \in Nat
      BY <3>1 DEF Registers
    <3> HIDE DEF y
    <3>3. [x EXCEPT !.code = c, !.pos = y] \in Registers
      BY <3>1, <3>2 DEF Registers
    <3> QED BY <3>3 DEF y
  <2> QED BY <2>4, <2>5
<1>2. ASSUME NEW r \in Registers, Straddle(r) PROVE FollowSpread(r) \in Registers
  <2>1. Taken(r) \in Int
    BY TakenIs
  <2>2. Taken(r) - TOP_BIT_MASK \in Int /\ Spread(r) \in Registers
    BY <1>s, <1>2, <2>1, TurnTypes
  <2> DEFINE x == Spread(r)
             c == Taken(r) - TOP_BIT_MASK
  <2>4. FollowSpread(r) = [x EXCEPT !.code = c, !.pos = @ + 1]
    BY DEF FollowSpread
  <2>6. x \in Registers /\ c \in Int
    BY <2>2
  <2> HIDE DEF x, c
  <2>5. [x EXCEPT !.code = c, !.pos = @ + 1] \in Registers
    <3> DEFINE y == x.pos + 1
    <3>2. y \in Nat
      BY <2>6 DEF Registers
    <3> HIDE DEF y
    <3>3. [x EXCEPT !.code = c, !.pos = y] \in Registers
      BY <2>6, <3>2 DEF Registers
    <3> QED BY <3>3 DEF y
  <2> QED BY <2>4, <2>5
<1>3. shiftTurn \in [Registers -> Registers]
  BY <1>1 DEF shiftTurn
<1>4. spreadTurn \in [Registers -> Registers]
  BY <1>2 DEF spreadTurn
<1> QED BY <1>1, <1>2, <1>3, <1>4

\* A bit that goes out, and those that were put off, stand in the archive.
LEMMA WrittenBack ==
  ASSUME NEW r, Apart(r), Agree(r), Written(WriteBit(r))
  PROVE  /\ Written(r) /\ Padded(Len(r.out)) = TopBit(r.low)
         /\ \A j \in 1 .. r.underflow : Padded(Len(r.out) + j) = 1 - Padded(Len(r.out))
         /\ Len(WriteBit(r).out) = Len(r.out) + 1 + r.underflow
<1> DEFINE b == TopBit(r.low)
           u == r.underflow
           m == Len(r.out)
           one == Append(r.out, b)
           rest == [j \in 1 .. u |-> 1 - b]
           w == WriteBit(r).out
<1>1. r \in Registers /\ r.out \in Seq({0, 1}) /\ u \in Nat /\ b \in {0, 1} /\ m \in Nat
  <2>1. r \in Registers
    BY DEF Apart
  <2>2. r.out \in Seq({0, 1}) /\ u \in Nat /\ b \in {0, 1}
    BY <2>1, RegisterRanges, TurnTypes
  <2> QED BY <2>1, <2>2
<1>2. w = one \o rest
  BY WriteTurn
<1> HIDE DEF b, w
<1>3. /\ one \in Seq({0, 1}) /\ Len(one) = m + 1 /\ one[m + 1] = b
      /\ \A k \in 1 .. m : one[k] = r.out[k]
  BY <1>1, AppendProperties
<1>4. rest \in Seq({0, 1}) /\ Len(rest) = u /\ \A j \in 1 .. u : rest[j] = 1 - b
  <2>1. rest \in [1 .. u -> {0, 1}]
    BY <1>1
  <2> HIDE DEF u
  <2> QED BY <1>1, <2>1
<1> HIDE DEF one, rest, m, u
<1>5. /\ Len(w) = m + 1 + u
      /\ \A k \in 1 .. m + 1 + u : w[k] = IF k <= m + 1 THEN one[k] ELSE rest[k - (m + 1)]
  <2>1. /\ Len(one \o rest) = Len(one) + Len(rest)
        /\ \A k \in 1 .. Len(one) + Len(rest) : (one \o rest)[k] = IF k <= Len(one) THEN one[k] ELSE rest[k - Len(one)]
    BY <1>3, <1>4, ConcatProperties
  <2> QED BY <1>2, <1>3, <1>4, <2>1
<1>6. \A p \in Nat : p < m + 1 + u => Padded(p) = w[p + 1]
  BY <1>5 DEF Written, w
<1>7. ASSUME NEW p \in Nat, p < m PROVE Padded(p) = r.out[p + 1]
  <2>1. p + 1 \in 1 .. m /\ p + 1 \in 1 .. m + 1 + u /\ p + 1 <= m + 1 /\ p < m + 1 + u
    BY <1>1, <1>7
  <2> QED BY <1>3, <1>5, <1>6, <2>1
<1>8. Padded(m) = b
  <2>1. m + 1 \in 1 .. m + 1 + u /\ m + 1 <= m + 1 /\ m < m + 1 + u
    BY <1>1
  <2> QED BY <1>1, <1>3, <1>5, <1>6, <2>1
<1>9. ASSUME NEW j \in 1 .. u PROVE Padded(m + j) = 1 - b
  <2> DEFINE p == m + j
             k == p + 1
  <2>1. k \in 1 .. m + 1 + u /\ ~ (k <= m + 1) /\ p < m + 1 + u /\ p \in Nat /\ k - (m + 1) = j
    BY <1>1
  <2> HIDE DEF k
  <2>2. Padded(p) = w[k]
    BY <1>6, <2>1 DEF k
  <2>3. w[k] = rest[j]
    BY <1>5, <2>1
  <2> QED BY <1>4, <2>2, <2>3
<1> QED BY <1>5, <1>7, <1>8, <1>9 DEF Written, b, m, u, w

\* The first loop's turn: the bit the two agree on is the first of code's.
LEMMA ShiftMatches ==
  ASSUME Bits01, NEW window, Window(window),
         NEW r, Apart(r), Agree(r), Written(WriteBit(r)), NEW f, Matches(f, r, window)
  PROVE  /\ Agree(f) /\ Matches(FollowShift(f), WriteBit(r), window)
         /\ Inside(FollowShift(f)) => Inside(f)
<1> DEFINE b == TopBit(r.low)
           u == r.underflow
           m == Len(r.out)
           n == m + 1 + u
           w == WriteBit(r)
           g == FollowShift(f)
           F == FRACTION_BITS
<1>1. r \in Registers /\ r.low < r.high /\ u \in Nat /\ m \in Nat /\ b \in {0, 1}
  <2>1. r \in Registers /\ r.low < r.high
    BY DEF Apart
  <2>2. r.out \in Seq({0, 1}) /\ u \in Nat /\ b \in {0, 1}
    BY <2>1, RegisterRanges, TurnTypes
  <2> QED BY <2>1, <2>2
<1>2. /\ Padded(m) = b /\ \A j \in 1 .. u : Padded(m + j) = 1 - Padded(m)
      /\ Len(w.out) = n
  BY WrittenBack
<1>3. /\ f \in Registers /\ f.low = r.low /\ f.high = r.high /\ f.pos = F + m + u
      /\ f.code = b * TOP_BIT_MASK + window[n]
  BY <1>2 DEF Matches
<1>4. Agree(f)
  BY <1>3 DEF Agree
<1>5. w.underflow = 0 /\ w.low = Shift(r).low /\ w.high = Shift(r).high
  BY WriteTurn
<1>6. Shift(f).low = Shift(r).low /\ Shift(f).high = Shift(r).high /\ Shift(f) \in Registers
      /\ Shift(f).pos = f.pos
  BY <1>1, <1>3, TurnTypes DEF Shift, Registers
<1>7. g \in Registers /\ g.low = w.low /\ g.high = w.high /\ g.pos = f.pos + 1 /\ g.code = word(Taken(f))
  <2>1. g \in Registers
    BY <1>3, FollowTurns
  <2>2. g = [Shift(f) EXCEPT !.code = word(Taken(f)), !.pos = @ + 1]
    BY DEF FollowShift
  <2> HIDE DEF g, w
  <2>3. g.low = Shift(f).low /\ g.high = Shift(f).high /\ g.pos = Shift(f).pos + 1 /\ g.code = word(Taken(f))
    BY <1>6, <2>2 DEF Registers
  <2> QED BY <1>5, <1>6, <2>1, <2>3
<1>8. n \in Nat /\ n + 1 = n + 1 + 0 /\ F + n = (F + m + u) + 1 /\ n + F - 1 = F + m + u
  <2> HIDE DEF m, u
  <2> QED BY <1>1, DistributionRanges
<1>9. /\ window[n] \in Nat /\ window[n] < TOP_BIT_MASK
      /\ window[n + 1] \in Nat /\ window[n + 1] < TOP_BIT_MASK
      /\ 2 * window[n] + Padded(n + F - 1) = Padded(n) * TOP_BIT_MASK + window[n + 1]
      /\ Padded(n) \in {0, 1} /\ Padded(n + F - 1) \in {0, 1}
  <2>1. n + 1 \in Nat /\ n + F - 1 \in Nat
    BY <1>8, DistributionRanges
  <2> HIDE DEF n
  <2> QED BY <1>8, <2>1 DEF Window, Bits01
<1>10. Taken(f) = 2 * f.code + Padded(n + F - 1)
  BY <1>3, <1>8 DEF Taken
<1>11. Quarter \in Nat \ {0} /\ TOP_BIT_MASK = 2 * Quarter /\ UINT_MAX = 4 * Quarter - 1
  BY Masks DEF Quarter
<1> DEFINE c == Padded(n) * TOP_BIT_MASK + window[n + 1]
           t == 2 * window[n] + Padded(n + F - 1)
<1>12. t = c /\ c \in Nat /\ c < 4 * Quarter
  <2>1. t = c
    BY <1>9
  <2> DEFINE x == window[n + 1]
             y == Padded(n)
  <2>2. x \in Nat /\ x < 2 * Quarter /\ y \in {0, 1}
    BY <1>9, <1>11
  <2> HIDE DEF x, y, Quarter
  <2>3. y * (2 * Quarter) + x \in Nat /\ y * (2 * Quarter) + x < 4 * Quarter
    <3>1. CASE y = 0
      BY <1>11, <2>2, <3>1
    <3>2. CASE y = 1
      BY <1>11, <2>2, <3>2
    <3> QED BY <2>2, <3>1, <3>2
  <2>4. c = y * (2 * Quarter) + x
    BY <1>11 DEF x, y
  <2> QED BY <2>1, <2>3, <2>4
<1>13. Taken(f) = b * (4 * Quarter) + c
  <2> DEFINE x == window[n]
             y == Padded(n + F - 1)
  <2>1. x \in Nat /\ y \in {0, 1} /\ f.code = b * TOP_BIT_MASK + x /\ Taken(f) = 2 * f.code + y /\ t = 2 * x + y
    BY <1>3, <1>9, <1>10
  <2> HIDE DEF x, y, Quarter, t, c, b
  <2>2. CASE b = 0
    <3>1. f.code = x
      BY <1>11, <2>1, <2>2
    <3> QED BY <1>11, <1>12, <2>1, <2>2, <3>1
  <2>3. CASE b = 1
    <3>1. f.code = 2 * Quarter + x
      BY <1>11, <2>1, <2>3
    <3> QED BY <1>11, <1>12, <2>1, <2>3, <3>1
  <2> QED BY <1>1, <2>2, <2>3 DEF b
<1>14. g.code = c
  <2> HIDE DEF Quarter, c, b, g
  <2>1. CASE b = 0
    <3>1. Taken(f) = c /\ c < 8 * Quarter
      BY <1>11, <1>12, <1>13, <2>1
    <3> QED BY <1>7, <1>12, <3>1, WordIs
  <2>2. CASE b = 1
    <3> DEFINE z == 4 * Quarter + c
    <3>1. Taken(f) = z /\ z \in Nat /\ z < 8 * Quarter /\ ~ (z < 4 * Quarter) /\ z - 4 * Quarter = c
      BY <1>11, <1>12, <1>13, <2>2
    <3> HIDE DEF z
    <3>2. word(z) = z - 4 * Quarter
      BY <3>1, WordIs
    <3> QED BY <1>7, <3>1, <3>2
  <2> QED BY <1>1, <2>1, <2>2 DEF b
<1>15. Matches(g, w, window)
  <2>1. g.pos = F + n + 0
    <3> HIDE DEF g, w, m, u, n
    <3> QED BY <1>3, <1>7, <1>8, DistributionRanges
  <2>2. g.code = Padded(n) * TOP_BIT_MASK + window[n + 1 + 0]
    BY <1>8, <1>14
  <2> HIDE DEF g, w, n
  <2> QED BY <1>2, <1>5, <1>7, <2>1, <2>2 DEF Matches
<1>16. ASSUME Inside(g) PROVE Inside(f)
  <2>1. /\ Shift(r).low = 2 * r.low - b * (4 * Quarter)
        /\ Shift(r).high = 2 * r.high + 1 - b * (4 * Quarter)
    BY <1>1, ShiftIs
  <2> DEFINE k == b * (4 * Quarter)
             y == Padded(n + F - 1)
  <2>2. k \in Int /\ y \in {0, 1} /\ f.code \in Int /\ r.low \in Nat /\ r.high \in Nat
    <3>1. k \in Int
      <4> HIDE DEF Quarter, b
      <4> QED BY <1>1, <1>11 DEF b
    <3>2. f.code \in Int /\ r.low \in Nat /\ r.high \in Nat
      BY <1>1, <1>3, RegisterRanges
    <3> QED BY <1>9, <3>1, <3>2
  <2>3. g.low = 2 * r.low - k /\ g.high = 2 * r.high + 1 - k /\ 2 * f.code + y = k + c
    BY <1>5, <1>7, <1>10, <1>13, <2>1
  <2>4. g.low <= g.code /\ g.code <= g.high
    BY <1>16 DEF Inside
  <2> HIDE DEF k, y, c, g, Quarter, t
  <2>5. r.low <= f.code /\ f.code <= r.high
    BY <1>12, <1>14, <2>2, <2>3, <2>4
  <2> QED BY <1>3, <2>5 DEF Inside
<1> QED BY <1>4, <1>15, <1>16 DEF g, w

\* The second loop's turn: the second bit is the opposite of the first, and goes.
LEMMA SpreadMatches ==
  ASSUME Bits01, NEW window, Window(window),
         NEW r, About(r), Straddle(r), NEW f, Matches(f, r, window)
  PROVE  /\ Straddle(f) /\ Matches(FollowSpread(f), PutOff(r), window)
         /\ Inside(FollowSpread(f)) => Inside(f)
<1> DEFINE u == r.underflow
           m == Len(r.out)
           n == m + 1 + u
           w == PutOff(r)
           g == FollowSpread(f)
           F == FRACTION_BITS
           b == Padded(m)
<1>1. r \in Registers /\ r.low < 2 * Quarter /\ 2 * Quarter <= r.high /\ u \in Nat /\ m \in Nat
  <2>1. r \in Registers /\ r.low < 2 * Quarter /\ 2 * Quarter <= r.high
    BY DEF About
  <2>2. r.out \in Seq({0, 1}) /\ u \in Nat
    BY <2>1, RegisterRanges
  <2> QED BY <2>1, <2>2
<1>3. /\ f \in Registers /\ f.low = r.low /\ f.high = r.high /\ f.pos = F + m + u
      /\ (\A j \in 1 .. u : Padded(m + j) = 1 - b) => f.code = b * TOP_BIT_MASK + window[n]
  BY DEF Matches
<1>4. Straddle(f)
  BY <1>3 DEF Straddle
<1>5. w.underflow = u + 1 /\ w.low = Spread(r).low /\ w.high = Spread(r).high /\ w.out = r.out
  BY PutOffTurn
<1>6. Spread(f).low = Spread(r).low /\ Spread(f).high = Spread(r).high /\ Spread(f) \in Registers
      /\ Spread(f).pos = f.pos
  BY <1>1, <1>3, <1>4, TurnTypes DEF Spread, Registers
<1>7. g \in Registers /\ g.low = w.low /\ g.high = w.high /\ g.pos = f.pos + 1 /\ g.code = Taken(f) - TOP_BIT_MASK
  <2>1. g \in Registers
    BY <1>3, <1>4, FollowTurns
  <2>2. g = [Spread(f) EXCEPT !.code = Taken(f) - TOP_BIT_MASK, !.pos = @ + 1]
    BY DEF FollowSpread
  <2> HIDE DEF g, w
  <2>3. g.low = Spread(f).low /\ g.high = Spread(f).high /\ g.pos = Spread(f).pos + 1
        /\ g.code = Taken(f) - TOP_BIT_MASK
    BY <1>6, <2>2 DEF Registers
  <2> QED BY <1>5, <1>6, <2>1, <2>3
<1>8. n \in Nat /\ n + 1 \in Nat /\ m + (u + 1) = n /\ F + m + (u + 1) = (F + m + u) + 1
      /\ n + F - 1 = F + m + u /\ n + F - 1 \in Nat /\ m + 1 + (u + 1) = n + 1 /\ u + 1 \in 1 .. u + 1
  <2> HIDE DEF m, u
  <2> QED BY <1>1, DistributionRanges
<1>9. /\ window[n] \in Nat
      /\ window[n + 1] \in Nat
      /\ 2 * window[n] + Padded(n + F - 1) = Padded(n) * TOP_BIT_MASK + window[n + 1]
      /\ Padded(n) \in {0, 1} /\ Padded(n + F - 1) \in {0, 1} /\ b \in {0, 1}
  <2> HIDE DEF n, m
  <2> QED BY <1>1, <1>8 DEF Window, Bits01
<1>10. Taken(f) = 2 * f.code + Padded(n + F - 1) /\ f.code \in Int
  BY <1>3, <1>8, RegisterRanges DEF Taken
<1>11. Quarter \in Nat \ {0} /\ TOP_BIT_MASK = 2 * Quarter
  BY Masks DEF Quarter
<1>14. ASSUME \A j \in 1 .. u + 1 : Padded(m + j) = 1 - b
       PROVE  g.code = b * TOP_BIT_MASK + window[n + 1]
  <2>1. \A j \in 1 .. u : Padded(m + j) = 1 - b
    <3>1. \A j \in 1 .. u : j \in 1 .. u + 1
      BY <1>1
    <3> QED BY <1>14, <3>1
  <2>2. Padded(n) = 1 - b
    BY <1>8, <1>14
  <2>3. f.code = b * TOP_BIT_MASK + window[n]
    BY <1>3, <2>1
  <2> DEFINE x == window[n]
             z == window[n + 1]
             y == Padded(n + F - 1)
  <2>4. x \in Nat /\ z \in Nat /\ y \in {0, 1} /\ 2 * x + y = (1 - b) * (2 * Quarter) + z /\ f.code = b * (2 * Quarter) + x
        /\ g.code = 2 * f.code + y - 2 * Quarter
    BY <1>7, <1>9, <1>10, <1>11, <2>2, <2>3
  <2> HIDE DEF x, y, z, b, Quarter, g
  <2>5. g.code = b * (2 * Quarter) + z
    <3>1. CASE b = 0
      <4>1. 2 * x + y = 2 * Quarter + z /\ f.code = x /\ b * (2 * Quarter) = 0
        BY <1>11, <2>4, <3>1
      <4> QED BY <1>11, <2>4, <4>1
    <3>2. CASE b = 1
      <4>1. 2 * x + y = z /\ f.code = 2 * Quarter + x /\ b * (2 * Quarter) = 2 * Quarter
        BY <1>11, <2>4, <3>2
      <4> QED BY <1>11, <2>4, <4>1
    <3> QED BY <1>9, <3>1, <3>2
  <2> QED BY <1>11, <2>5 DEF z
<1>15. Matches(g, w, window)
  <2>1. g.pos = F + m + (u + 1)
    BY <1>3, <1>7, <1>8
  <2>2. (\A j \in 1 .. u + 1 : Padded(m + j) = 1 - Padded(m)) =>
          g.code = Padded(m) * TOP_BIT_MASK + window[m + 1 + (u + 1)]
    BY <1>8, <1>14
  <2> HIDE DEF g, w, n
  <2> QED BY <1>5, <1>7, <2>1, <2>2 DEF Matches
<1>16. ASSUME Inside(g) PROVE Inside(f)
  <2>1. Spread(r).low = 2 * r.low - 2 * Quarter /\ Spread(r).high = 2 * r.high + 1 - 2 * Quarter
    BY <1>1, SpreadIs
  <2> DEFINE y == Padded(n + F - 1)
  <2>2. y \in {0, 1} /\ f.code \in Int /\ r.low \in Nat /\ r.high \in Nat
    BY <1>1, <1>9, <1>10, RegisterRanges
  <2>3. g.low = 2 * r.low - 2 * Quarter /\ g.high = 2 * r.high + 1 - 2 * Quarter /\ g.code = 2 * f.code + y - 2 * Quarter
    <3>1. g.low = 2 * r.low - 2 * Quarter /\ g.high = 2 * r.high + 1 - 2 * Quarter
      BY <1>5, <1>7, <2>1
    <3>2. Taken(f) = 2 * f.code + y /\ g.code = Taken(f) - 2 * Quarter
      BY <1>7, <1>10, <1>11
    <3> HIDE DEF g, y, Quarter
    <3> QED BY <1>10, <1>11, <2>2, <3>1, <3>2
  <2>4. g.low <= g.code /\ g.code <= g.high
    BY <1>16 DEF Inside
  <2> HIDE DEF y, g, Quarter
  <2>5. r.low <= f.code /\ f.code <= r.high
    BY <1>11, <2>2, <2>3, <2>4
  <2> QED BY <1>3, <2>5 DEF Inside
<1> QED BY <1>4, <1>15, <1>16 DEF g, w

\* What is written at the end of the loop was written all along.
LEMMA WrittenTurns ==
  ASSUME NEW a, \A n \in 0 .. FRACTION_BITS : Apart(a[n]), Written(a[FRACTION_BITS]),
         \A n \in 1 .. FRACTION_BITS : a[n] = IF Agree(a[n - 1]) THEN WriteBit(a[n - 1]) ELSE a[n - 1]
  PROVE  \A n \in 0 .. FRACTION_BITS : Written(a[n])
<1> DEFINE T == {n \in Nat : Written(a[n])}
<1>1. FRACTION_BITS \in T
  BY DistributionRanges
<1>2. ASSUME NEW n \in 1 .. FRACTION_BITS, n \in T PROVE n - 1 \in T
  <2>1. n - 1 \in 0 .. FRACTION_BITS /\ n - 1 \in Nat
    BY DistributionRanges
  <2>2. Apart(a[n - 1]) /\ Written(a[n])
    BY <1>2, <2>1
  <2>3. Written(a[n - 1])
    <3>1. CASE Agree(a[n - 1])
      <4>1. Written(WriteBit(a[n - 1]))
        BY <2>2, <3>1
      <4> QED BY <2>2, <3>1, <4>1, WrittenBack
    <3> QED BY <2>2, <3>1
  <2> QED BY <2>1, <2>3
<1> HIDE DEF T
<1>3. \A n \in 0 .. FRACTION_BITS : n \in T
  BY <1>1, <1>2, TurnInductionBack
<1> QED BY <1>3 DEF T

LEMMA WrittenPutOff ==
  ASSUME NEW a, \A n \in 0 .. FRACTION_BITS : About(a[n]), Written(a[FRACTION_BITS]),
         \A n \in 1 .. FRACTION_BITS : a[n] = IF Straddle(a[n - 1]) THEN PutOff(a[n - 1]) ELSE a[n - 1]
  PROVE  Written(a[0])
<1> DEFINE T == {n \in Nat : Written(a[n])}
<1>1. FRACTION_BITS \in T
  BY DistributionRanges
<1>2. ASSUME NEW n \in 1 .. FRACTION_BITS, n \in T PROVE n - 1 \in T
  <2>1. n - 1 \in 0 .. FRACTION_BITS /\ n - 1 \in Nat
    BY DistributionRanges
  <2>2. About(a[n - 1]) /\ Written(a[n])
    BY <1>2, <2>1
  <2>3. a[n].out = a[n - 1].out
    <3>1. CASE Straddle(a[n - 1])
      <4>1. a[n] = PutOff(a[n - 1])
        BY <3>1
      <4> QED BY <2>2, <3>1, <4>1, PutOffTurn
    <3> QED BY <3>1
  <2>4. Written(a[n - 1])
    BY <2>2, <2>3 DEF Written
  <2> QED BY <2>1, <2>4
<1> HIDE DEF T
<1>3. \A n \in 0 .. FRACTION_BITS : n \in T
  BY <1>1, <1>2, TurnInductionBack
<1>4. 0 \in 0 .. FRACTION_BITS
  BY DistributionRanges
<1> QED BY <1>3, <1>4 DEF T

\* The decoder through the first loop, beside the encoder.
LEMMA ShiftLoop ==
  ASSUME Bits01, NEW window, Window(window),
         NEW r, Apart(r), Written(Loop(write_bits, r)), NEW f, Matches(f, r, window)
  PROVE  /\ Matches(Loop(shiftTurn, f), Loop(write_bits, r), window)
         /\ Inside(Loop(shiftTurn, f)) => Inside(f)
<1> DEFINE F == FRACTION_BITS
<1>0. 0 \in 0 .. F /\ F \in 0 .. F /\ F \in Nat
  BY DistributionRanges
<1>1. PICK a \in [0 .. F -> Registers] :
         /\ a[0] = r /\ Loop(write_bits, r) = a[F]
         /\ \A n \in 1 .. F : a[n] = IF Agree(a[n - 1]) THEN WriteBit(a[n - 1]) ELSE a[n - 1]
         /\ \A n \in 0 .. F : Apart(a[n])
  BY WriteLoop
<1>2. PICK d \in [0 .. F -> Registers] :
         /\ d[0] = f /\ \A n \in 1 .. F : d[n] = shiftTurn[d[n - 1]]
         /\ Loop(shiftTurn, f) = d[F]
  <2>1. f \in Registers /\ shiftTurn \in [Registers -> Registers]
    BY FollowTurns DEF Matches
  <2> QED BY <2>1, LoopUnfold
<1>3. \A n \in 0 .. F : Written(a[n])
  <2>1. Written(a[FRACTION_BITS])
    BY <1>1
  <2> QED BY <1>1, <2>1, WrittenTurns
<1>4. ASSUME NEW n \in 1 .. F, Matches(d[n - 1], a[n - 1], window)
      PROVE  Matches(d[n], a[n], window) /\ (Inside(d[n]) => Inside(d[n - 1]))
  <2>1. n - 1 \in 0 .. F /\ n \in 0 .. F
    BY <1>0
  <2>2. Apart(a[n - 1]) /\ Written(a[n]) /\ d[n - 1] \in Registers
    BY <1>1, <1>2, <1>3, <2>1
  <2>3. d[n] = IF Agree(d[n - 1]) THEN FollowShift(d[n - 1]) ELSE d[n - 1]
    BY <1>2, <2>2 DEF shiftTurn
  <2>4. CASE Agree(a[n - 1])
    <3>1. a[n] = WriteBit(a[n - 1])
      BY <1>1, <2>4
    <3>2. /\ Agree(d[n - 1]) /\ Matches(FollowShift(d[n - 1]), WriteBit(a[n - 1]), window)
          /\ Inside(FollowShift(d[n - 1])) => Inside(d[n - 1])
      BY <1>4, <2>2, <2>4, <3>1, ShiftMatches
    <3> QED BY <2>3, <3>1, <3>2
  <2>5. CASE ~ Agree(a[n - 1])
    <3>1. a[n] = a[n - 1]
      BY <1>1, <2>5
    <3>2. ~ Agree(d[n - 1])
      BY <1>4, <2>5 DEF Matches, Agree
    <3> QED BY <1>4, <2>3, <3>1, <3>2
  <2> QED BY <2>4, <2>5
<1>5. \A n \in 0 .. F : Matches(d[n], a[n], window)
  <2> DEFINE T == {n \in Nat : Matches(d[n], a[n], window)}
  <2>1. 0 \in T
    BY <1>1, <1>2
  <2>2. ASSUME NEW n \in 1 .. F, n - 1 \in T PROVE n \in T
    BY <1>4, <2>2
  <2> HIDE DEF T
  <2>3. \A n \in 0 .. F : n \in T
    BY <2>1, <2>2, TurnInduction
  <2> QED BY <2>3 DEF T
<1>6. ASSUME Inside(d[F]) PROVE Inside(d[0])
  <2> DEFINE T == {n \in Nat : Inside(d[n])}
  <2>1. F \in T
    BY <1>0, <1>6
  <2>2. ASSUME NEW n \in 1 .. F, n \in T PROVE n - 1 \in T
    <3>1. n - 1 \in 0 .. F /\ n - 1 \in Nat
      BY <1>0
    <3> QED BY <1>4, <1>5, <2>2, <3>1
  <2> HIDE DEF T
  <2>3. \A n \in 0 .. F : n \in T
    BY <2>1, <2>2, TurnInductionBack
  <2> QED BY <1>0, <2>3 DEF T
<1> QED BY <1>0, <1>1, <1>2, <1>5, <1>6

\* And through the second.
LEMMA SpreadLoop ==
  ASSUME Bits01, NEW window, Window(window),
         NEW r, About(r), NEW f, Matches(f, r, window)
  PROVE  /\ Matches(Loop(spreadTurn, f), Loop(put_off, r), window)
         /\ Inside(Loop(spreadTurn, f)) => Inside(f)
<1> DEFINE F == FRACTION_BITS
<1>0. 0 \in 0 .. F /\ F \in 0 .. F /\ F \in Nat
  BY DistributionRanges
<1>1. PICK a \in [0 .. F -> Registers] :
         /\ a[0] = r /\ Loop(put_off, r) = a[F]
         /\ \A n \in 1 .. F : a[n] = IF Straddle(a[n - 1]) THEN PutOff(a[n - 1]) ELSE a[n - 1]
         /\ \A n \in 0 .. F : About(a[n])
  BY PutOffLoop
<1>2. PICK d \in [0 .. F -> Registers] :
         /\ d[0] = f /\ \A n \in 1 .. F : d[n] = spreadTurn[d[n - 1]]
         /\ Loop(spreadTurn, f) = d[F]
  <2>1. f \in Registers /\ spreadTurn \in [Registers -> Registers]
    BY FollowTurns DEF Matches
  <2> QED BY <2>1, LoopUnfold
<1>4. ASSUME NEW n \in 1 .. F, Matches(d[n - 1], a[n - 1], window)
      PROVE  Matches(d[n], a[n], window) /\ (Inside(d[n]) => Inside(d[n - 1]))
  <2>1. n - 1 \in 0 .. F /\ n \in 0 .. F
    BY <1>0
  <2>2. About(a[n - 1]) /\ d[n - 1] \in Registers
    BY <1>1, <1>2, <2>1
  <2>3. d[n] = IF Straddle(d[n - 1]) THEN FollowSpread(d[n - 1]) ELSE d[n - 1]
    BY <1>2, <2>2 DEF spreadTurn
  <2>4. CASE Straddle(a[n - 1])
    <3>1. a[n] = PutOff(a[n - 1])
      BY <1>1, <2>4
    <3>2. /\ Straddle(d[n - 1]) /\ Matches(FollowSpread(d[n - 1]), PutOff(a[n - 1]), window)
          /\ Inside(FollowSpread(d[n - 1])) => Inside(d[n - 1])
      BY <1>4, <2>2, <2>4, SpreadMatches
    <3> QED BY <2>3, <3>1, <3>2
  <2>5. CASE ~ Straddle(a[n - 1])
    <3>1. a[n] = a[n - 1]
      BY <1>1, <2>5
    <3>2. ~ Straddle(d[n - 1])
      BY <1>4, <2>5 DEF Matches, Straddle
    <3> QED BY <1>4, <2>3, <3>1, <3>2
  <2> QED BY <2>4, <2>5
<1>5. \A n \in 0 .. F : Matches(d[n], a[n], window)
  <2> DEFINE T == {n \in Nat : Matches(d[n], a[n], window)}
  <2>1. 0 \in T
    BY <1>1, <1>2
  <2>2. ASSUME NEW n \in 1 .. F, n - 1 \in T PROVE n \in T
    BY <1>4, <2>2
  <2> HIDE DEF T
  <2>3. \A n \in 0 .. F : n \in T
    BY <2>1, <2>2, TurnInduction
  <2> QED BY <2>3 DEF T
<1>6. ASSUME Inside(d[F]) PROVE Inside(d[0])
  <2> DEFINE T == {n \in Nat : Inside(d[n])}
  <2>1. F \in T
    BY <1>0, <1>6
  <2>2. ASSUME NEW n \in 1 .. F, n \in T PROVE n - 1 \in T
    <3>1. n - 1 \in 0 .. F /\ n - 1 \in Nat
      BY <1>0
    <3> QED BY <1>4, <1>5, <2>2, <3>1
  <2> HIDE DEF T
  <2>3. \A n \in 0 .. F : n \in T
    BY <2>1, <2>2, TurnInductionBack
  <2> QED BY <1>0, <2>3 DEF T
<1> QED BY <1>0, <1>1, <1>2, <1>5, <1>6

\* What was written after a symbol was written before it.
LEMMA WrittenEncode ==
  ASSUME NEW h, Fine(h), NEW symbol \in Letters, Written(encode(h, symbol).reg)
  PROVE  LET index == h.dist.symbol_to_index[symbol]
         IN  /\ Written(h.reg) /\ Written(Loop(write_bits, Narrow(h, index)))
             /\ index \in 1 .. alphabet_size
<1> DEFINE index == h.dist.symbol_to_index[symbol]
           n == Narrow(h, index)
           w == Loop(write_bits, n)
           F == FRACTION_BITS
<1>0. 0 \in 0 .. F /\ F \in 0 .. F
  BY DistributionRanges
<1>1. index \in 1 .. alphabet_size
  BY DEF Fine, Distributed, Distributions
<1>2. encode(h, symbol).reg = Loop(put_off, w)
  BY DEF encode, update
<1> HIDE DEF index
<1>3. Apart(n) /\ n.out = h.reg.out
  BY <1>1, NarrowIs
<1> HIDE DEF n
<1>4. PICK a \in [0 .. F -> Registers] :
        /\ a[0] = n /\ w = a[F]
        /\ \A k \in 1 .. F : a[k] = IF Agree(a[k - 1]) THEN WriteBit(a[k - 1]) ELSE a[k - 1]
        /\ \A k \in 0 .. F : Apart(a[k])
        /\ About(a[F])
  BY <1>3, WriteLoop
<1>5. About(w)
  BY <1>4
<1> HIDE DEF w
<1>6. PICK d \in [0 .. F -> Registers] :
        /\ d[0] = w /\ Loop(put_off, w) = d[F]
        /\ \A k \in 1 .. F : d[k] = IF Straddle(d[k - 1]) THEN PutOff(d[k - 1]) ELSE d[k - 1]
        /\ \A k \in 0 .. F : About(d[k])
  BY <1>5, PutOffLoop
<1>7. Written(w)
  <2>1. Written(d[F])
    BY <1>2, <1>6
  <2>2. Written(d[0])
    BY <1>6, <2>1, WrittenPutOff
  <2> QED BY <1>6, <2>2
<1>8. Written(n)
  <2>1. Written(a[F])
    BY <1>4, <1>7
  <2>2. Written(a[0])
    BY <1>0, <1>4, <2>1, WrittenTurns
  <2> QED BY <1>4, <2>2
<1>9. Written(h.reg)
  BY <1>3, <1>8 DEF Written
<1> QED BY <1>1, <1>7, <1>9 DEF w, n, index

\* The decoder follows a symbol, and was inside its share when it is inside the
\* interval afterwards.
LEMMA FollowStep ==
  ASSUME Bits01, NEW window, Window(window),
         NEW h, Fine(h), NEW symbol \in Letters, Written(encode(h, symbol).reg),
         NEW f, f.dist = h.dist, Matches(f.reg, h.reg, window)
  PROVE  LET index == f.dist.symbol_to_index[symbol]
             g == Follow(f, symbol)
         IN  /\ g.dist = encode(h, symbol).dist
             /\ Matches(g.reg, encode(h, symbol).reg, window)
             /\ Inside(g.reg) => /\ Inside(f.reg)
                                 /\ f.reg.code - f.reg.low \in Bound(f, index) .. Bound(f, index - 1)
<1> DEFINE index == h.dist.symbol_to_index[symbol]
           g == Follow(f, symbol)
           n == Narrow(h, index)
           x == Narrow(f, index)
           w == Loop(write_bits, n)
           y == Loop(shiftTurn, x)
           r == h.reg
           b == Bound(h, index)
           t == Bound(h, index - 1)
<1>1. index \in 1 .. alphabet_size /\ Written(w)
  BY WrittenEncode
<1>2. encode(h, symbol).reg = Loop(put_off, w) /\ encode(h, symbol).dist = update_distribution(h.dist, index)
  BY DEF encode, update
<1>3. g.reg = Loop(spreadTurn, y) /\ g.dist = update_distribution(h.dist, index)
  BY FollowIs
<1> HIDE DEF index, g
<1>4. /\ Apart(n) /\ n.low = r.low + b /\ n.high = r.low + t
      /\ n.underflow = r.underflow /\ n.out = r.out
      /\ b \in Nat /\ t \in Nat /\ b < t /\ t <= r.high - r.low
  BY <1>1, NarrowIs, Shares
<1>5. f.reg \in Registers /\ f.reg.low = r.low /\ f.reg.high = r.high
  BY DEF Matches
<1>6. Bound(f, index) = b /\ Bound(f, index - 1) = t
  BY <1>5 DEF Bound
<1>7. /\ x \in Registers /\ x.low = n.low /\ x.high = n.high /\ x.code = f.reg.code /\ x.pos = f.reg.pos
  <2>1. x = [f.reg EXCEPT !.low = @ + b, !.high = r.low + t]
    BY <1>5, <1>6 DEF Narrow
  <2>2. x = [f.reg EXCEPT !.low = n.low, !.high = n.high]
    BY <1>4, <1>5, <2>1
  <2>3. n.low \in Word /\ n.high \in Word
    BY <1>4, RegisterRanges DEF Apart
  <2> HIDE DEF x, n
  <2> QED BY <1>5, <2>2, <2>3 DEF Registers
<1> HIDE DEF n, x, b, t
<1>8. Matches(x, n, window)
  <2> DEFINE m == Len(r.out)
             u == r.underflow
  <2>1. /\ f.reg.pos = FRACTION_BITS + m + u
        /\ (\A j \in 1 .. u : Padded(m + j) = 1 - Padded(m)) =>
             f.reg.code = Padded(m) * TOP_BIT_MASK + window[m + 1 + u]
    BY DEF Matches
  <2>2. Len(n.out) = m /\ n.underflow = u
    BY <1>4
  <2> HIDE DEF m, u
  <2> QED BY <1>7, <2>1, <2>2 DEF Matches
<1>9. Matches(y, w, window) /\ (Inside(y) => Inside(x))
  BY <1>1, <1>4, <1>8, ShiftLoop
<1>10. About(w)
  BY <1>4, WriteLoop
<1> HIDE DEF w, y
<1>11. Matches(g.reg, Loop(put_off, w), window) /\ (Inside(g.reg) => Inside(y))
  BY <1>3, <1>9, <1>10, SpreadLoop
<1>12. ASSUME Inside(g.reg) PROVE Inside(f.reg) /\ f.reg.code - f.reg.low \in b .. t
  <2>1. Inside(x)
    BY <1>9, <1>11, <1>12
  <2>2. r.low + b <= f.reg.code /\ f.reg.code <= r.low + t
    BY <1>4, <1>7, <2>1 DEF Inside
  <2>3. f.reg.code \in Int /\ r.low \in Nat /\ r.high \in Nat
    BY <1>5, RegisterRanges
  <2>4. r.low <= f.reg.code /\ f.reg.code <= r.high /\ f.reg.code - r.low \in b .. t
    BY <1>4, <2>2, <2>3
  <2> QED BY <1>5, <2>4 DEF Inside
<1> QED BY <1>2, <1>3, <1>6, <1>11, <1>12 DEF index, g

\* The decoder that has started is where the encoder started.
LEMMA StartedMatches ==
  ASSUME Bits01
  PROVE  \E window : Window(window) /\ Matches(Started.reg, NewRegisters, window)
<1> USE DistributionRanges
<1> DEFINE F == FRACTION_BITS
<1>1. PICK V :
        /\ \A p \in Nat, k \in 0 .. F : V[p][k] \in Nat /\ V[p][k] < power[k]
        /\ \A p \in Nat : V[p][0] = 0
        /\ \A p \in Nat, k \in 1 .. F : V[p][k] = 2 * V[p][k - 1] + Padded(p + k - 1)
        /\ \A p \in Nat, k \in 1 .. F : V[p][k] = Padded(p) * power[k - 1] + V[p + 1][k - 1]
        /\ \A p \in Nat : (\A q \in Nat : q >= p => Padded(q) = 0) => \A k \in 0 .. F : V[p][k] = 0
  BY Values
<1> DEFINE window == [p \in Nat |-> V[p][F - 1]]
<1>2. F \in 1 .. F /\ F - 1 \in 0 .. F /\ F \in 0 .. F /\ power[F - 1] = TOP_BIT_MASK
  BY DEF TOP_BIT_MASK
<1>3. Window(window)
  <2> SUFFICES ASSUME NEW p \in Nat
               PROVE  /\ window[p] \in Nat /\ window[p] < TOP_BIT_MASK
                      /\ 2 * window[p] + Padded(p + F - 1) = Padded(p) * TOP_BIT_MASK + window[p + 1]
                      /\ (\A q \in Nat : q >= p => Padded(q) = 0) => window[p] = 0
    BY DEF Window
  <2>1. window[p] = V[p][F - 1] /\ window[p + 1] = V[p + 1][F - 1]
    OBVIOUS
  <2> HIDE DEF window
  <2>2. window[p] \in Nat /\ window[p] < TOP_BIT_MASK
    BY <1>1, <1>2, <2>1
  <2>3. V[p][F] = 2 * V[p][F - 1] + Padded(p + F - 1) /\ V[p][F] = Padded(p) * TOP_BIT_MASK + V[p + 1][F - 1]
    BY <1>1, <1>2
  <2>4. (\A q \in Nat : q >= p => Padded(q) = 0) => window[p] = 0
    BY <1>1, <1>2, <2>1
  <2> QED BY <2>1, <2>2, <2>3, <2>4
<1> DEFINE take == [r \in Registers |-> [r EXCEPT !.code = Taken(r), !.pos = @ + 1]]
<1>4. Started.reg = Loop(take, NewRegisters)
  BY DEF Started
<1>5. \A r \in Registers : take[r] \in Registers /\ take[r].low = r.low /\ take[r].high = r.high
                           /\ take[r].code = Taken(r) /\ take[r].pos = r.pos + 1
  <2> SUFFICES ASSUME NEW r \in Registers
               PROVE  take[r] \in Registers /\ take[r].low = r.low /\ take[r].high = r.high
                      /\ take[r].code = Taken(r) /\ take[r].pos = r.pos + 1
    OBVIOUS
  <2> DEFINE c == Taken(r)
             y == r.pos + 1
  <2>1. take[r] = [r EXCEPT !.code = c, !.pos = y]
    OBVIOUS
  <2>2. c \in Int /\ y \in Nat
    <3>1. c \in Int
      BY TakenIs
    <3>2. r.pos \in Nat
      BY RegisterRanges
    <3> QED BY <3>1, <3>2
  <2> HIDE DEF take, c, y
  <2>3. /\ [r EXCEPT !.code = c, !.pos = y] \in Registers
        /\ [r EXCEPT !.code = c, !.pos = y].low = r.low /\ [r EXCEPT !.code = c, !.pos = y].high = r.high
        /\ [r EXCEPT !.code = c, !.pos = y].code = c /\ [r EXCEPT !.code = c, !.pos = y].pos = y
    BY <2>2 DEF Registers
  <2> QED BY <2>1, <2>3 DEF c, y
<1>6. take \in [Registers -> Registers]
  <2> SUFFICES \A r \in Registers : [r EXCEPT !.code = Taken(r), !.pos = @ + 1] \in Registers
    OBVIOUS
  <2> QED BY <1>5
<1> HIDE DEF take
<1>7. PICK d \in [0 .. F -> Registers] :
        d[0] = NewRegisters /\ (\A n \in 1 .. F : d[n] = take[d[n - 1]]) /\ Loop(take, NewRegisters) = d[F]
  BY <1>6, NewFine, LoopUnfold
<1> DEFINE new == NewRegisters
<1>8. new.low = 0 /\ new.high = UINT_MAX /\ new.code = 0 /\ new.pos = 0 /\ new.out = <<>> /\ new.underflow = 0
  BY DEF NewRegisters
<1> HIDE DEF new
<1>9. \A n \in 0 .. F : d[n].low = 0 /\ d[n].high = UINT_MAX /\ d[n].pos = n /\ d[n].code = V[0][n]
  <2> DEFINE T == {n \in Nat : d[n].low = 0 /\ d[n].high = UINT_MAX /\ d[n].pos = n /\ d[n].code = V[0][n]}
  <2>1. 0 \in T
    BY <1>1, <1>7, <1>8 DEF new
  <2>2. ASSUME NEW n \in 1 .. F, n - 1 \in T PROVE n \in T
    <3>1. n - 1 \in 0 .. F /\ n \in Nat
      OBVIOUS
    <3>2. /\ d[n - 1].low = 0 /\ d[n - 1].high = UINT_MAX /\ d[n - 1].pos = n - 1 /\ d[n - 1].code = V[0][n - 1]
      BY <2>2
    <3>3. d[n - 1] \in Registers /\ d[n] = take[d[n - 1]]
      BY <1>7, <3>1
    <3>4. /\ d[n].low = d[n - 1].low /\ d[n].high = d[n - 1].high
          /\ d[n].code = Taken(d[n - 1]) /\ d[n].pos = d[n - 1].pos + 1
      BY <1>5, <3>3
    <3>5. Taken(d[n - 1]) = 2 * V[0][n - 1] + Padded(n - 1)
      BY <3>2 DEF Taken
    <3>6. V[0][n] = 2 * V[0][n - 1] + Padded(n - 1)
      <4>1. V[0][n] = 2 * V[0][n - 1] + Padded(0 + n - 1) /\ 0 + n - 1 = n - 1
        BY <1>1
      <4> QED BY <4>1
    <3>7. (n - 1) + 1 = n
      OBVIOUS
    <3>8. d[n].low = 0 /\ d[n].high = UINT_MAX /\ d[n].pos = n /\ d[n].code = V[0][n]
      BY <3>2, <3>4, <3>5, <3>6, <3>7
    <3> QED BY <3>1, <3>8
  <2> HIDE DEF T
  <2>3. \A n \in 0 .. F : n \in T
    BY <2>1, <2>2, TurnInduction
  <2> QED BY <2>3 DEF T
<1>10. Started.reg = d[F] /\ d[F] \in Registers
  BY <1>2, <1>4, <1>7
<1>11. V[0][F] = Padded(0) * TOP_BIT_MASK + window[1]
  <2>1. V[0][F] = Padded(0) * power[F - 1] + V[1][F - 1]
    <3>1. \A p \in Nat : V[p][F] = Padded(p) * power[F - 1] + V[p + 1][F - 1]
      BY <1>1, <1>2
    <3>2. 0 \in Nat /\ 0 + 1 = 1
      OBVIOUS
    <3>3. V[0][F] = Padded(0) * power[F - 1] + V[0 + 1][F - 1]
      BY <3>1, <3>2, Zenon
    <3> QED BY <3>2, <3>3
  <2>2. window[1] = V[1][F - 1]
    OBVIOUS
  <2> QED BY <1>2, <2>1, <2>2
<1> HIDE DEF window
<1>12. Matches(Started.reg, new, window)
  <2>1. Len(new.out) = 0
    BY <1>8
  <2>2. /\ d[F].low = new.low /\ d[F].high = new.high /\ d[F].pos = F + 0 + 0
        /\ d[F].code = Padded(0) * TOP_BIT_MASK + window[0 + 1 + 0]
    BY <1>2, <1>8, <1>9, <1>11
  <2> QED BY <1>8, <1>10, <2>1, <2>2 DEF Matches
<1> QED BY <1>3, <1>12 DEF new

\* The decoder's objects between the symbols.
LEMMA FollowedIs ==
  ASSUME sent \in Seq(Symbol)
  PROVE  LET symbols == Append(sent, eof_symbol)
             at[n \in 1 .. Len(symbols)] ==
               IF n = 1 THEN Started ELSE Follow(at[n - 1], symbols[n - 1])
         IN  at[1] = Started /\ \A n \in 1 .. Len(sent) : at[n + 1] = Follow(at[n], symbols[n])
<1> DEFINE symbols == Append(sent, eof_symbol)
           N == Len(sent)
           M == Len(symbols)
           E(f) == [n \in 1 .. M |-> IF n = 1 THEN Started ELSE Follow(f[n - 1], symbols[n - 1])]
           c == CHOOSE f : f = E(f)
<1>1. N \in Nat /\ M = N + 1
  BY DEF M
<1> HIDE DEF symbols, N, M
<1>2. \E f : f[1] = Started /\ \A n \in 1 .. N : f[n + 1] = Follow(f[n], symbols[n])
  <2> DEFINE Q(f, k) == f[1] = Started /\ \A n \in 1 .. k : f[n + 1] = Follow(f[n], symbols[n])
             T == {k \in Nat : \E f : Q(f, k)}
  <2>1. 0 \in T
    <3> DEFINE f == [n \in {1} |-> Started]
    <3>1. f[1] = Started
      OBVIOUS
    <3> HIDE DEF f
    <3>2. Q(f, 0)
      BY <3>1
    <3> QED BY <3>2
  <2>2. ASSUME NEW k \in 1 .. N, k - 1 \in T PROVE k \in T
    <3>1. PICK f : Q(f, k - 1)
      BY <2>2
    <3> DEFINE g == [n \in 1 .. k + 1 |-> IF n <= k THEN f[n] ELSE Follow(f[k], symbols[k])]
    <3>2. k \in Nat /\ k >= 1
      BY <1>1
    <3>3. (\A n \in 1 .. k : g[n] = f[n]) /\ g[k + 1] = Follow(f[k], symbols[k])
      BY <3>2
    <3> HIDE DEF g
    <3>4. g[1] = Started
      BY <3>1, <3>2, <3>3
    <3>5. ASSUME NEW n \in 1 .. k PROVE g[n + 1] = Follow(g[n], symbols[n])
      <4>1. CASE n = k
        BY <3>3, <4>1
      <4>2. CASE n # k
        <5>1. n \in 1 .. k - 1 /\ n + 1 \in 1 .. k
          BY <3>2, <4>2
        <5>2. f[n + 1] = Follow(f[n], symbols[n])
          BY <3>1, <5>1
        <5> QED BY <3>3, <5>1, <5>2
      <4> QED BY <4>1, <4>2
    <3>6. Q(g, k)
      BY <3>4, <3>5
    <3> HIDE DEF Q
    <3> QED BY <3>2, <3>6
  <2> HIDE DEF T
  <2>3. \A n \in 0 .. N : n \in T
    BY <1>1, <2>1, <2>2, StepsUp
  <2>4. N \in T
    BY <1>1, <2>3
  <2> QED BY <2>4 DEF T
<1>3. PICK f : f[1] = Started /\ \A n \in 1 .. N : f[n + 1] = Follow(f[n], symbols[n])
  BY <1>2
<1> DEFINE u == [n \in 1 .. M |-> f[n]]
<1>4. u = E(u)
  <2>1. ASSUME NEW n \in 1 .. M PROVE f[n] = IF n = 1 THEN Started ELSE Follow(u[n - 1], symbols[n - 1])
    <3>1. CASE n = 1
      BY <1>3, <3>1
    <3>2. CASE n # 1
      <4>1. n - 1 \in 1 .. N /\ (n - 1) + 1 = n /\ n - 1 \in 1 .. M
        BY <1>1, <3>2
      <4>2. f[n] = Follow(f[n - 1], symbols[n - 1]) /\ u[n - 1] = f[n - 1]
        BY <1>3, <4>1
      <4> QED BY <3>2, <4>2
    <3> QED BY <3>1, <3>2
  <2> QED BY <2>1
<1>5. c = E(c)
  <2> HIDE DEF E, u
  <2> QED BY <1>4
<1> HIDE DEF c, u
<1>6. \A n \in 1 .. M : c[n] = IF n = 1 THEN Started ELSE Follow(c[n - 1], symbols[n - 1])
  <2>1. \A n \in 1 .. M : c[n] = E(c)[n]
    BY <1>5
  <2> QED BY <2>1
<1> HIDE DEF E
<1>7. c[1] = Started
  BY <1>1, <1>6
<1>8. ASSUME NEW n \in 1 .. N PROVE c[n + 1] = Follow(c[n], symbols[n])
  <2>1. n + 1 \in 1 .. M /\ n + 1 # 1 /\ (n + 1) - 1 = n
    BY <1>1
  <2> QED BY <1>6, <2>1
<1> QED BY <1>7, <1>8 DEF c, E, M, symbols, N

\* The archive is a number in the share of every symbol that was sent, the end
\* of the file included, however often frequencies were halved and bits put off.
THEOREM RecoverableCorrect == BothSpec => []Recoverable
<1>1. ArithmeticInv => Recoverable
  <2> DEFINE symbols == Append(sent, eof_symbol)
             N == Len(sent)
             index(f, n) == f.dist.symbol_to_index[symbols[n]]
             share(f, n) == f.reg.code - f.reg.low \in Bound(f, index(f, n)) .. Bound(f, index(f, n) - 1)
  <2> SUFFICES ASSUME ArithmeticInv, closed PROVE Recoverable
    BY DEF Recoverable
  <2>1. sent \in Seq(Symbol)
    BY DEF ArithmeticInv, GammaInv, GammaTypes
  <2>2. /\ N \in Nat /\ Len(symbols) = N + 1 /\ symbols[N + 1] = eof_symbol
        /\ \A n \in 1 .. N : symbols[n] = sent[n] /\ sent[n] \in Letters
        /\ \A n \in 1 .. N + 1 : symbols[n] \in Letters
    <3>1. sent \in Seq(Letters)
      BY <2>1, SymbolIsLetter
    <3>2. N \in Nat /\ Len(symbols) = N + 1 /\ symbols[N + 1] = eof_symbol /\ symbols \in Seq(Letters)
          /\ \A n \in 1 .. N : symbols[n] = sent[n]
      BY <3>1, SymbolIsLetter, AppendProperties
    <3>3. \A n \in 1 .. N : sent[n] \in Letters
      BY <3>1
    <3> HIDE DEF symbols, N
    <3>4. ASSUME NEW n \in 1 .. N + 1 PROVE symbols[n] \in Letters
      <4>1. n = N + 1 \/ n \in 1 .. N
        BY <3>2
      <4> QED BY <3>2, <3>3, <4>1, SymbolIsLetter
    <3> QED BY <3>2, <3>3, <3>4
  <2>3. PICK e : ArithmeticTrail(e) /\ Ended(encode(e[N], eof_symbol))
    BY DEF ArithmeticInv, AtArithmeticEnd
  <2> DEFINE x == [k \in 0 .. N + 1 |-> IF k <= N THEN e[k] ELSE encode(e[N], eof_symbol)]
             last == x[N + 1]
  <2>4. /\ x[0] = NewArithmetic /\ Ended(last)
        /\ \A k \in 1 .. N + 1 : x[k] = encode(x[k - 1], symbols[k]) /\ symbols[k] \in Letters
        /\ \A k \in 0 .. N + 1 : Fine(x[k])
    <3>1. /\ e[0] = NewArithmetic
          /\ \A k \in 1 .. N : e[k] = encode(e[k - 1], sent[k])
          /\ \A k \in 0 .. N : Fine(e[k])
      BY <2>3 DEF ArithmeticTrail
    <3> HIDE DEF N, symbols
    <3>2. (\A k \in 0 .. N : x[k] = e[k]) /\ x[N + 1] = encode(e[N], eof_symbol)
      BY <2>2
    <3> HIDE DEF x
    <3>3. Ended(last)
      BY <2>3, <3>2 DEF N
    <3>4. ASSUME NEW k \in 1 .. N + 1 PROVE x[k] = encode(x[k - 1], symbols[k])
      <4>1. CASE k = N + 1
        <5>1. k - 1 = N /\ N \in 0 .. N
          BY <2>2, <4>1
        <5> QED BY <2>2, <3>2, <4>1, <5>1
      <4>2. CASE k # N + 1
        <5>1. k \in 1 .. N /\ k \in 0 .. N /\ k - 1 \in 0 .. N
          BY <2>2, <4>2
        <5> QED BY <2>2, <3>1, <3>2, <5>1
      <4> QED BY <4>1, <4>2
    <3>5. 0 \in 0 .. N
      BY <2>2
    <3>6. ASSUME NEW k \in 0 .. N + 1 PROVE Fine(x[k])
      <4>1. CASE k = N + 1
        <5>1. N \in 0 .. N
          BY <2>2
        <5> QED BY <3>1, <3>2, <4>1, <5>1, EncodeFine, SymbolIsLetter
      <4>2. CASE k # N + 1
        <5>1. k \in 0 .. N
          BY <2>2, <4>2
        <5> QED BY <3>1, <3>2, <5>1
      <4> QED BY <4>1, <4>2
    <3> QED BY <2>2, <3>1, <3>2, <3>3, <3>4, <3>5, <3>6
  <2> HIDE DEF x
  <2>5. Bits01
    <3>1. aenc.reg \in Registers
      BY <2>4 DEF Ended, Ready, About
    <3>2. aenc.reg.out \in Seq({0, 1})
      BY <3>1, RegisterRanges
    <3>3. ASSUME NEW p \in Nat PROVE Padded(p) \in {0, 1}
      <4>1. CASE p < Len(aenc.reg.out)
        <5>1. p + 1 \in 1 .. Len(aenc.reg.out)
          BY <3>2, <4>1
        <5>2. aenc.reg.out[p + 1] \in {0, 1}
          BY <3>2, <5>1
        <5> QED BY <4>1, <5>2 DEF Padded
      <4>2. CASE ~ (p < Len(aenc.reg.out))
        BY <4>2 DEF Padded
      <4> QED BY <4>1, <4>2
    <3> QED BY <3>3 DEF Bits01
  <2>6. PICK window : Window(window) /\ Matches(Started.reg, NewRegisters, window)
    BY <2>5, StartedMatches
  <2>7. PICK c : /\ c[1] = Started /\ \A n \in 1 .. N : c[n + 1] = Follow(c[n], symbols[n])
                 /\ (\A n \in 1 .. N + 1 : share(c[n], n)) => Recoverable
    <3> DEFINE at[n \in 1 .. Len(symbols)] == IF n = 1 THEN Started ELSE Follow(at[n - 1], symbols[n - 1])
    <3>1. at[1] = Started /\ \A n \in 1 .. N : at[n + 1] = Follow(at[n], symbols[n])
      BY <2>1, FollowedIs
    <3>2. (\A n \in 1 .. Len(symbols) : share(at[n], n)) => Recoverable
      BY DEF Recoverable
    <3> HIDE DEF at, symbols, N, share
    <3>3. (\A n \in 1 .. N + 1 : share(at[n], n)) => Recoverable
      BY <2>2, <3>2
    <3> QED BY <3>1, <3>3
  <2> HIDE DEF symbols, N
  <2> DEFINE d == [n \in 1 .. N + 2 |-> IF n <= N + 1 THEN c[n] ELSE Follow(c[N + 1], symbols[N + 1])]
  <2>8. /\ \A n \in 1 .. N + 1 : d[n] = c[n]
        /\ \A n \in 1 .. N + 1 : d[n + 1] = Follow(d[n], symbols[n])
    <3>1. \A n \in 1 .. N + 1 : d[n] = c[n]
      BY <2>2
    <3>2. d[N + 2] = Follow(c[N + 1], symbols[N + 1])
      BY <2>2
    <3> HIDE DEF d
    <3>3. ASSUME NEW n \in 1 .. N + 1 PROVE d[n + 1] = Follow(d[n], symbols[n])
      <4>1. CASE n = N + 1
        <5>1. n + 1 = N + 2
          BY <2>2, <4>1
        <5> QED BY <3>1, <3>2, <4>1, <5>1
      <4>2. CASE n # N + 1
        <5>1. n \in 1 .. N /\ n + 1 \in 1 .. N + 1
          BY <2>2, <4>2
        <5> QED BY <2>7, <3>1, <5>1
      <4> QED BY <4>1, <4>2
    <3> QED BY <3>1, <3>3
  <2> HIDE DEF d
  <2>9. \A k \in 0 .. N + 1 : Written(x[k].reg)
    <3> DEFINE T == {k \in Nat : Written(x[k].reg)}
    <3>1. N + 1 \in T
      <4>1. Written(last.reg)
        BY <2>4 DEF Ended, Written
      <4> QED BY <2>2, <4>1
    <3>2. ASSUME NEW k \in 1 .. N + 1, k \in T PROVE k - 1 \in T
      <4>1. k - 1 \in 0 .. N + 1 /\ k - 1 \in Nat
        BY <2>2
      <4>2. Fine(x[k - 1]) /\ symbols[k] \in Letters /\ Written(encode(x[k - 1], symbols[k]).reg)
        BY <2>4, <3>2, <4>1
      <4>3. Written(x[k - 1].reg)
        BY <4>2, WrittenEncode
      <4> QED BY <4>1, <4>3
    <3> HIDE DEF T
    <3>3. N + 1 \in Nat
      BY <2>2
    <3>4. \A k \in 0 .. N + 1 : k \in T
      BY <3>1, <3>2, <3>3, StepsDown
    <3> QED BY <3>4 DEF T
  <2> DEFINE Beside(k) == d[k + 1].dist = x[k].dist /\ Matches(d[k + 1].reg, x[k].reg, window)
  <2>10. ASSUME NEW k \in 1 .. N + 1, Beside(k - 1)
         PROVE  Beside(k) /\ (Inside(d[k + 1].reg) => Inside(d[k].reg) /\ share(d[k], k))
    <3>1. (k - 1) + 1 = k /\ k - 1 \in 0 .. N + 1 /\ k \in 0 .. N + 1
      BY <2>2
    <3>2. /\ Fine(x[k - 1]) /\ symbols[k] \in Letters /\ Written(encode(x[k - 1], symbols[k]).reg)
          /\ x[k] = encode(x[k - 1], symbols[k]) /\ d[k + 1] = Follow(d[k], symbols[k])
      BY <2>4, <2>8, <2>9, <3>1
    <3>3. d[k].dist = x[k - 1].dist /\ Matches(d[k].reg, x[k - 1].reg, window)
      BY <2>10, <3>1
    <3> QED BY <2>5, <2>6, <3>2, <3>3, FollowStep
  <2>11. \A k \in 0 .. N + 1 : Beside(k)
    <3> DEFINE T == {k \in Nat : Beside(k)}
    <3>1. 0 \in T
      <4>1. 0 + 1 = 1 /\ 1 \in 1 .. N + 1
        BY <2>2
      <4>2. d[1] = Started
        BY <2>7, <2>8, <4>1
      <4>3. Started.dist = NewArithmetic.dist /\ NewArithmetic.reg = NewRegisters
        BY DEF Started, NewArithmetic
      <4> QED BY <2>4, <2>6, <4>1, <4>2, <4>3
    <3>2. ASSUME NEW k \in 1 .. N + 1, k - 1 \in T PROVE k \in T
      <4> HIDE DEF Beside
      <4>1. Beside(k - 1)
        BY <3>2
      <4>2. Beside(k) /\ k \in Nat
        BY <2>2, <2>10, <4>1
      <4> QED BY <4>2
    <3> HIDE DEF T
    <3>3. N + 1 \in Nat
      BY <2>2
    <3>4. \A k \in 0 .. N + 1 : k \in T
      BY <3>1, <3>2, <3>3, StepsUp
    <3> QED BY <3>4 DEF T
  <2>12. Inside(d[N + 2].reg)
    <3> DEFINE f == d[N + 2].reg
               r == last.reg
               m == Len(r.out)
               u == r.underflow
    <3>1. Matches(f, r, window)
      <4>1. N + 1 \in 0 .. N + 1 /\ (N + 1) + 1 = N + 2
        BY <2>2
      <4> QED BY <2>11, <4>1
    <3>2. Ready(r) /\ r \in Registers
      <4>1. N + 1 \in 0 .. N + 1
        BY <2>2
      <4> QED BY <2>4, <4>1 DEF Fine, Ready, About
    <3>3. m \in Nat /\ u \in Nat
      <4>1. r.out \in Seq({0, 1}) /\ u \in Nat
        BY <3>2, RegisterRanges
      <4> QED BY <4>1
    <3>4. \A p \in Nat : Padded(p) = IF p < m THEN r.out[p + 1] ELSE IF p = m THEN 1 ELSE 0
      BY <2>4 DEF Ended
    <3> HIDE DEF f, r
    <3>5. f.low = r.low /\ f.high = r.high
          /\ ((\A j \in 1 .. u : Padded(m + j) = 1 - Padded(m)) => f.code = Padded(m) * TOP_BIT_MASK + window[m + 1 + u])
      BY <3>1 DEF Matches
    <3> HIDE DEF m, u
    <3>6. Padded(m) = 1 /\ \A p \in Nat : p > m => Padded(p) = 0
      BY <3>3, <3>4
    <3>7. \A j \in 1 .. u : Padded(m + j) = 1 - Padded(m)
      <4>1. \A j \in 1 .. u : m + j \in Nat /\ m + j > m
        BY <3>3
      <4> QED BY <3>6, <4>1
    <3>8. window[m + 1 + u] = 0
      <4> DEFINE p == m + 1 + u
      <4>1. p \in Nat /\ p > m
        BY <3>3
      <4> HIDE DEF p
      <4>2. \A q \in Nat : q >= p => Padded(q) = 0
        BY <3>3, <3>6, <4>1
      <4>3. window[p] = 0
        BY <2>6, <4>1, <4>2 DEF Window
      <4> QED BY <4>3 DEF p
    <3>9. TOP_BIT_MASK = 2 * Quarter /\ Quarter \in Nat
      BY Masks DEF Quarter
    <3>10. f.code = 2 * Quarter
      BY <3>5, <3>6, <3>7, <3>8, <3>9
    <3>11. r.low < 2 * Quarter /\ 2 * Quarter <= r.high /\ r.low \in Nat /\ r.high \in Nat
      BY <3>2, RegisterRanges DEF Ready, About
    <3>12. Inside(f)
      <4> HIDE DEF Quarter
      <4> QED BY <3>5, <3>9, <3>10, <3>11 DEF Inside
    <3> QED BY <3>12 DEF f
  <2>13. \A k \in 0 .. N + 1 : Inside(d[k + 1].reg)
    <3> DEFINE T == {k \in Nat : Inside(d[k + 1].reg)}
    <3>1. N + 1 \in T
      <4>1. N + 1 \in Nat /\ (N + 1) + 1 = N + 2
        BY <2>2
      <4> QED BY <2>12, <4>1
    <3>2. ASSUME NEW k \in 1 .. N + 1, k \in T PROVE k - 1 \in T
      <4> HIDE DEF Beside
      <4>1. k - 1 \in 0 .. N + 1 /\ k - 1 \in Nat /\ (k - 1) + 1 = k
        BY <2>2
      <4>2. Inside(d[k].reg)
        BY <2>10, <2>11, <3>2, <4>1
      <4> QED BY <4>1, <4>2
    <3> HIDE DEF T
    <3>3. N + 1 \in Nat
      BY <2>2
    <3>4. \A k \in 0 .. N + 1 : k \in T
      BY <3>1, <3>2, <3>3, StepsDown
    <3> QED BY <3>4 DEF T
  <2>14. ASSUME NEW n \in 1 .. N + 1 PROVE share(c[n], n)
    <3> HIDE DEF Beside, share
    <3>1. n - 1 \in 0 .. N + 1 /\ n \in 0 .. N + 1
      BY <2>2
    <3>2. share(d[n], n)
      BY <2>10, <2>11, <2>13, <3>1
    <3> QED BY <2>8, <3>2
  <2> HIDE DEF share
  <2> QED BY <2>7, <2>14
<1> QED BY <1>1, ArithmeticInvAlways, PTL
===============================================================================
