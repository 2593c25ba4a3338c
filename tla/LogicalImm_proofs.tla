------------------------- MODULE LogicalImm_proofs -------------------------
(***************************************************************************)
(* The immediates of logical instructions, for registers of every width:   *)
(* the fields that IsImmLogical answers stand, by GetLogicalImmediate, for *)
(* the value it was asked about; it refuses only what no fields stand for; *)
(* and fields stand for the same immediate just if they have the same key. *)
(*                                                                         *)
(* The argument has four parts. (1) The laws of powers of two, which the   *)
(* provers do not know: 2^(n+1) = 2 * 2^n is derived from the number of    *)
(* subsets of a finite set (FS_SUBSET of the library), the others from it  *)
(* by induction. Induction is over a set of numbers, not over a formula.   *)
(* (2) The searches: LowestSetBit finds the exponent of two in a number,   *)
(* Log2 its greatest power of two, and the number that Repeat multiplies   *)
(* by is 1 + 2^d + 2^2d + ... for elements of d bits. (3) An even value is *)
(* accepted just if it is a Run: ones from bit i up to bit j of each       *)
(* element of 2^l bits, with 1 <= i < j <= 2^l. An odd one is the          *)
(* complement of an even one. (4) Fields stand for all ones, for a Run or  *)
(* for the complement of one, and which of these it is can be read off     *)
(* their key; a Run is found again by (3), so that equal immediates have   *)
(* equal keys.                                                             *)
(*                                                                         *)
(* The object of an instruction comes last: the invariant adds to the      *)
(* types that the fields, once assembled, are those that IsImmLogical      *)
(* answers of the immediate the object still has.                          *)
(***************************************************************************)
EXTENDS LogicalImm, FunctionTheorems, FiniteSetTheorems, WellFoundedInduction, TLAPS

(* The name hides the operator from the provers, which know no law of it.  *)
Pow(n) == 2^n

(* A set of n elements has 2^n subsets, a natural number.                  *)
LEMMA PowCard ==
    ASSUME NEW n \in Nat
    PROVE  /\ IsFiniteSet(SUBSET (1..n)) /\ Cardinality(SUBSET (1..n)) = Pow(n)
           /\ Pow(n) \in Nat
<1>1. IsFiniteSet(1..n) /\ Cardinality(1..n) = n
  BY FS_Interval
<1>2. IsFiniteSet(SUBSET (1..n)) /\ Cardinality(SUBSET (1..n)) = Pow(n)
  BY Zenon, <1>1, FS_SUBSET DEF Pow
<1> QED BY <1>2, FS_CardinalityType

(* 2^0.                                                                    *)
LEMMA PowZero == Pow(0) = 1
BY DEF Pow

(* 2^(n+1) = 2 * 2^n: half of the subsets of 1..n+1 are without n+1, and   *)
(* the others are those with n+1 added.                                    *)
LEMMA PowSucc ==
    ASSUME NEW n \in Nat
    PROVE  Pow(n + 1) = 2 * Pow(n)
<1> DEFINE S == SUBSET (1..n)
           T == {A \cup {n + 1} : A \in S}
           f == [A \in S |-> A \cup {n + 1}]
<1>1. S \cup T = SUBSET (1..(n + 1))
  <2>1. ASSUME NEW A \in SUBSET (1..(n + 1)), n + 1 \in A
        PROVE  A \in T
    <3>1. A \ {n + 1} \in S /\ (A \ {n + 1}) \cup {n + 1} = A
      BY <2>1
    <3> QED BY <3>1
  <2>2. ASSUME NEW A \in SUBSET (1..(n + 1)), n + 1 \notin A
        PROVE  A \in S
    BY <2>2
  <2>3. 1..n \subseteq 1..(n + 1) /\ n + 1 \in 1..(n + 1)
    OBVIOUS
  <2>4. S \subseteq SUBSET (1..(n + 1))
    BY Zenon, <2>3
  <2>5. T \subseteq SUBSET (1..(n + 1))
    <3> SUFFICES ASSUME NEW A \in S
                 PROVE  A \cup {n + 1} \in SUBSET (1..(n + 1))
      OBVIOUS
    <3>1. A \subseteq 1..(n + 1)
      BY <2>4
    <3> QED BY ONLY SMT, <2>3, <3>1
  <2> HIDE DEF S, T
  <2> QED BY <2>1, <2>2, <2>4, <2>5
<1>2. S \cap T = {}
  OBVIOUS
<1>3. f \in Bijection(S, T)
  <2>1. f \in [S -> T] /\ \A A \in S : f[A] = A \cup {n + 1}
    OBVIOUS
  <2>2. \A A, B \in S : f[A] = f[B] => A = B
    <3>1. \A A \in S : n + 1 \notin A
      OBVIOUS
    <3> HIDE DEF S, T, f
    <3>2. \A A, B \in S : A \cup {n + 1} = B \cup {n + 1} => A = B
      <4>1. \A A \in S : (A \cup {n + 1}) \ {n + 1} = A
        BY <3>1
      <4> QED BY Zenon, <4>1
    <3> QED BY Zenon, <2>1, <3>2
  <2>3. \A t \in T : \E A \in S : f[A] = t
    BY <2>1
  <2> HIDE DEF S, T, f
  <2> QED BY <2>1, <2>2, <2>3, Fun_IsBij DEF Bijection, Injection, Surjection, IsInjective
<1> HIDE DEF S, T, f
<1>4. IsFiniteSet(S) /\ Cardinality(S) = Pow(n)
  BY PowCard DEF S
<1>5. IsFiniteSet(T) /\ Cardinality(T) = Cardinality(S)
  BY <1>3, <1>4, FS_Bijection DEF ExistsBijection
<1>6. Cardinality(S \cup T) = Cardinality(S) + Cardinality(T) - Cardinality({})
  BY <1>2, <1>4, <1>5, FS_Union
<1>7. Cardinality(S \cup T) = Pow(n + 1)
  <2>1. n + 1 \in Nat
    OBVIOUS
  <2> QED BY <1>1, <2>1, PowCard
<1>8. Pow(n) \in Nat /\ Cardinality({}) = 0
  BY PowCard, FS_EmptySet
<1> QED BY <1>4, <1>5, <1>6, <1>7, <1>8

(* Induction, for a set of numbers instead of an operator: the least       *)
(* number that is not in S would have its predecessor in S.                *)
LEMMA Induct ==
    ASSUME NEW S \in SUBSET Nat, 0 \in S, \A n \in S : n + 1 \in S
    PROVE  S = Nat
<1> DEFINE R == OpToRel(<, Nat)
           T == Nat \ S
<1>1. IsWellFoundedOn(R, Nat)
  BY NatLessThanWellFounded
<1>2. \A x \in Nat, y \in Nat : y < x => <<y, x>> \in R
  BY Zenon DEF OpToRel
<1> HIDE DEF R
<1> SUFFICES ASSUME T # {}
             PROVE  FALSE
  OBVIOUS
<1>3. T \subseteq Nat
  OBVIOUS
<1>4. PICK x \in T : \A y \in T : ~(<<y, x>> \in R)
  BY ONLY <1>1, <1>3, T # {}, WFMin
<1>5. \A y \in T : ~(y < x)
  BY Zenon, <1>2, <1>3, <1>4
<1>6. x \in Nat /\ x # 0 /\ x \notin S
  OBVIOUS
<1>7. x - 1 \in Nat /\ x - 1 < x /\ (x - 1) + 1 = x
  BY <1>6
<1>8. x - 1 \in S
  BY <1>5, <1>7
<1> QED BY <1>6, <1>7, <1>8

(* A power of two is positive, and above its exponent.                     *)
LEMMA PowPos ==
    ASSUME NEW n \in Nat
    PROVE  Pow(n) \in Nat \ {0} /\ n < Pow(n)
<1> DEFINE S == {k \in Nat : k < Pow(k)}
<1>1. 0 \in S
  BY PowZero
<1>2. ASSUME NEW k \in S
      PROVE  k + 1 \in S
  <2>1. k \in Nat /\ k + 1 \in Nat /\ k < Pow(k)
    OBVIOUS
  <2>2. Pow(k + 1) = 2 * Pow(k) /\ Pow(k) \in Nat
    BY <2>1, PowSucc, PowCard
  <2>3. k + 1 < Pow(k + 1)
    BY <2>1, <2>2
  <2> QED BY <2>1, <2>3
<1>3. S = Nat
  <2> HIDE DEF S
  <2>1. S \in SUBSET Nat
    BY DEF S
  <2> QED BY <1>1, <1>2, <2>1, Induct
<1>4. n < Pow(n) /\ Pow(n) \in Nat
  BY <1>3, PowCard
<1> QED BY <1>4

(* The law of exponents.                                                   *)
LEMMA PowAdd ==
    ASSUME NEW m \in Nat, NEW n \in Nat
    PROVE  Pow(m + n) = Pow(m) * Pow(n)
<1> DEFINE S == {k \in Nat : Pow(m + k) = Pow(m) * Pow(k)}
<1>1. 0 \in S
  <2>1. Pow(m) \in Nat
    BY PowPos
  <2> QED BY <2>1, PowZero
<1>2. ASSUME NEW k \in S
      PROVE  k + 1 \in S
  <2>1. k \in Nat /\ k + 1 \in Nat /\ m + k \in Nat /\ Pow(m + k) = Pow(m) * Pow(k)
    OBVIOUS
  <2>2. Pow((m + k) + 1) = 2 * Pow(m + k) /\ Pow(k + 1) = 2 * Pow(k)
    BY <2>1, PowSucc
  <2>3. Pow(m) \in Nat /\ Pow(k) \in Nat
    BY <2>1, PowPos
  <2>4. m + (k + 1) = (m + k) + 1
    BY <2>1
  <2>5. 2 * (Pow(m) * Pow(k)) = Pow(m) * (2 * Pow(k))
    BY <2>3
  <2>6. Pow(m + (k + 1)) = Pow(m) * Pow(k + 1)
    BY <2>1, <2>2, <2>4, <2>5
  <2> QED BY <2>1, <2>6
<1>3. S = Nat
  <2> HIDE DEF S
  <2>1. S \in SUBSET Nat
    BY DEF S
  <2> QED BY <1>1, <1>2, <2>1, Induct
<1> QED BY <1>3

(* Powers of two grow, by a factor of two at least.                        *)
LEMMA PowLess ==
    ASSUME NEW m \in Nat, NEW n \in Nat
    PROVE  /\ m < n => 2 * Pow(m) <= Pow(n)
           /\ m <= n => Pow(m) <= Pow(n)
<1>1. ASSUME m < n
      PROVE  2 * Pow(m) <= Pow(n)
  <2>1. n - m - 1 \in Nat /\ m + 1 \in Nat /\ (m + 1) + (n - m - 1) = n
    BY <1>1
  <2>2. Pow(n) = Pow(m + 1) * Pow(n - m - 1) /\ Pow(m + 1) = 2 * Pow(m)
    BY <2>1, PowAdd, PowSucc
  <2>3. Pow(m) \in Nat /\ Pow(n - m - 1) \in Nat \ {0}
    BY <2>1, PowPos
  <2>4. ASSUME NEW p \in Nat, NEW q \in Nat \ {0}
        PROVE  2 * p <= (2 * p) * q
    <3>1. (2 * p) * q = 2 * p + (2 * p) * (q - 1)
      OBVIOUS
    <3>2. (2 * p) * (q - 1) >= 0
      OBVIOUS
    <3> QED BY <3>1, <3>2
  <2> QED BY <2>2, <2>3, <2>4
<1> QED BY <1>1, PowPos

(* A power of two divides every larger one.                                *)
LEMMA PowDiff ==
    ASSUME NEW m \in Nat, NEW n \in Nat, m <= n
    PROVE  Pow(n) = Pow(m) * Pow(n - m) /\ Pow(n - m) \in Nat \ {0}
<1> DEFINE k == n - m
<1>1. k \in Nat /\ m + k = n
  OBVIOUS
<1> HIDE DEF k
<1>2. Pow(m + k) = Pow(m) * Pow(k) /\ Pow(k) \in Nat \ {0}
  BY <1>1, PowAdd, PowPos
<1> QED BY <1>1, <1>2 DEF k

(* 2^1.                                                                    *)
LEMMA PowOne == Pow(1) = 2
BY PowZero, PowSucc

(* A power of two other than 1 is even.                                    *)
LEMMA PowEven ==
    ASSUME NEW n \in Nat \ {0}
    PROVE  Pow(n) = 2 * Pow(n - 1) /\ Pow(n) >= 2 /\ Pow(n - 1) \in Nat \ {0}
<1>1. n - 1 \in Nat /\ (n - 1) + 1 = n
  OBVIOUS
<1> QED BY <1>1, PowSucc, PowPos

(* Division with remainder.                                                *)
LEMMA DivMod ==
    ASSUME NEW m \in Nat \ {0}, NEW q \in Int, NEW r \in 0..m - 1
    PROVE  (m * q + r) % m = r /\ (m * q + r) \div m = q
OBVIOUS

(* Every integer is its quotient times the divisor, plus its remainder.    *)
LEMMA DivModEx ==
    ASSUME NEW m \in Nat \ {0}, NEW v \in Int
    PROVE  v = m * (v \div m) + (v % m) /\ v % m \in 0..m - 1 /\ v \div m \in Int
OBVIOUS

(* No number is both even and odd.                                         *)
LEMMA Parity ==
    ASSUME NEW s \in Int, NEW t \in Int, 2 * s = 2 * t + 1
    PROVE  FALSE
OBVIOUS

(* The product of odd numbers is odd.                                      *)
LEMMA OddTimesOdd ==
    ASSUME NEW s \in Int, NEW t \in Int
    PROVE  (2 * s + 1) * (2 * t + 1) = 2 * (2 * (s * t) + s + t) + 1
OBVIOUS

(* Multiplication is commutative, associative and distributive: stated     *)
(* once, since the arithmetic of the provers is linear.                    *)
LEMMA Multiply ==
    ASSUME NEW p \in Int, NEW q \in Int, NEW r \in Int
    PROVE  /\ p * q \in Int /\ p * q = q * p
           /\ p * (q + r) = p * q + p * r
           /\ p * (q - r) = p * q - p * r
           /\ (p * q) * r = p * (q * r)
OBVIOUS

(* A positive factor can be cancelled.                                     *)
LEMMA Cancel ==
    ASSUME NEW p \in Nat \ {0}, NEW q \in Int, NEW r \in Int, p * q = p * r
    PROVE  q = r
OBVIOUS

(* Products of naturals are naturals.                                      *)
LEMMA NatTimes ==
    ASSUME NEW p \in Nat, NEW q \in Nat
    PROVE  p * q \in Nat
OBVIOUS

(* Multiplication is monotonic.                                            *)
LEMMA TimesLess ==
    ASSUME NEW p \in Nat, NEW q \in Nat, NEW r \in Nat, p <= q
    PROVE  p * r <= q * r
OBVIOUS

(* The widths.                                                             *)
Wide == LogX \in Nat /\ LogX >= 2

(* The registers have 2^LogX bits and half of that, four at least, and     *)
(* 2^XRegSize is the square of 2^WRegSize.                                 *)
LEMMA Widths ==
    ASSUME Wide
    PROVE  /\ XRegSize = Pow(LogX) /\ XRegSize \in Nat /\ XRegSize >= 4
           /\ WRegSize = Pow(LogX - 1) /\ XRegSize = 2 * WRegSize
           /\ WRegSize \in Nat /\ WRegSize >= 2
           /\ Modulus = Pow(XRegSize) /\ Modulus = Pow(WRegSize) * Pow(WRegSize)
           /\ 2^WRegSize = Pow(WRegSize)
           /\ Pow(WRegSize) \in Nat /\ Pow(WRegSize) >= 4
<1>1. LogX \in Nat \ {0} /\ LogX - 1 \in Nat \ {0}
  BY DEF Wide
<1>2. XRegSize = Pow(LogX) /\ Modulus = Pow(XRegSize) /\ 2^WRegSize = Pow(WRegSize)
  BY DEF XRegSize, Modulus, Pow
<1>3. /\ Pow(LogX) = 2 * Pow(LogX - 1) /\ Pow(LogX - 1) \in Nat /\ Pow(LogX - 1) >= 2
  BY <1>1, PowEven
<1>4. WRegSize = Pow(LogX - 1)
  BY <1>2, <1>3 DEF WRegSize
<1>5. WRegSize \in Nat /\ XRegSize = WRegSize + WRegSize
  BY <1>2, <1>3, <1>4
<1>6. Pow(XRegSize) = Pow(WRegSize) * Pow(WRegSize)
  BY <1>5, PowAdd
<1>7. 2 * Pow(1) <= Pow(WRegSize) \/ Pow(WRegSize) >= 4
  <2>1. 1 < WRegSize
    BY <1>3, <1>4
  <2> QED BY <1>5, <2>1, PowLess
<1> QED BY <1>2, <1>3, <1>4, <1>5, <1>6, <1>7, PowOne, PowPos

(* What Max answers, given an element that is not below another.           *)
LEMMA MaxIs ==
    ASSUME NEW S \in SUBSET Int, NEW m \in S, \A y \in S : y <= m
    PROVE  Max(S) = m
<1>1. \A x \in S : (\A y \in S : x >= y) <=> x = m
  <2> SUFFICES ASSUME NEW x \in S
               PROVE  (\A y \in S : x >= y) <=> x = m
    OBVIOUS
  <2>1. (\A y \in S : x >= y) => x = m
    OBVIOUS
  <2>2. x = m => \A y \in S : x >= y
    OBVIOUS
  <2> QED BY <2>1, <2>2
<1> QED BY <1>1 DEF Max

(* A number with its least significant 1 at bit i.                         *)
LEMMA LSBIs ==
    ASSUME Wide, NEW i \in 0..XRegSize, NEW t \in Int
    PROVE  LowestSetBit(Pow(i) * (2 * t + 1)) = Pow(i)
<1> DEFINE v == Pow(i) * (2 * t + 1)
           K == {k \in 0..XRegSize : v % 2^k = 0}
<1>1. i \in Nat /\ XRegSize \in Nat /\ Pow(i) \in Nat \ {0} /\ v \in Int
  BY Widths, PowPos
<1>2. v # 0
  BY <1>1
<1>3. ASSUME NEW k \in K
      PROVE  2^k \in Int /\ 2^k <= Pow(i)
  <2>1. k \in Nat /\ v % Pow(k) = 0 /\ Pow(k) \in Nat \ {0}
    BY <1>1, PowPos DEF Pow
  <2>2. ASSUME i < k
        PROVE  FALSE
    <3> DEFINE q == v \div Pow(k)
    <3>1. v = Pow(k) * q + 0 /\ q \in Int
      <4> HIDE DEF v
      <4> QED BY <1>1, <2>1, DivModEx
    <3>2. k - i - 1 \in Nat /\ k - i \in Nat \ {0} /\ i + (k - i) = k
      BY <1>1, <2>1, <2>2
    <3>3. Pow(k) = Pow(i) * Pow(k - i)
      BY <1>1, <3>2, PowAdd
    <3>4. Pow(k - i) = 2 * Pow(k - i - 1) /\ Pow(k - i - 1) \in Nat
      BY <3>2, PowEven
    <3> HIDE DEF q
    <3>5. Pow(k) * q = Pow(i) * (2 * (Pow(k - i - 1) * q))
      <4> DEFINE p == Pow(k - i - 1)
      <4>1. p \in Nat /\ Pow(k) = Pow(i) * (2 * p)
        BY <3>3, <3>4
      <4> HIDE DEF p
      <4> SUFFICES Pow(k) * q = Pow(i) * (2 * (p * q))
        BY DEF p
      <4> QED BY <1>1, <3>1, <4>1
    <3>6. Pow(k - i - 1) * q \in Int
      BY <3>1, <3>4, Multiply
    <3>7. Pow(i) * (2 * t + 1) = Pow(i) * (2 * (Pow(k - i - 1) * q))
      BY <2>1, <3>1, <3>5
    <3>8. 2 * t + 1 = 2 * (Pow(k - i - 1) * q)
      BY <1>1, <3>6, <3>7, Cancel
    <3> QED BY <3>6, <3>8, Parity
  <2> QED BY <1>1, <2>1, <2>2, PowLess DEF Pow
<1>4. Pow(i) \in {2^k : k \in K}
  <2>1. v % Pow(i) = 0
    <3>1. (Pow(i) * (2 * t + 1) + 0) % Pow(i) = 0
      BY <1>1, DivMod
    <3> QED BY <1>1, <3>1
  <2> QED BY <1>1, <2>1 DEF Pow
<1>5. Max({2^k : k \in K}) = Pow(i)
  <2>1. {2^k : k \in K} \in SUBSET Int
    BY <1>3
  <2>2. \A y \in {2^k : k \in K} : y <= Pow(i)
    BY <1>3
  <2> HIDE DEF K
  <2> QED BY <1>4, <2>1, <2>2, MaxIs
<1> QED BY <1>2, <1>5 DEF LowestSetBit

(* Induction from all smaller numbers.                                     *)
LEMMA StrongInduct ==
    ASSUME NEW S \in SUBSET Nat,
           \A n \in Nat : (\A m \in 0..n - 1 : m \in S) => n \in S
    PROVE  S = Nat
<1> DEFINE T == {n \in Nat : \A m \in 0..n - 1 : m \in S}
<1>1. 0 \in T
  OBVIOUS
<1>2. ASSUME NEW n \in T
      PROVE  n + 1 \in T
  <2>1. n \in S
    OBVIOUS
  <2> QED BY <2>1
<1>3. T = Nat
  <2>1. T \in SUBSET Nat
    OBVIOUS
  <2> HIDE DEF T
  <2> QED BY <1>1, <1>2, <2>1, Induct
<1>4. \A n \in Nat : n \in S
  BY <1>3
<1> QED BY <1>4

(* Every number but 0 has a least significant 1, and a most significant one. *)
LEMMA LSBExists ==
    ASSUME NEW v \in Nat \ {0}
    PROVE  \E i \in Nat, t \in Nat : v = Pow(i) * (2 * t + 1)
<1> DEFINE S == {n \in Nat : n # 0 => \E i \in Nat, t \in Nat : n = Pow(i) * (2 * t + 1)}
<1>1. ASSUME NEW n \in Nat, \A m \in 0..n - 1 : m \in S
      PROVE  n \in S
  <2> SUFFICES ASSUME n # 0
               PROVE  \E i \in Nat, t \in Nat : n = Pow(i) * (2 * t + 1)
    OBVIOUS
  <2> DEFINE h == n \div 2
  <2>1. n = 2 * h \/ n = 2 * h + 1
    OBVIOUS
  <2>2. h \in Nat /\ h < n
    OBVIOUS
  <2> HIDE DEF h
  <2>3. ASSUME n = 2 * h + 1
        PROVE  \E i \in Nat, t \in Nat : n = Pow(i) * (2 * t + 1)
    <3>1. n = Pow(0) * (2 * h + 1)
      BY <2>2, <2>3, PowZero
    <3> QED BY <2>2, <3>1
  <2>4. ASSUME n = 2 * h
        PROVE  \E i \in Nat, t \in Nat : n = Pow(i) * (2 * t + 1)
    <3>1. h \in S /\ h # 0
      <4>1. h \in 0..n - 1
        BY <2>2
      <4> QED BY <1>1, <2>4, <4>1
    <3>2. PICK i \in Nat, t \in Nat : h = Pow(i) * (2 * t + 1)
      BY <3>1
    <3>3. n = Pow(i + 1) * (2 * t + 1)
      <4>1. Pow(i + 1) = 2 * Pow(i) /\ Pow(i) \in Nat
        BY PowSucc, PowPos
      <4> QED BY <2>4, <3>2, <4>1
    <3> QED BY <3>3
  <2> QED BY <2>1, <2>3, <2>4
<1>2. S = Nat
  <2>1. S \in SUBSET Nat
    OBVIOUS
  <2> HIDE DEF S
  <2> QED BY <1>1, <2>1, StrongInduct
<1> QED BY <1>2

(* The exponent of the most significant 1.                                 *)
LEMMA LogExists ==
    ASSUME NEW v \in Nat \ {0}
    PROVE  \E l \in Nat : Pow(l) <= v /\ v < Pow(l + 1)
<1> DEFINE S == {n \in Nat : n # 0 => \E l \in Nat : Pow(l) <= n /\ n < Pow(l + 1)}
<1>1. 0 \in S
  OBVIOUS
<1>2. ASSUME NEW n \in S
      PROVE  n + 1 \in S
  <2>1. n \in Nat /\ n + 1 \in Nat
    OBVIOUS
  <2>2. ASSUME n = 0
        PROVE  \E l \in Nat : Pow(l) <= n + 1 /\ n + 1 < Pow(l + 1)
    <3>1. Pow(0) <= n + 1 /\ n + 1 < Pow(0 + 1)
      BY <2>2, PowZero, PowOne
    <3> QED BY <3>1
  <2>3. ASSUME n # 0
        PROVE  \E l \in Nat : Pow(l) <= n + 1 /\ n + 1 < Pow(l + 1)
    <3>1. PICK l \in Nat : Pow(l) <= n /\ n < Pow(l + 1)
      BY <2>3
    <3>2. /\ Pow(l) \in Nat /\ Pow(l + 1) \in Nat
          /\ Pow((l + 1) + 1) = 2 * Pow(l + 1) /\ Pow(l + 1) > 0
      BY PowSucc, PowPos
    <3>3. (n + 1 < Pow(l + 1)) => (Pow(l) <= n + 1 /\ n + 1 < Pow(l + 1))
      BY <2>1, <3>1, <3>2
    <3>4. ~(n + 1 < Pow(l + 1)) => (Pow(l + 1) <= n + 1 /\ n + 1 < Pow((l + 1) + 1))
      BY <2>1, <3>1, <3>2
    <3>5. l + 1 \in Nat
      OBVIOUS
    <3> QED BY <3>3, <3>4, <3>5
  <2> QED BY <2>1, <2>2, <2>3
<1>3. S = Nat
  <2>1. S \in SUBSET Nat
    OBVIOUS
  <2> HIDE DEF S
  <2> QED BY <1>1, <1>2, <2>1, Induct
<1> QED BY <1>3

(* Log2 finds it.                                                          *)
LEMMA Log2Is ==
    ASSUME Wide, NEW l \in 0..XRegSize, NEW v \in Nat, Pow(l) <= v, v < Pow(l + 1)
    PROVE  Log2(v) = l
<1> DEFINE S == {0} \cup {k \in 0..XRegSize : 2^k <= v}
<1>1. l \in Nat /\ l + 1 \in Nat /\ XRegSize \in Nat
  BY Widths
<1>2. l \in S
  BY DEF Pow
<1>3. S \in SUBSET Int
  BY <1>1
<1>4. ASSUME NEW k \in S
      PROVE  k <= l
  <2>1. k \in Nat /\ (k = 0 \/ Pow(k) <= v)
    BY <1>1 DEF Pow
  <2> HIDE DEF S
  <2>2. ASSUME l < k, Pow(k) <= v
        PROVE  FALSE
    <3>1. l + 1 <= k
      BY <1>1, <2>1, <2>2
    <3>2. Pow(l + 1) <= Pow(k) /\ Pow(k) \in Nat /\ Pow(l + 1) \in Nat
      BY <1>1, <2>1, <3>1, PowLess, PowPos
    <3> QED BY <2>2, <3>2
  <2> QED BY <1>1, <2>1, <2>2
<1> HIDE DEF S
<1>5. Max(S) = l
  BY <1>2, <1>3, <1>4, MaxIs
<1> QED BY <1>5 DEF Log2, S

(* What the loop of GetLogicalImmediate answers if no bit is set.          *)
LEMMA Log2Zero == Wide => Log2(0) = 0
<1> SUFFICES ASSUME Wide
             PROVE  Log2(0) = 0
  OBVIOUS
<1> DEFINE S == {0} \cup {k \in 0..XRegSize : 2^k <= 0}
<1>1. XRegSize \in Nat
  BY Widths
<1>2. \A k \in 0..XRegSize : ~(2^k <= 0)
  BY <1>1, PowPos DEF Pow
<1>3. S = {0}
  BY <1>2
<1>4. Max(S) = 0
  <2> HIDE DEF S
  <2> QED BY <1>3, MaxIs
<1> QED BY <1>4 DEF Log2

(* CountLeadingZeros, of a power of two as LowestSetBit answers it.        *)
LEMMA CLZIs ==
    ASSUME Wide, NEW i \in 0..XRegSize
    PROVE  CountLeadingZeros(Pow(i)) = XRegSize - 1 - i
<1>1. i \in Nat /\ XRegSize \in Nat
  BY Widths
<1>2. Pow(i) \in Nat /\ Pow(i) < Pow(i + 1)
  BY <1>1, PowSucc, PowPos
<1>3. Log2(Pow(i)) = i
  BY <1>2, Log2Is
<1> QED BY <1>3 DEF CountLeadingZeros

(* 2^(2^k) - 1 is a multiple of 2^(2^l) - 1, for l up to k.                *)
LEMMA Geometric ==
    ASSUME NEW l \in Nat, NEW n \in Nat
    PROVE  \E q \in Nat :
             /\ (Pow(Pow(l)) - 1) * q = Pow(Pow(l + n)) - 1
             /\ n = 0 => q = 1
             /\ n # 0 => \E t \in Nat : q = 1 + Pow(Pow(l)) * (2 * t + 1)
<1> DEFINE Q(k, q) == /\ (Pow(Pow(l)) - 1) * q = Pow(Pow(l + k)) - 1
                      /\ k = 0 => q = 1
                      /\ k # 0 => \E t \in Nat : q = 1 + Pow(Pow(l)) * (2 * t + 1)
           S == {k \in Nat : \E q \in Nat : Q(k, q)}
           P == Pow(Pow(l))
<1>1. Pow(l) \in Nat \ {0} /\ P \in Nat \ {0} /\ P >= 2
  BY PowPos, PowEven
<1>2. 0 \in S
  <2>1. Q(0, 1)
    BY <1>1
  <2> QED BY <2>1
<1>3. ASSUME NEW k \in S
      PROVE  k + 1 \in S
  <2>1. k \in Nat /\ k + 1 \in Nat
    OBVIOUS
  <2>2. PICK q \in Nat : Q(k, q)
    OBVIOUS
  <2> DEFINE R == Pow(Pow(l + k))
             r == q + q * R
  <2>3. Pow(l + k) \in Nat \ {0} /\ R \in Nat \ {0}
    BY <2>1, PowPos
  <2>4. Pow(Pow(l + (k + 1))) = R * R
    <3>1. Pow(l + (k + 1)) = Pow(l + k) + Pow(l + k)
      <4>1. Pow((l + k) + 1) = 2 * Pow(l + k) /\ (l + k) + 1 = l + (k + 1)
        BY <2>1, PowSucc
      <4> QED BY <2>3, <4>1
    <3> QED BY <2>3, <3>1, PowAdd
  <2>5. (P - 1) * q = R - 1
    BY <2>2
  <2>6. r \in Nat /\ (P - 1) * r = R * R - 1
    <3> HIDE DEF P, R
    <3>1. q * R \in Nat
      BY <2>3, NatTimes
    <3>2. (P - 1) * r = (P - 1) * q + ((P - 1) * q) * R
      <4>1. (P - 1) * (q + q * R) = (P - 1) * q + (P - 1) * (q * R)
        BY <1>1, <3>1, Multiply
      <4>2. (P - 1) * (q * R) = ((P - 1) * q) * R
        BY <1>1, <2>3, Multiply
      <4> QED BY <4>1, <4>2
    <3>3. (R - 1) + (R - 1) * R = R * R - 1
      BY <2>3
    <3> QED BY <2>5, <3>1, <3>2, <3>3
  <2>7. \E t \in Nat : r = 1 + P * (2 * t + 1)
    <3>1. ASSUME k = 0
          PROVE  r = 1 + P * (2 * 0 + 1)
      <4>1. q = 1 /\ l + k = l
        BY <2>2, <3>1
      <4> QED BY <1>1, <4>1
    <3>2. ASSUME k # 0
          PROVE  \E t \in Nat : r = 1 + P * (2 * t + 1)
      <4>1. PICK t \in Nat : q = 1 + P * (2 * t + 1)
        BY <2>2, <3>2
      <4> DEFINE e == Pow(l + k) - Pow(l)
                 h == Pow(e - 1)
                 u == t + q * h
      <4>2. e \in Nat \ {0} /\ Pow(l) + e = Pow(l + k)
        <5>1. 2 * Pow(l) <= Pow(l + k)
          BY <2>1, <3>2, PowLess
        <5> QED BY <1>1, <2>3, <5>1
      <4>3. Pow(e) = 2 * h /\ h \in Nat
        <5> HIDE DEF e
        <5> QED BY <4>2, PowEven
      <4>4. R = P * (2 * h)
        <5>1. Pow(Pow(l) + e) = P * Pow(e)
          <6> HIDE DEF e
          <6> QED BY <1>1, <4>2, PowAdd
        <5> QED BY <4>2, <4>3, <5>1
      <4>5. q * h \in Nat
        <5> HIDE DEF h
        <5> QED BY <4>3, NatTimes
      <4>6. q * R = P * (2 * (q * h))
        <5> HIDE DEF P, R, h
        <5> QED BY <1>1, <4>3, <4>4
      <4>7. u \in Nat /\ r = 1 + P * (2 * u + 1)
        <5> HIDE DEF P, R, h, e
        <5>1. u \in Nat
          BY <4>5
        <5>2. P * (2 * u + 1) = P * (2 * t + 1) + P * (2 * (q * h))
          <6>1. 2 * u + 1 = (2 * t + 1) + 2 * (q * h)
            BY <4>5
          <6>2. 2 * t + 1 \in Int /\ 2 * (q * h) \in Int
            BY <4>5
          <6> QED BY <1>1, <6>1, <6>2, Multiply
        <5>3. P * (2 * t + 1) \in Int /\ q * R \in Int
          BY <1>1, <2>3, Multiply
        <5> QED BY <4>1, <4>6, <5>1, <5>2, <5>3
      <4> HIDE DEF u, r, P
      <4> QED BY <4>7
    <3> QED BY <3>1, <3>2
  <2> HIDE DEF r, R
  <2>8. Q(k + 1, r)
    BY <2>1, <2>4, <2>6, <2>7
  <2> HIDE DEF Q
  <2> QED BY <2>1, <2>6, <2>8
<1>4. S = Nat
  <2>1. S \in SUBSET Nat
    OBVIOUS
  <2> HIDE DEF S
  <2> QED BY <1>2, <1>3, <2>1, Induct
<1>5. \E q \in Nat : Q(n, q)
  <2> HIDE DEF Q
  <2> QED BY <1>4
<1> QED BY <1>5

(* The number that Repeat multiplies by has a 1 where each copy begins.    *)
Copies(l) == (Modulus - 1) \div (Pow(Pow(l)) - 1)

(* It times the greatest element is all ones; it is 1 for one element, and *)
(* has a 1 at bit 0 and the next at bit 2^l otherwise.                     *)
LEMMA CopiesIs ==
    ASSUME Wide, NEW l \in 0..LogX
    PROVE  /\ Copies(l) \in Nat /\ (Pow(Pow(l)) - 1) * Copies(l) = Modulus - 1
           /\ l = LogX => Copies(l) = 1
           /\ l # LogX => \E t \in Nat : Copies(l) = 1 + Pow(Pow(l)) * (2 * t + 1)
<1> DEFINE n == LogX - l
<1>1. LogX \in Nat /\ l \in Nat /\ n \in Nat /\ l + n = LogX /\ (n = 0 <=> l = LogX)
  BY DEF Wide
<1> HIDE DEF n
<1>2. PICK q \in Nat :
        /\ (Pow(Pow(l)) - 1) * q = Pow(Pow(LogX)) - 1
        /\ n = 0 => q = 1
        /\ n # 0 => \E t \in Nat : q = 1 + Pow(Pow(l)) * (2 * t + 1)
  BY <1>1, Geometric
<1>3. Modulus = Pow(Pow(LogX))
  BY Widths
<1>4. Pow(Pow(l)) - 1 \in Nat \ {0}
  BY <1>1, PowPos, PowEven
<1>5. Copies(l) = q
  <2>1. ((Pow(Pow(l)) - 1) * q + 0) \div (Pow(Pow(l)) - 1) = q
    <3> DEFINE m == Pow(Pow(l)) - 1
    <3> HIDE DEF m
    <3>1. m \in Nat \ {0}
      BY <1>4 DEF m
    <3>2. (m * q + 0) \div m = q
      BY <3>1, DivMod
    <3> QED BY <3>2 DEF m
  <2>2. (Pow(Pow(l)) - 1) * q + 0 = Modulus - 1
    BY <1>2, <1>3, <1>4, Widths
  <2> QED BY <2>1, <2>2 DEF Copies
<1> QED BY <1>1, <1>2, <1>3, <1>5

(* Ones from bit i up to bit j.                                            *)
LEMMA Ones ==
    ASSUME NEW i \in Nat, NEW j \in Nat, i < j
    PROVE  /\ \E u \in Nat : Pow(j) - Pow(i) = Pow(i) * (2 * u + 1)
           /\ Pow(j) - Pow(i) \in Nat \ {0}
           /\ i # 0 => \E h \in Nat : Pow(j) - Pow(i) = 2 * h
<1> DEFINE p == Pow(i)
           h == Pow(j - i - 1)
<1>1. j - i \in Nat \ {0} /\ i + (j - i) = j
  OBVIOUS
<1>2. Pow(j - i) = 2 * h /\ h \in Nat \ {0}
  BY <1>1, PowEven
<1>3. Pow(j) = p * Pow(j - i) /\ p \in Nat \ {0}
  BY <1>1, PowAdd, PowPos
<1>4. Pow(j) - p = p * (2 * (h - 1) + 1) /\ h - 1 \in Nat
  <2> HIDE DEF p, h
  <2>1. p * (2 * h - 1) = p * (2 * h) - p * 1
    BY <1>2, <1>3, Multiply
  <2>2. 2 * h - 1 = 2 * (h - 1) + 1
    BY <1>2
  <2> QED BY <1>2, <1>3, <2>1, <2>2
<1>5. 2 * Pow(i) <= Pow(j) /\ Pow(i) \in Nat \ {0} /\ Pow(j) \in Nat
  BY PowLess, PowPos
<1>6. ASSUME i # 0
      PROVE  \E k \in Nat : Pow(j) - Pow(i) = 2 * k
  <2>1. i \in Nat \ {0} /\ j \in Nat \ {0} /\ i - 1 \in Nat /\ j - 1 \in Nat /\ i - 1 < j - 1
    BY <1>6
  <2>2. Pow(i) = 2 * Pow(i - 1) /\ Pow(j) = 2 * Pow(j - 1)
    BY <2>1, PowEven
  <2>3. Pow(j - 1) - Pow(i - 1) \in Nat
    <3>1. 2 * Pow(i - 1) <= Pow(j - 1) /\ Pow(i - 1) \in Nat /\ Pow(j - 1) \in Nat
      BY <2>1, PowLess, PowPos
    <3> QED BY <3>1
  <2>4. Pow(j) - Pow(i) = 2 * (Pow(j - 1) - Pow(i - 1))
    <3>1. Pow(i - 1) \in Nat /\ Pow(j - 1) \in Nat
      BY <2>1, PowPos
    <3> QED BY <2>2, <3>1
  <2> QED BY <2>3, <2>4
<1> HIDE DEF h, p
<1>7. \E u \in Nat : Pow(j) - p = p * (2 * u + 1)
  BY <1>4
<1> QED BY <1>5, <1>6, <1>7 DEF p

(* It is odd, so that the product with it has its least significant 1      *)
(* where the element has it.                                               *)
LEMMA CopiesOdd ==
    ASSUME Wide, NEW l \in 0..LogX
    PROVE  \E m \in Nat : Copies(l) = 2 * m + 1
<1>1. l \in Nat /\ Pow(l) \in Nat \ {0}
  BY PowPos DEF Wide
<1> DEFINE h == Pow(Pow(l) - 1)
<1>2. Pow(Pow(l)) = 2 * h /\ h \in Nat
  BY <1>1, PowEven
<1>3. ASSUME l = LogX
      PROVE  Copies(l) = 2 * 0 + 1
  BY <1>3, CopiesIs
<1>4. ASSUME l # LogX
      PROVE  \E m \in Nat : Copies(l) = 2 * m + 1
  <2>1. PICK t \in Nat : Copies(l) = 1 + Pow(Pow(l)) * (2 * t + 1)
    BY <1>4, CopiesIs
  <2> HIDE DEF h
  <2>2. h * (2 * t + 1) \in Nat
    BY <1>2, NatTimes
  <2>3. Copies(l) = 2 * (h * (2 * t + 1)) + 1
    BY <1>2, <2>1
  <2> QED BY <2>2, <2>3
<1> QED BY <1>3, <1>4

(* The least significant 1 is not lost to the width of the register.       *)
LEMMA LSBMod ==
    ASSUME Wide, NEW i \in 0..XRegSize - 1, NEW t \in Int
    PROVE  LowestSetBit((Pow(i) * (2 * t + 1)) % Modulus) = Pow(i)
<1> DEFINE v == Pow(i) * (2 * t + 1)
           q == v \div Modulus
           h == Pow(XRegSize - i - 1)
           p == Pow(i)
<1>1. i \in Nat /\ XRegSize \in Nat /\ XRegSize - i \in Nat \ {0} /\ i + (XRegSize - i) = XRegSize
  BY Widths
<1>2. Modulus = p * Pow(XRegSize - i) /\ Pow(XRegSize - i) = 2 * h /\ h \in Nat \ {0} /\ p \in Nat \ {0}
  <2>1. Modulus = Pow(i) * Pow(XRegSize - i)
    <3>1. Pow(i + (XRegSize - i)) = Pow(i) * Pow(XRegSize - i)
      <4> DEFINE n == XRegSize - i
      <4> HIDE DEF n
      <4>1. n \in Nat
        BY <1>1 DEF n
      <4>2. Pow(i + n) = Pow(i) * Pow(n)
        BY <1>1, <4>1, PowAdd
      <4> QED BY <4>2 DEF n
    <3> QED BY <1>1, <3>1, Widths
  <2>2. Pow(XRegSize - i) = 2 * h /\ h \in Nat \ {0}
    BY <1>1, PowEven
  <2> QED BY <1>1, <2>1, <2>2, PowPos
<1>3. Modulus \in Nat \ {0}
  BY <1>1, PowPos, Widths
<1>4. v \in Int /\ v = p * (2 * t + 1)
  BY <1>2
<1>5. v = Modulus * q + (v % Modulus) /\ q \in Int /\ v % Modulus \in Int
  <2>1. v \in Int
    BY <1>4
  <2> HIDE DEF v
  <2> QED BY <1>3, <2>1, DivModEx
<1>6. v % Modulus = p * (2 * (t - h * q) + 1) /\ t - h * q \in Int
  <2> HIDE DEF v, q, h, p
  <2>1. h * q \in Int
    BY <1>2, <1>5, Multiply
  <2>2. Modulus * q = p * (2 * (h * q))
    BY <1>2, <1>5
  <2>3. p * ((2 * t + 1) - 2 * (h * q)) = p * (2 * t + 1) - p * (2 * (h * q))
    BY <1>2, <2>1, Multiply
  <2>4. (2 * t + 1) - 2 * (h * q) = 2 * (t - h * q) + 1
    BY <2>1
  <2>5. t - h * q \in Int
    BY <2>1
  <2>6. p * (2 * t + 1) - p * (2 * (h * q)) = v - Modulus * q
    BY <1>4, <2>2
  <2>7. v % Modulus = v - Modulus * q
    <3>1. Modulus * q \in Int
      BY <1>3, <1>5, Multiply
    <3> QED BY <1>4, <1>5, <3>1
  <2> QED BY <2>3, <2>4, <2>5, <2>6, <2>7
<1>7. i \in 0..XRegSize
  BY <1>1
<1> HIDE DEF q, h
<1>8. LowestSetBit(Pow(i) * (2 * (t - h * q) + 1)) = Pow(i)
  BY ONLY Wide, <1>6, <1>7, LSBIs
<1> QED BY <1>6, <1>8

(* Ones from bit i up to bit j of each element of 2^l bits.                *)
Run(l, i, j) == (Pow(j) - Pow(i)) * Copies(l)
(* The ones of an element that begin above bit 0: those of an even value.  *)
Shape(l, i, j) ==
    l \in 1..LogX /\ i \in Nat /\ j \in Nat /\ 1 <= i /\ i < j /\ j <= Pow(l)

(* Elements fit in the register a whole number of times, and all but the   *)
(* largest twice at least.                                                 *)
LEMMA ElementSize ==
    ASSUME Wide, NEW l \in 1..LogX
    PROVE  /\ l \in Nat /\ LogX \in Nat /\ Pow(l) \in Nat /\ Pow(l) >= 2
           /\ Pow(l) <= XRegSize /\ (l = LogX => Pow(l) = XRegSize)
           /\ (l # LogX => 2 * Pow(l) <= XRegSize)
           /\ \E q \in Nat \ {0} : XRegSize = Pow(l) * q
<1>1. l \in Nat \ {0} /\ LogX \in Nat /\ LogX - l \in Nat /\ l + (LogX - l) = LogX
  BY DEF Wide
<1>2. Pow(l) \in Nat /\ Pow(l) >= 2
  BY <1>1, PowEven, PowPos
<1>3. l # LogX => l < LogX
  BY <1>1
<1>4. XRegSize = Pow(LogX)
  BY Widths
<1>5. XRegSize = Pow(l) * Pow(LogX - l) /\ Pow(LogX - l) \in Nat \ {0}
  <2> DEFINE n == LogX - l
  <2> HIDE DEF n
  <2>1. n \in Nat /\ l + n = LogX
    BY <1>1 DEF n
  <2>2. Pow(l + n) = Pow(l) * Pow(n) /\ Pow(n) \in Nat \ {0}
    BY <1>1, <2>1, PowAdd, PowPos
  <2> QED BY <1>4, <2>1, <2>2 DEF n
<1>6. Pow(l) <= XRegSize /\ (l # LogX => 2 * Pow(l) <= XRegSize)
  BY <1>1, <1>3, <1>4, PowLess
<1> QED BY <1>1, <1>2, <1>4, <1>5, <1>6

(* Such a value is neither 0 nor all ones, is even, and its element fits.  *)
LEMMA RunRange ==
    ASSUME Wide, NEW l, NEW i, NEW j, Shape(l, i, j)
    PROVE  /\ Run(l, i, j) \in 1..Modulus - 2
           /\ Run(l, i, j) % 2 = 0
           /\ Pow(j) - Pow(i) \in Nat \ {0} /\ Pow(j) - Pow(i) < Pow(Pow(l))
<1> DEFINE e == Pow(j) - Pow(i)
           P == Pow(Pow(l))
           M == Copies(l)
<1>1. l \in 1..LogX /\ l \in 0..LogX /\ i \in Nat \ {0} /\ j \in Nat /\ i < j /\ j <= Pow(l)
  BY DEF Shape, Wide
<1>2. Pow(l) \in Nat /\ M \in Nat /\ (P - 1) * M = Modulus - 1 /\ P \in Nat
  BY <1>1, ElementSize, CopiesIs, PowPos
<1>3. PICK m \in Nat : M = 2 * m + 1
  BY <1>1, CopiesOdd
<1>4. Pow(j) <= P /\ Pow(i) >= 2 /\ Pow(j) \in Nat /\ Pow(i) \in Nat
  BY <1>1, <1>2, PowLess, PowPos, PowEven
<1>5. e \in Nat \ {0} /\ e <= P - 2
  BY <1>1, <1>2, <1>4, Ones
<1>6. PICK h \in Nat : e = 2 * h
  BY <1>1, Ones
<1> HIDE DEF e, P, M
<1>7. e * M <= (P - 2) * M /\ e * M \in Nat
  <2>1. P - 2 \in Nat
    BY <1>2, <1>5
  <2> QED BY <1>2, <1>5, <2>1, TimesLess, NatTimes
<1>8. (P - 2) * M = (P - 1) * M - M
  BY <1>2
<1>9. Modulus \in Nat
  BY Widths, PowPos
<1>10. e * M <= Modulus - 2
  BY <1>2, <1>3, <1>7, <1>8, <1>9
<1>11. e * M = 2 * (h * M) /\ h * M \in Nat
  BY <1>2, <1>6, NatTimes
<1>12. (e * M) % 2 = 0
  <2> DEFINE n == h * M
  <2> HIDE DEF n
  <2>1. n \in Nat /\ e * M = 2 * n
    BY <1>11 DEF n
  <2> QED BY <2>1
<1>13. e * M # 0
  BY <1>2, <1>3, <1>5
<1>14. e * M \in 1..Modulus - 2
  BY <1>7, <1>9, <1>10, <1>13
<1> QED BY <1>1, <1>2, <1>5, <1>12, <1>14 DEF Run, e, P, M

(* What the three searches of IsImmLogical find in it: where the first run *)
(* of ones begins, where it ends, and where the next one begins, 0 for     *)
(* beyond the register.                                                    *)
LEMMA RunBits ==
    ASSUME Wide, NEW l, NEW i, NEW j, Shape(l, i, j)
    PROVE  LET v == Run(l, i, j)
               a == Pow(i)
               b == IF j = XRegSize THEN 0 ELSE Pow(j)
           IN  /\ LowestSetBit(v) = a
               /\ LowestSetBit((v + a) % Modulus) = b
               /\ LowestSetBit((v + a - b) % Modulus) =
                     IF l = LogX THEN 0 ELSE Pow(i + Pow(l))
<1> DEFINE e == Pow(j) - Pow(i)
           d == Pow(l)
           P == Pow(d)
           M == Copies(l)
           v == Run(l, i, j)
           a == Pow(i)
           b == IF j = XRegSize THEN 0 ELSE Pow(j)
<1>1. /\ l \in 1..LogX /\ l \in 0..LogX /\ i \in Nat \ {0} /\ i \in Nat
      /\ j \in Nat /\ i < j /\ j <= d
  BY DEF Shape, Wide
<1>2. /\ d \in Nat /\ d >= 2 /\ d <= XRegSize /\ (l = LogX => d = XRegSize)
      /\ (l # LogX => 2 * d <= XRegSize) /\ XRegSize \in Nat
  BY <1>1, ElementSize, Widths
<1>3. v = e * M
  BY DEF Run
<1>4. PICK u \in Nat : e = a * (2 * u + 1)
  BY <1>1, Ones
<1>5. PICK h \in Nat : e = 2 * h
  BY <1>1, Ones
<1>6. PICK m \in Nat : M = 2 * m + 1
  BY <1>1, CopiesOdd
<1>7. a \in Nat \ {0} /\ Pow(j) \in Nat \ {0} /\ P \in Nat \ {0} /\ Modulus \in Nat \ {0}
  BY <1>1, <1>2, PowPos, Widths
<1>8. e = Pow(j) - a
  OBVIOUS
<1>9. Modulus = Pow(XRegSize) /\ Modulus % Modulus = 0 /\ 0 % Modulus = 0
  BY <1>7, Widths
<1>10. LowestSetBit(0) = 0
  BY DEF LowestSetBit
<1>14. v \in Nat
  BY RunRange
<1> HIDE DEF e, M, v, a
<1>11. LowestSetBit(v) = a
  <2>1. v = a * ((2 * u + 1) * (2 * m + 1))
    BY <1>3, <1>4, <1>6, <1>7
  <2> DEFINE w == 2 * (u * m) + u + m
  <2>2. w \in Int /\ (2 * u + 1) * (2 * m + 1) = 2 * w + 1
    BY OddTimesOdd, Multiply
  <2> HIDE DEF w
  <2>3. i \in 0..XRegSize
    BY <1>1, <1>2
  <2> QED BY <2>1, <2>2, <2>3, LSBIs DEF a
<1>12. ASSUME l = LogX
       PROVE  /\ LowestSetBit((v + a) % Modulus) = b
              /\ LowestSetBit((v + a - b) % Modulus) = 0
  <2>1. M = 1
    BY <1>1, <1>12, CopiesIs DEF M
  <2>2. v + a = Pow(j)
    BY <1>3, <1>4, <1>7, <1>8, <2>1
  <2>3. ASSUME j = XRegSize
        PROVE  (v + a) % Modulus = 0 /\ b = 0 /\ (v + a - b) % Modulus = 0
    <3>1. v + a = Modulus /\ b = 0 /\ v + a - 0 = v + a
      BY <1>7, <1>9, <2>2, <2>3
    <3> QED BY <1>9, <3>1
  <2>4. ASSUME j # XRegSize
        PROVE  LowestSetBit((v + a) % Modulus) = b /\ (v + a - b) % Modulus = 0
    <3>1. b = Pow(j) /\ v + a - b = 0
      BY <1>7, <1>14, <2>2, <2>4
    <3>2. v + a = Pow(j) * (2 * 0 + 1)
      BY <1>7, <2>2
    <3>3. j \in 0..XRegSize - 1
      BY <1>1, <1>2, <2>4
    <3>4. LowestSetBit((Pow(j) * (2 * 0 + 1)) % Modulus) = Pow(j)
      BY <3>3, LSBMod
    <3> QED BY <1>9, <3>1, <3>2, <3>4
  <2> QED BY <1>10, <2>3, <2>4
<1>13. ASSUME l # LogX
       PROVE  /\ LowestSetBit((v + a) % Modulus) = b
              /\ LowestSetBit((v + a - b) % Modulus) = Pow(i + d)
  <2>1. PICK t \in Nat : M = 1 + P * (2 * t + 1)
    BY <1>1, <1>13, CopiesIs DEF M
  <2> DEFINE n == 2 * t + 1
  <2>2. n \in Nat /\ M = 1 + P * n
    BY <2>1
  <2>3. j # XRegSize /\ i + d \in 0..XRegSize - 1 /\ j \in 0..XRegSize - 1 /\ d - j \in Nat
    BY <1>1, <1>2, <1>13
  <2>4. P = Pow(j) * Pow(d - j) /\ Pow(d - j) \in Nat
    <3> DEFINE k == d - j
    <3>1. k \in Nat /\ j + k = d
      BY <1>1, <1>2, <2>3
    <3> HIDE DEF k
    <3>2. Pow(j + k) = Pow(j) * Pow(k) /\ Pow(k) \in Nat
      BY <1>1, <3>1, PowAdd, PowPos
    <3> QED BY <3>1, <3>2 DEF k
  <2>5. P * a = Pow(i + d) /\ Pow(i + d) \in Nat
    <3>1. Pow(i + d) = Pow(i) * Pow(d) /\ Pow(i + d) \in Nat
      <4> HIDE DEF d
      <4>1. i + d \in Nat
        BY <1>1, <1>2
      <4>2. Pow(i + d) = Pow(i) * Pow(d)
        BY <1>1, <1>2, PowAdd
      <4> QED BY <4>1, <4>2, PowPos
    <3> QED BY <1>7, <3>1, Multiply DEF a
  <2> HIDE DEF n, P
  <2> DEFINE r == e * (P * n)
  <2>6. e \in Int /\ P * n \in Nat /\ r \in Int
    BY <1>5, <1>7, <2>2, NatTimes, Multiply
  <2>7. v + a = Pow(j) + r
    <3>1. v = e * 1 + r
      BY <1>3, <2>2, <2>6, Multiply
    <3> QED BY <1>7, <1>8, <2>6, <3>1
  <2>8. r = Pow(j) * (2 * (Pow(d - j) * (h * n)))
    <3> DEFINE x == Pow(d - j)
               y == Pow(j)
    <3>1. x \in Nat /\ y \in Nat /\ P = y * x
      BY <1>7, <2>4
    <3> HIDE DEF x, y
    <3>2. (2 * h) * ((y * x) * n) = y * (2 * (x * (h * n)))
      BY <2>2, <3>1
    <3> QED BY <1>5, <3>1, <3>2 DEF x, y
  <2>9. Pow(d - j) * (h * n) \in Nat
    BY <2>2, <2>4, NatTimes
  <2>10. v + a = Pow(j) * (2 * (Pow(d - j) * (h * n)) + 1)
    <3> DEFINE z == Pow(d - j) * (h * n)
    <3>1. z \in Nat /\ r = Pow(j) * (2 * z)
      BY <2>8, <2>9
    <3> HIDE DEF z, r
    <3>2. Pow(j) + Pow(j) * (2 * z) = Pow(j) * (2 * z + 1)
      BY <1>7, <3>1
    <3> QED BY <2>7, <3>1, <3>2 DEF z
  <2>11. LowestSetBit((v + a) % Modulus) = b
    <3> DEFINE z == Pow(d - j) * (h * n)
    <3> HIDE DEF z
    <3>1. z \in Int /\ v + a = Pow(j) * (2 * z + 1)
      BY <2>9, <2>10 DEF z
    <3>2. LowestSetBit((Pow(j) * (2 * z + 1)) % Modulus) = Pow(j)
      BY <2>3, <3>1, LSBMod
    <3> QED BY <2>3, <3>1, <3>2
  <2>12. v + a - b = r
    <3>1. b = Pow(j)
      BY <2>3
    <3> HIDE DEF r
    <3> QED BY <1>7, <1>14, <2>6, <2>7, <3>1
  <2>13. r = Pow(i + d) * ((2 * u + 1) * n)
    <3>1. (a * (2 * u + 1)) * (P * n) = (P * a) * ((2 * u + 1) * n)
      BY <1>7, <2>2
    <3> QED BY <1>4, <2>5, <3>1
  <2> DEFINE w == 2 * (u * t) + u + t
  <2>14. w \in Int /\ (2 * u + 1) * n = 2 * w + 1
    BY OddTimesOdd, Multiply DEF n
  <2>15. LowestSetBit((v + a - b) % Modulus) = Pow(i + d)
    <3> HIDE DEF w, r
    <3>1. LowestSetBit((Pow(i + d) * (2 * w + 1)) % Modulus) = Pow(i + d)
      BY <2>3, <2>14, LSBMod
    <3> QED BY <2>12, <2>13, <2>14, <3>1
  <2> QED BY <2>11, <2>15
<1> QED BY <1>11, <1>12, <1>13 DEF v, a

(* IsImmLogical, expanded.                                                 *)
LEMMA Encoding ==
    ASSUME NEW v, NEW x
    PROVE  LET value == Doubled(v, x)
               a == LowestSetBit(value)
               b == LowestSetBit((value + a) % Modulus)
               c == LowestSetBit((value + a - b) % Modulus)
           IN  IsImmLogical(v, x) = IF Accepted(value, a, b, c)
                                    THEN Answer(v % 2 = 1, a, b, c) ELSE Refused
BY Zenon DEF IsImmLogical

(* The remainder of a negative number, as the code takes it of unsigned    *)
(* ones.                                                                   *)
LEMMA Remainder ==
    ASSUME NEW m \in Nat \ {0}, NEW k \in 1..m
    PROVE  (-k) % m = m - k
<1>1. ASSUME k = m
      PROVE  (-k) % m = m - k
  <2>1. (m * (-1) + 0) % m = 0
    BY DivMod
  <2>2. m * (-1) + 0 = -k
    BY <1>1
  <2> QED BY <1>1, <2>1, <2>2
<1>2. ASSUME k # m
      PROVE  (-k) % m = m - k
  <2>1. m - k \in 0..m - 1
    BY <1>2
  <2>2. (m * (-1) + (m - k)) % m = m - k
    BY <2>1, DivMod
  <2>3. m * (-1) + (m - k) = -k
    OBVIOUS
  <2> QED BY <2>2, <2>3
<1> QED BY <1>1, <1>2

(* A number below the divisor is its own remainder.                        *)
LEMMA SmallMod ==
    ASSUME NEW m \in Nat \ {0}, NEW k \in 0..m - 1
    PROVE  k % m = k /\ k \div m = 0
<1>1. (m * 0 + k) % m = k /\ (m * 0 + k) \div m = 0
  BY DivMod
<1>2. m * 0 + k = k
  OBVIOUS
<1> QED BY <1>1, <1>2

(* Ones, rotation and fields of an immediate of that shape or, with negate, *)
(* of its complement.                                                      *)
OnesOf(l, i, j, negate) == IF negate THEN Pow(l) - (j - i) ELSE j - i
RotationOf(l, i, j, negate) == Pow(l) - (IF negate THEN j ELSE i)
FieldsOf(l, i, j, negate) ==
    [N |-> IF l = LogX THEN 1 ELSE 0,
     imms |-> ((-(2 * Pow(l))) % XRegSize) + OnesOf(l, i, j, negate) - 1,
     immr |-> RotationOf(l, i, j, negate)]

(* Repeat, for elements of 2^l bits.                                       *)
LEMMA RepeatIs ==
    ASSUME NEW e, NEW l
    PROVE  Repeat(e, Pow(l)) = e * Copies(l)
BY DEF Repeat, Copies, Pow

(* IsImmLogical accepts every such value, and answers with the fields of   *)
(* its shape.                                                              *)
LEMMA EncodeRun ==
    ASSUME Wide, NEW l, NEW i, NEW j, Shape(l, i, j), NEW negate \in BOOLEAN,
           NEW b, b = IF j = XRegSize THEN 0 ELSE Pow(j),
           NEW c, c = IF l = LogX THEN 0 ELSE Pow(i + Pow(l))
    PROVE  /\ Accepted(Run(l, i, j), Pow(i), b, c)
           /\ Answer(negate, Pow(i), b, c) = FieldsOf(l, i, j, negate)
<1> DEFINE a == Pow(i)
           d == Pow(l)
           e == Pow(j) - Pow(i)
<1>1. /\ l \in 1..LogX /\ i \in Nat \ {0} /\ i \in Nat /\ j \in Nat /\ i < j /\ j <= d
  BY DEF Shape, Wide
<1>2. /\ d \in Nat /\ d >= 2 /\ d <= XRegSize /\ (l = LogX => d = XRegSize)
      /\ (l # LogX => 2 * d <= XRegSize) /\ XRegSize \in Nat /\ l \in Nat /\ LogX \in Nat
  BY <1>1, ElementSize, Widths
<1>3. PICK q \in Nat \ {0} : XRegSize = d * q
  BY <1>1, ElementSize
<1>4. /\ a \in Nat \ {0} /\ Pow(j) \in Nat \ {0} /\ Pow(d) \in Nat \ {0}
      /\ Modulus \in Nat \ {0} /\ Modulus = Pow(XRegSize)
  BY <1>1, <1>2, PowPos, Widths
<1>5. i \in 0..XRegSize /\ j \in 0..XRegSize
  BY <1>1, <1>2
<1>6. CountLeadingZeros(a) = XRegSize - 1 - i
  BY <1>5, CLZIs
<1>7. (IF b = 0 THEN -1 ELSE CountLeadingZeros(b)) = XRegSize - 1 - j
  <2>1. j # XRegSize => b = Pow(j) /\ b # 0
    BY <1>4
  <2>2. j = XRegSize => b = 0
    OBVIOUS
  <2> QED BY <1>2, <1>5, <2>1, <2>2, CLZIs
<1>8. Size(a, c) = d /\ (c = 0 <=> l = LogX)
  <2>1. ASSUME l # LogX
        PROVE  Size(a, c) = d /\ c # 0
    <3>1. i + d \in 0..XRegSize /\ i + d \in Nat
      BY <1>1, <1>2, <2>1
    <3>2. c = Pow(i + d) /\ c # 0
      BY <2>1, <3>1, PowPos
    <3>3. CountLeadingZeros(c) = XRegSize - 1 - (i + d)
      BY <3>1, <3>2, CLZIs
    <3> HIDE DEF a, d
    <3>4. (XRegSize - 1 - i) - (XRegSize - 1 - (i + d)) = d
      BY <1>1, <1>2
    <3> QED BY <1>6, <3>2, <3>3, <3>4 DEF Size
  <2>2. ASSUME l = LogX
        PROVE  Size(a, c) = d /\ c = 0
    BY <1>2, <2>2 DEF Size
  <2> QED BY <2>1, <2>2
<1>9. e \in Nat \ {0} /\ e < Pow(d) /\ Pow(d) <= Modulus
  <2>1. Pow(d) <= Pow(XRegSize)
    BY <1>2, PowLess
  <2> QED BY <1>4, <2>1, RunRange
<1>10. (b - a) % Modulus = e
  <2>1. ASSUME j # XRegSize
        PROVE  (b - a) % Modulus = e
    <3>1. b - a = e /\ e \in 0..Modulus - 1
      BY <1>4, <1>9, <2>1
    <3> HIDE DEF e
    <3> QED BY <1>4, <3>1, SmallMod
  <2>2. ASSUME j = XRegSize
        PROVE  (b - a) % Modulus = e
    <3>1. b - a = -a /\ e = Modulus - a /\ a \in 1..Modulus
      BY <1>4, <1>9, <2>2
    <3> QED BY <1>4, <3>1, Remainder
  <2> QED BY <2>1, <2>2
<1>11. Accepted(Run(l, i, j), a, b, c)
  <2>1. IsPowerOf2(d)
    <3>1. LogX < XRegSize
      BY <1>2, PowPos, Widths
    <3>2. l \in 0..XRegSize
      BY <1>1, <1>2, <3>1
    <3> QED BY <3>2 DEF IsPowerOf2, Pow
  <2>2. ~((b - a) % Modulus >= 2^Size(a, c))
    <3>1. 2^d = Pow(d)
      BY DEF Pow
    <3> HIDE DEF e, d
    <3> QED BY <1>4, <1>8, <1>9, <1>10, <3>1
  <2>3. Run(l, i, j) = Repeat((b - a) % Modulus, Size(a, c)) % Modulus
    <3>1. Repeat(e, d) = Run(l, i, j)
      BY RepeatIs DEF Run
    <3>2. Run(l, i, j) \in 0..Modulus - 1
      <4>1. Run(l, i, j) \in 1..Modulus - 2
        BY RunRange
      <4> QED BY <1>4, <4>1
    <3> HIDE DEF e, d
    <3>3. Run(l, i, j) % Modulus = Run(l, i, j)
      BY <1>4, <3>2, SmallMod
    <3> QED BY <1>8, <1>10, <3>1, <3>3
  <2>4. a # 0
    BY <1>4
  <2> QED BY <1>8, <2>1, <2>2, <2>3, <2>4 DEF Accepted
<1>12. ASSUME NEW k \in Nat, 1 <= k, k <= d
       PROVE  (XRegSize - k) % d = d - k
  <2> HIDE DEF d
  <2>1. d - k \in 0..d - 1 /\ d \in Nat \ {0} /\ q - 1 \in Int
    BY <1>2, <1>12
  <2>2. (d * (q - 1) + (d - k)) % d = d - k
    BY <2>1, DivMod
  <2>3. d * (q - 1) + (d - k) = XRegSize - k
    <3>1. d * (q - 1) = d * q - d * 1
      BY <1>2, Multiply
    <3> QED BY <1>2, <1>3, <3>1
  <2> QED BY <2>2, <2>3
<1>13. ((IF negate THEN XRegSize - 1 - j ELSE XRegSize - 1 - i) + 1) % d
          = RotationOf(l, i, j, negate)
  <2>1. (XRegSize - i) % d = d - i /\ (XRegSize - j) % d = d - j
    BY <1>1, <1>2, <1>12
  <2>2. (XRegSize - 1 - i) + 1 = XRegSize - i /\ (XRegSize - 1 - j) + 1 = XRegSize - j
    BY <1>1, <1>2
  <2> QED BY <2>1, <2>2 DEF RotationOf
<1>14. (XRegSize - 1 - i) - (XRegSize - 1 - j) = j - i
  BY <1>1, <1>2
<1>15. Answer(negate, a, b, c) = FieldsOf(l, i, j, negate)
  <2> DEFINE clz_a == CountLeadingZeros(a)
             clz_b == IF b = 0 THEN -1 ELSE CountLeadingZeros(b)
  <2>1. clz_a = XRegSize - 1 - i /\ clz_b = XRegSize - 1 - j /\ clz_a - clz_b = j - i
    BY <1>6, <1>7, <1>14
  <2> HIDE DEF clz_a, clz_b
  <2>2. Answer(negate, a, b, c) =
          [N |-> IF c = 0 THEN 1 ELSE 0,
           imms |-> ((-(2 * Size(a, c))) % XRegSize)
                   + (IF negate THEN Size(a, c) - (clz_a - clz_b) ELSE clz_a - clz_b) - 1,
           immr |-> ((IF negate THEN clz_b ELSE clz_a) + 1) % Size(a, c)]
    BY DEF Answer, clz_a, clz_b
  <2> HIDE DEF d, a
  <2>3. ((IF negate THEN clz_b ELSE clz_a) + 1) % d = RotationOf(l, i, j, negate)
    BY <1>13, <2>1
  <2>4. (IF negate THEN d - (clz_a - clz_b) ELSE clz_a - clz_b) = OnesOf(l, i, j, negate)
    BY <2>1 DEF OnesOf, d
  <2> QED BY <1>8, <2>2, <2>3, <2>4 DEF FieldsOf, d
<1> QED BY <1>11, <1>15

(* What LowestSetBit answers of any value but 0.                           *)
LEMMA LSBOf ==
    ASSUME Wide, NEW v \in 1..Modulus - 1
    PROVE  \E i \in 0..XRegSize - 1, t \in Nat :
              v = Pow(i) * (2 * t + 1) /\ LowestSetBit(v) = Pow(i)
<1>1. XRegSize \in Nat /\ Modulus = Pow(XRegSize) /\ Modulus \in Nat
  BY Widths, PowPos
<1>2. v \in Nat \ {0} /\ v < Modulus
  BY <1>1
<1>3. PICK i \in Nat, t \in Nat : v = Pow(i) * (2 * t + 1)
  BY <1>2, LSBExists
<1>4. Pow(i) <= v
  <2>1. Pow(i) \in Nat /\ v = Pow(i) + Pow(i) * (2 * t)
    BY <1>3, PowPos
  <2>2. Pow(i) * (2 * t) \in Nat
    BY <2>1, NatTimes
  <2> QED BY <2>1, <2>2
<1>5. i \in 0..XRegSize - 1
  <2>1. XRegSize <= i => Modulus <= Pow(i)
    BY <1>1, PowLess
  <2>2. Pow(i) \in Nat
    BY PowPos
  <2> QED BY <1>1, <1>2, <1>4, <2>1, <2>2
<1>6. LowestSetBit(v) = Pow(i)
  BY <1>1, <1>3, <1>5, LSBIs
<1> QED BY <1>3, <1>5, <1>6

(* Adding its least significant 1 to a value leaves it with a higher one,  *)
(* at the end of the run of ones, or with none.                            *)
LEMMA NextBit ==
    ASSUME Wide, NEW v \in 1..Modulus - 1, NEW i \in 0..XRegSize - 1, NEW t \in Nat,
           v = Pow(i) * (2 * t + 1)
    PROVE  \E j \in Nat : /\ i < j /\ j <= XRegSize
                          /\ LowestSetBit((v + Pow(i)) % Modulus)
                               = IF j = XRegSize THEN 0 ELSE Pow(j)
<1> DEFINE s == (v + Pow(i)) % Modulus
           q == (v + Pow(i)) \div Modulus
           p == Pow(i + 1)
           g == Pow(XRegSize - i - 1)
<1>1. /\ XRegSize \in Nat /\ Modulus = Pow(XRegSize) /\ Modulus \in Nat \ {0}
      /\ i \in Nat /\ i + 1 \in Nat /\ XRegSize - i - 1 \in Nat
      /\ (i + 1) + (XRegSize - i - 1) = XRegSize
  BY Widths, PowPos
<1>2. p = 2 * Pow(i) /\ Pow(i) \in Nat \ {0} /\ p \in Nat \ {0} /\ g \in Nat \ {0}
  BY <1>1, PowSucc, PowPos
<1>3. Modulus = p * g
  <2> DEFINE n == XRegSize - i - 1
             m == i + 1
  <2>1. n \in Nat /\ m \in Nat /\ m + n = XRegSize
    BY <1>1
  <2> HIDE DEF n, m
  <2>2. Pow(m + n) = Pow(m) * Pow(n)
    BY <2>1, PowAdd
  <2> QED BY <1>1, <2>1, <2>2 DEF n, m
<1>4. v + Pow(i) = p * (t + 1)
  BY <1>2
<1>5. v + Pow(i) = Modulus * q + s /\ q \in Int /\ s \in 0..Modulus - 1
  <2> DEFINE y == v + Pow(i)
  <2>1. y \in Int
    BY <1>2
  <2> HIDE DEF y
  <2>2. y = Modulus * (y \div Modulus) + (y % Modulus)
        /\ y \div Modulus \in Int /\ y % Modulus \in 0..Modulus - 1
    BY <1>1, <2>1, DivModEx
  <2> QED BY <2>2 DEF y
<1> DEFINE z == (t + 1) - g * q
<1>6. s = p * z /\ z \in Int
  <2> HIDE DEF s, q, p, g
  <2>1. g * q \in Int /\ Modulus * q = p * (g * q) /\ Modulus * q \in Int
    BY <1>1, <1>2, <1>3, <1>5, Multiply
  <2>2. p * z = p * (t + 1) - p * (g * q)
    BY <1>2, <2>1, Multiply
  <2> QED BY <1>2, <1>4, <1>5, <2>1, <2>2
<1> HIDE DEF s, q, p, g, z
<1>7. ASSUME s = 0
      PROVE  XRegSize > i /\ LowestSetBit(s) = 0
  BY <1>1, <1>7 DEF LowestSetBit
<1>8. ASSUME s # 0
      PROVE  \E j \in Nat : i < j /\ j < XRegSize /\ LowestSetBit(s) = Pow(j)
  <2>1. s \in 1..Modulus - 1
    BY <1>1, <1>5, <1>8
  <2>2. PICK j \in 0..XRegSize - 1, u \in Nat :
           s = Pow(j) * (2 * u + 1) /\ LowestSetBit(s) = Pow(j)
    BY <2>1, LSBOf
  <2>3. ASSUME j <= i
        PROVE  FALSE
    <3> DEFINE k == Pow(i - j)
    <3>1. j \in Nat /\ i - j \in Nat /\ j + (i - j) = i
      BY <1>1, <2>3
    <3>2. Pow(i) = Pow(j) * k /\ k \in Nat /\ Pow(j) \in Nat \ {0}
      BY <1>1, <2>3, <3>1, PowDiff, PowPos
    <3> HIDE DEF k
    <3>3. k * z \in Int
      BY <1>6, <3>2, Multiply
    <3>4. p * z = Pow(j) * (2 * (k * z))
      BY <1>2, <1>6, <3>2
    <3>5. Pow(j) * (2 * u + 1) = Pow(j) * (2 * (k * z))
      BY <1>6, <2>2, <3>4
    <3>6. 2 * u + 1 = 2 * (k * z)
      BY <3>2, <3>3, <3>5, Cancel
    <3> QED BY <3>3, <3>6, Parity
  <2>4. j \in Nat /\ i < j /\ j < XRegSize
    BY <1>1, <2>3
  <2> QED BY <2>2, <2>4
<1>9. ASSUME s # 0
      PROVE  \E j \in Nat : /\ i < j /\ j <= XRegSize
                            /\ LowestSetBit(s) = IF j = XRegSize THEN 0 ELSE Pow(j)
  <2>1. PICK j \in Nat : i < j /\ j < XRegSize /\ LowestSetBit(s) = Pow(j)
    BY <1>8, <1>9
  <2>2. j <= XRegSize /\ j # XRegSize
    BY <1>1, <2>1
  <2> QED BY <2>1, <2>2
<1>10. ASSUME s = 0
       PROVE  \E j \in Nat : /\ i < j /\ j <= XRegSize
                             /\ LowestSetBit(s) = IF j = XRegSize THEN 0 ELSE Pow(j)
  <2>1. XRegSize \in Nat /\ i < XRegSize /\ XRegSize <= XRegSize
    BY <1>1
  <2> QED BY <1>7, <1>10, <2>1
<1> QED BY <1>9, <1>10 DEF s

(* IsImmLogical accepts nothing else: an accepted value is the difference  *)
(* of the powers it found, times the copies.                               *)
LEMMA AcceptedIsRun ==
    ASSUME Wide, NEW v \in 0..Modulus - 1, v % 2 = 0,
           NEW a, a = LowestSetBit(v),
           NEW b, b = LowestSetBit((v + a) % Modulus),
           NEW c, c = LowestSetBit((v + a - b) % Modulus),
           Accepted(v, a, b, c)
    PROVE  \E l, i, j : Shape(l, i, j) /\ v = Run(l, i, j)
<1>1. /\ XRegSize \in Nat /\ XRegSize >= 4 /\ Modulus = Pow(XRegSize) /\ Modulus \in Nat \ {0}
      /\ LogX \in Nat /\ XRegSize = Pow(LogX)
  BY Widths, PowPos DEF Wide
<1>2. v \in 1..Modulus - 1
  <2>1. v # 0
    BY Zenon DEF Accepted, LowestSetBit
  <2> QED BY <1>1, <2>1
<1>3. PICK i \in 0..XRegSize - 1, t \in Nat :
         v = Pow(i) * (2 * t + 1) /\ LowestSetBit(v) = Pow(i)
  BY <1>2, LSBOf
<1>4. i \in Nat \ {0} /\ i \in Nat /\ i \in 0..XRegSize
  <2>1. i # 0
    <3> SUFFICES ASSUME i = 0
                 PROVE  FALSE
      OBVIOUS
    <3>1. v = 2 * t + 1
      BY <1>3, PowZero
    <3> QED BY <3>1
  <2> QED BY <1>1, <2>1
<1>5. PICK j \in Nat : i < j /\ j <= XRegSize /\ b = IF j = XRegSize THEN 0 ELSE Pow(j)
  BY <1>2, <1>3, NextBit
<1> DEFINE e == Pow(j) - Pow(i)
           d == Size(a, c)
<1>6. /\ Pow(i) \in Nat \ {0} /\ Pow(j) \in Nat \ {0} /\ Pow(j) <= Modulus
      /\ 2 * Pow(i) <= Pow(j) /\ a = Pow(i)
  BY <1>1, <1>3, <1>4, <1>5, PowPos, PowLess
<1>7. (b - a) % Modulus = e
  <2>1. ASSUME j # XRegSize
        PROVE  (b - a) % Modulus = e
    <3>1. b = Pow(j)
      BY ONLY <1>5, <2>1
    <3>2. Pow(j) - Pow(i) \in 0..Modulus - 1
      BY ONLY SMT, <1>1, <1>6
    <3>3. b - a = e /\ e \in 0..Modulus - 1
      BY ONLY SMT, <1>6, <3>1, <3>2 DEF e
    <3> HIDE DEF e
    <3> QED BY <1>1, <3>3, SmallMod
  <2>2. ASSUME j = XRegSize
        PROVE  (b - a) % Modulus = e
    <3>1. b - a = -a /\ e = Modulus - a /\ a \in 1..Modulus
      BY <1>1, <1>5, <1>6, <2>2
    <3> QED BY <1>1, <3>1, Remainder
  <2> QED BY <2>1, <2>2
<1>8. \E l \in 0..LogX : d = Pow(l)
  <2>1. ASSUME c = 0
        PROVE  d = Pow(LogX)
    BY <1>1, <2>1 DEF Size
  <2>2. ASSUME c # 0
        PROVE  \E l \in 0..LogX : d = Pow(l)
    <3> DEFINE s == (v + a - b) % Modulus
    <3>1. s \in 0..Modulus - 1
      <4> DEFINE y == v + a - b
      <4>1. y \in Int
        BY <1>5, <1>6
      <4> HIDE DEF y
      <4>2. y % Modulus \in 0..Modulus - 1
        BY Zenon, <1>1, <4>1, DivModEx
      <4> QED BY <4>2 DEF y
    <3>2. c = LowestSetBit(s)
      OBVIOUS
    <3> HIDE DEF s
    <3>3. s # 0
      BY Zenon, <2>2, <3>2 DEF LowestSetBit
    <3>4. s \in 1..Modulus - 1
      BY <1>1, <3>1, <3>3
    <3>5. PICK k \in 0..XRegSize - 1, u \in Nat :
             s = Pow(k) * (2 * u + 1) /\ LowestSetBit(s) = Pow(k)
      BY <3>4, LSBOf
    <3>6. k \in 0..XRegSize
      BY <1>1
    <3>7. d = CountLeadingZeros(Pow(i)) - CountLeadingZeros(Pow(k))
      BY <1>6, <2>2, <3>2, <3>5 DEF Size
    <3>8. d = k - i
      <4> HIDE DEF d
      <4>1. d = (XRegSize - 1 - i) - (XRegSize - 1 - k)
        BY <1>4, <3>6, <3>7, CLZIs
      <4> QED BY <1>1, <4>1
    <3>9. IsPowerOf2(d)
      BY Zenon DEF Accepted
    <3>10. PICK l \in 0..XRegSize : d = Pow(l)
      BY <3>9 DEF IsPowerOf2, Pow
    <3>11. ~(LogX < l)
      <4>1. d < XRegSize /\ d \in Int
        BY <1>1, <1>4, <3>8
      <4>2. l \in Nat /\ (LogX < l => 2 * Pow(LogX) <= Pow(l))
        BY <1>1, PowLess
      <4> HIDE DEF d
      <4> QED BY <1>1, <3>10, <4>1, <4>2
    <3>12. l \in 0..LogX
      BY <1>1, <3>11
    <3> QED BY <3>10, <3>12
  <2>3. LogX \in 0..LogX
    BY <1>1
  <2> QED BY <2>1, <2>2, <2>3
<1>9. PICK l \in 0..LogX : d = Pow(l)
  BY <1>8
<1>10. l \in Nat /\ d \in Nat \ {0} /\ Pow(d) \in Nat \ {0}
  <2>1. l \in Nat
    BY <1>1
  <2> HIDE DEF d
  <2> QED BY <1>9, <2>1, PowPos
<1>11. e < Pow(d)
  <2>1. ~(e >= Pow(d))
    BY Zenon, <1>7 DEF Accepted, Pow
  <2>2. e \in Int
    BY <1>6
  <2> HIDE DEF e, d
  <2> QED BY <1>10, <2>1, <2>2
<1>12. j <= d
  <2> HIDE DEF d
  <2>1. d < j => 2 * Pow(d) <= Pow(j)
    BY <1>10, PowLess
  <2> QED BY <1>6, <1>10, <1>11, <2>1
<1>13. v = e * Copies(l)
  <2>1. v = (e * Copies(l)) % Modulus
    <3>1. v = Repeat(e, d) % Modulus
      BY Zenon, <1>7 DEF Accepted
    <3> HIDE DEF d, e
    <3> QED BY <1>9, <3>1, RepeatIs
  <2>2. Copies(l) \in Nat /\ (Pow(Pow(l)) - 1) * Copies(l) = Modulus - 1
    BY CopiesIs
  <2> DEFINE M == Copies(l)
             m == Pow(Pow(l)) - 1
  <2>3. e \in Nat /\ m \in Nat /\ e <= m
    <3> HIDE DEF d
    <3> QED BY <1>6, <1>9, <1>10, <1>11
  <2> HIDE DEF e, M, m
  <2>4. e * M <= m * M /\ e * M \in Nat
    BY <2>2, <2>3, TimesLess, NatTimes DEF M
  <2>5. e * M \in 0..Modulus - 1
    BY <1>1, <2>2, <2>4 DEF M, m
  <2>6. (e * M) % Modulus = e * M
    BY <1>1, <2>5, SmallMod
  <2> QED BY <2>1, <2>6 DEF M
<1>14. Shape(l, i, j)
  <2>1. l # 0
    <3>1. 2 <= j
      BY <1>4, <1>5
    <3> HIDE DEF d
    <3> QED BY <1>9, <1>12, <3>1, PowZero
  <2>2. l \in 1..LogX
    BY <1>1, <2>1
  <2>3. 1 <= i
    BY <1>4
  <2> HIDE DEF d
  <2> QED BY <1>4, <1>5, <1>9, <1>12, <2>2, <2>3 DEF Shape
<1> QED BY <1>13, <1>14 DEF Run

(* n ones, rotated right by r within d bits.                               *)
Rotated(n, r, d) ==
    IF r = 0 THEN Pow(n) - 1
    ELSE (Pow(n) - 1) \div Pow(r) + (((Pow(n) - 1) * Pow(d - r)) % Pow(d))

(* Rotated so, ones that do not wrap around begin at bit i and end at bit  *)
(* j.                                                                      *)
LEMMA RotatedRun ==
    ASSUME NEW d \in Nat, NEW i \in Nat, NEW j \in Nat, 1 <= i, i < j, j <= d
    PROVE  Rotated(j - i, d - i, d) = Pow(j) - Pow(i)
<1> DEFINE n == j - i
           p == Pow(i)
           q == Pow(j)
           g == Pow(n)
           r == Pow(d - i)
           D == Pow(d)
<1>1. n \in Nat /\ d - i \in Nat \ {0} /\ d - (d - i) = i /\ n <= d - i /\ i <= j
  OBVIOUS
<1>2. p \in Nat \ {0} /\ q \in Nat \ {0} /\ g \in Nat \ {0} /\ r \in Nat \ {0} /\ D \in Nat \ {0}
  <2>1. d - i \in Nat
    BY <1>1
  <2> QED BY <1>1, <2>1, PowPos
<1>3. q = p * g
  BY <1>1, PowDiff
<1>4. q <= D /\ p <= q
  BY <1>1, PowLess
<1>5. g <= r
  <2> DEFINE m == d - i
  <2>1. m \in Nat /\ n \in Nat /\ n <= m
    BY <1>1
  <2> HIDE DEF m, n
  <2> QED BY <2>1, PowLess DEF m
<1> HIDE DEF p, q, g, r, D
<1>6. (g - 1) \div r = 0
  <2>1. g - 1 \in 0..r - 1
    BY <1>2, <1>5
  <2> QED BY <1>2, <2>1, SmallMod
<1>7. ((g - 1) * p) % D = q - p
  <2>1. (g - 1) * p = q - p
    BY <1>2, <1>3
  <2>2. q - p \in 0..D - 1
    BY <1>2, <1>4
  <2> QED BY <1>2, <2>1, <2>2, SmallMod
<1>8. Rotated(n, d - i, d) = (g - 1) \div r + (((g - 1) * Pow(d - (d - i))) % D)
  <2>1. d - i # 0
    BY <1>1
  <2> HIDE DEF n
  <2> QED BY <2>1 DEF Rotated, g, r, D
<1>9. Rotated(n, d - i, d) = 0 + (q - p)
  BY <1>1, <1>6, <1>7, <1>8 DEF p
<1> QED BY <1>2, <1>9 DEF p, q

(* Ones that wrap around are the complement of ones that do not.           *)
LEMMA RotatedComplement ==
    ASSUME NEW d \in Nat, NEW i \in Nat, NEW j \in Nat, i < j, j <= d
    PROVE  Rotated(d - (j - i), d - j, d) = (Pow(d) - 1) - (Pow(j) - Pow(i))
<1> DEFINE n == d - (j - i)
           p == Pow(i)
           q == Pow(j)
           r == Pow(d - j)
           D == Pow(d)
<1>1. n \in Nat /\ d - j \in Nat /\ d - (d - j) = j /\ n = i + (d - j)
  OBVIOUS
<1>2. p \in Nat \ {0} /\ q \in Nat \ {0} /\ r \in Nat \ {0} /\ D \in Nat \ {0}
  BY <1>1, PowPos
<1>3. Pow(n) = p * r /\ D = q * r /\ q <= D
  <2>1. Pow(i + (d - j)) = Pow(i) * Pow(d - j)
    BY <1>1, PowAdd
  <2>2. Pow(d) = Pow(j) * Pow(d - j)
    BY PowDiff
  <2>3. Pow(j) <= Pow(d)
    BY PowLess
  <2> QED BY <1>1, <2>1, <2>2, <2>3
<1>4. ASSUME d = j
      PROVE  Rotated(n, d - j, d) = (D - 1) - (q - p)
  <2>1. d - j = 0 /\ n = i
    BY <1>4
  <2>2. Rotated(n, d - j, d) = p - 1
    BY <2>1 DEF Rotated
  <2>3. D = q
    BY <1>4
  <2> HIDE DEF p, q, D
  <2> QED BY <1>2, <2>2, <2>3
<1>5. ASSUME d # j
      PROVE  Rotated(n, d - j, d) = (D - 1) - (q - p)
  <2>1. d - j # 0
    BY <1>5
  <2>2. Rotated(n, d - j, d) = (Pow(n) - 1) \div r + (((Pow(n) - 1) * Pow(d - (d - j))) % D)
    <3> HIDE DEF n
    <3> QED BY <2>1 DEF Rotated
  <2>3. Rotated(n, d - j, d) = (p * r - 1) \div r + (((p * r - 1) * q) % D)
    BY <1>1, <1>3, <2>2
  <2> HIDE DEF p, q, r, D
  <2>4. (p * r - 1) \div r = p - 1
    <3>1. r - 1 \in 0..r - 1 /\ p - 1 \in Int
      BY <1>2
    <3>2. (r * (p - 1) + (r - 1)) \div r = p - 1
      BY <1>2, <3>1, DivMod
    <3>3. r * (p - 1) + (r - 1) = p * r - 1
      BY <1>2
    <3> QED BY <3>2, <3>3
  <2>5. ((p * r - 1) * q) % D = D - q
    <3>1. D - q \in 0..D - 1 /\ p - 1 \in Int
      BY <1>2, <1>3
    <3>2. (D * (p - 1) + (D - q)) % D = D - q
      BY <1>2, <3>1, DivMod
    <3>3. D * (p - 1) + (D - q) = (p * r - 1) * q
      <4>1. (q * r) * (p - 1) + ((q * r) - q) = (p * r - 1) * q
        BY <1>2
      <4> QED BY <1>3, <4>1
    <3> QED BY <3>2, <3>3
  <2> QED BY <1>2, <2>3, <2>4, <2>5
<1> QED BY <1>4, <1>5 DEF p, q, D

(* An element of ones is the same in every rotation.                       *)
LEMMA RotatedOnes ==
    ASSUME NEW d \in Nat, NEW r \in 0..d - 1
    PROVE  Rotated(d, r, d) = Pow(d) - 1
<1> DEFINE p == Pow(r)
           q == Pow(d - r)
           D == Pow(d)
<1>1. r \in Nat /\ r <= d /\ d - r \in Nat
  OBVIOUS
<1>2. p \in Nat \ {0} /\ q \in Nat \ {0} /\ D \in Nat \ {0} /\ D = p * q
  BY <1>1, PowPos, PowDiff
<1>3. q <= D
  BY <1>1, PowLess
<1>4. ASSUME r = 0
      PROVE  Rotated(d, r, d) = D - 1
  BY <1>4 DEF Rotated
<1>5. ASSUME r # 0
      PROVE  Rotated(d, r, d) = D - 1
  <2>1. Rotated(d, r, d) = (D - 1) \div p + (((D - 1) * q) % D)
    BY <1>5 DEF Rotated
  <2> HIDE DEF p, q, D
  <2>2. (D - 1) \div p = q - 1
    <3>1. p - 1 \in 0..p - 1 /\ q - 1 \in Int
      BY <1>2
    <3>2. (p * (q - 1) + (p - 1)) \div p = q - 1
      BY <1>2, <3>1, DivMod
    <3>3. p * (q - 1) + (p - 1) = D - 1
      BY <1>2
    <3> QED BY <3>2, <3>3
  <2>3. ((D - 1) * q) % D = D - q
    <3>1. D - q \in 0..D - 1 /\ q - 1 \in Int
      BY <1>2, <1>3
    <3>2. (D * (q - 1) + (D - q)) % D = D - q
      BY <1>2, <3>1, DivMod
    <3>3. D * (q - 1) + (D - q) = (D - 1) * q
      BY <1>2
    <3> QED BY <3>2, <3>3
  <2> QED BY <1>2, <2>1, <2>2, <2>3
<1> QED BY <1>4, <1>5

(* What fields stand for.                                                  *)
Length(f) == Log2(XRegSize * f.N + XRegSize - 1 - f.imms)
KeyOf(l, i, j, negate) ==
    <<l, OnesOf(l, i, j, negate) - 1, RotationOf(l, i, j, negate)>>
ImmOf(l, i, j, negate) == IF negate THEN Modulus - 1 - Run(l, i, j) ELSE Run(l, i, j)

(* The length of the element, from N and imms as GetLogicalImmediate has   *)
(* it.                                                                     *)
LEMMA LengthOf ==
    ASSUME Wide, NEW f \in Fields
    PROVE  Length(f) \in 0..LogX /\ (Length(f) = LogX <=> f.N = 1)
<1> DEFINE size == XRegSize * f.N + XRegSize - 1 - f.imms
<1>1. /\ XRegSize \in Nat /\ XRegSize >= 4 /\ XRegSize = Pow(LogX) /\ LogX \in Nat /\ LogX >= 2
      /\ Pow(LogX + 1) = 2 * XRegSize /\ LogX < XRegSize
  BY Widths, PowPos, PowSucc DEF Wide
<1>2. f.N \in 0..1 /\ f.imms \in 0..XRegSize - 1
  BY DEF Fields
<1>3. /\ f.N = 1 => size \in XRegSize..2 * XRegSize - 1
      /\ f.N = 0 => size \in 0..XRegSize - 1
      /\ size \in Nat
  BY <1>1, <1>2
<1> HIDE DEF size
<1>4. ASSUME size = 0
      PROVE  Log2(size) \in 0..LogX /\ (Log2(size) = LogX <=> f.N = 1)
  <2>1. Log2(size) = 0 /\ f.N # 1
    BY <1>1, <1>3, <1>4, Log2Zero
  <2> QED BY <1>1, <2>1
<1>5. ASSUME size # 0
      PROVE  Log2(size) \in 0..LogX /\ (Log2(size) = LogX <=> f.N = 1)
  <2>1. PICK l \in Nat : Pow(l) <= size /\ size < Pow(l + 1)
    BY <1>3, <1>5, LogExists
  <2>2. Pow(l) \in Nat /\ Pow(l + 1) \in Nat /\ l + 1 \in Nat
    BY PowPos
  <2>3. LogX + 1 <= l => 2 * XRegSize <= Pow(l)
    BY <1>1, PowLess
  <2>4. l + 1 <= LogX => Pow(l + 1) <= XRegSize
    BY <1>1, <2>2, PowLess
  <2>5. size < 2 * XRegSize
    BY <1>1, <1>2, <1>3
  <2>6. l <= LogX
    BY <1>1, <2>1, <2>2, <2>3, <2>5, <1>3
  <2>7. l = LogX <=> f.N = 1
    <3>1. l = LogX => f.N = 1
      BY <1>1, <1>2, <1>3, <2>1
    <3>2. f.N = 1 => l = LogX
      BY <1>1, <1>3, <2>1, <2>2, <2>4, <2>6
    <3> QED BY <3>1, <3>2
  <2>8. l \in 0..XRegSize
    BY <1>1, <2>6
  <2>9. Log2(size) = l
    BY <1>3, <2>1, <2>8, Log2Is
  <2> QED BY <1>1, <2>6, <2>7, <2>9
<1> QED BY <1>4, <1>5 DEF Length, size

(* GetLogicalImmediate and Key of the same parts of the fields.            *)
LEMMA FieldParts ==
    ASSUME Wide, NEW f \in Fields
    PROVE  LET l == Length(f)
               d == Pow(l)
           IN  /\ l \in Nat /\ d \in Nat \ {0}
               /\ f.imms % d \in 0..d - 1 /\ f.immr % d \in 0..d - 1
               /\ GetLogicalImmediate(f)
                    = Rotated((f.imms % d) + 1, f.immr % d, d) * Copies(l)
               /\ Key(f) = IF f.imms % d = d - 1 THEN <<>>
                           ELSE <<l, f.imms % d, f.immr % d>>
<1> DEFINE l == Length(f)
           d == Pow(l)
<1>1. l \in Nat /\ d \in Nat \ {0}
  <2> HIDE DEF l
  <2>1. l \in Nat
    BY LengthOf DEF l, Wide
  <2> QED BY <2>1, PowPos
<1>2. f.imms \in Int /\ f.immr \in Int
  <2>1. XRegSize \in Nat
    BY Widths
  <2> QED BY <2>1 DEF Fields
<1>3. f.imms % d \in 0..d - 1 /\ f.immr % d \in 0..d - 1
  <2> HIDE DEF d
  <2> QED BY <1>1, <1>2, DivModEx
<1>4. GetLogicalImmediate(f)
        = Rotated((f.imms % d) + 1, f.immr % d, d) * Copies(l)
  BY Zenon DEF GetLogicalImmediate, Length, Pow, Rotated, Repeat, Copies
<1>5. Key(f) = IF f.imms % d = d - 1 THEN <<>>
               ELSE <<l, f.imms % d, f.immr % d>>
  BY Zenon DEF Key, Length, Pow
<1> QED BY <1>1, <1>3, <1>4, <1>5

(* Every key other than that of all ones is of a shape or of the           *)
(* complement of one: ones that wrap around bit 0 are complemented.        *)
LEMMA KeyShape ==
    ASSUME Wide, NEW f \in Fields, Key(f) # <<>>
    PROVE  \E l, i, j : \E negate \in BOOLEAN :
              /\ Shape(l, i, j) /\ Key(f) = KeyOf(l, i, j, negate)
              /\ l = LogX <=> f.N = 1
<1> DEFINE l == Length(f)
           d == Pow(l)
           S == f.imms % d
           R == f.immr % d
<1>1. /\ l \in Nat /\ d \in Nat \ {0} /\ S \in 0..d - 1 /\ R \in 0..d - 1
      /\ Key(f) = IF S = d - 1 THEN <<>> ELSE <<l, S, R>>
  BY FieldParts
<1>2. l \in 0..LogX /\ (l = LogX <=> f.N = 1) /\ LogX \in Nat
  BY LengthOf DEF Wide
<1> HIDE DEF S, R, l
<1>3. S # d - 1 /\ Key(f) = <<l, S, R>>
  BY <1>1
<1>4. l # 0
  BY <1>1, <1>3, PowZero
<1>5. l \in 1..LogX
  BY <1>2, <1>4
<1>6. ASSUME S + 1 <= R
      PROVE  Shape(l, d - R, d - R + (S + 1)) /\ Key(f) = KeyOf(l, d - R, d - R + (S + 1), FALSE)
  <2> HIDE DEF d
  <2>1. d - R \in Nat /\ d - R + (S + 1) \in Nat /\ 1 <= d - R /\ d - R < d - R + (S + 1)
    BY <1>1
  <2>2. d - R + (S + 1) <= d
    BY <1>1, <1>6
  <2>3. (d - R + (S + 1)) - (d - R) - 1 = S /\ d - (d - R) = R
    BY <1>1
  <2> QED BY <1>3, <1>5, <2>1, <2>2, <2>3 DEF Shape, KeyOf, OnesOf, RotationOf, d
<1>7. ASSUME R < S + 1
      PROVE  Shape(l, S + 1 - R, d - R) /\ Key(f) = KeyOf(l, S + 1 - R, d - R, TRUE)
  <2> HIDE DEF d
  <2>1. S + 1 - R \in Nat /\ d - R \in Nat /\ 1 <= S + 1 - R /\ S + 1 - R < d - R /\ d - R <= d
    BY <1>1, <1>3, <1>7
  <2>2. d - ((d - R) - (S + 1 - R)) - 1 = S /\ d - (d - R) = R
    BY <1>1
  <2> QED BY <1>3, <1>5, <2>1, <2>2 DEF Shape, KeyOf, OnesOf, RotationOf, d
<1>8. S + 1 <= R \/ R < S + 1
  <2> HIDE DEF d
  <2> QED BY <1>1
<1> HIDE DEF d
<1> QED BY <1>2, <1>6, <1>7, <1>8

(* The fields without a key stand for all ones.                            *)
LEMMA KeyOnes ==
    ASSUME Wide, NEW f \in Fields, Key(f) = <<>>
    PROVE  GetLogicalImmediate(f) = Modulus - 1
<1> DEFINE l == Length(f)
           d == Pow(l)
           S == f.imms % d
           R == f.immr % d
<1>1. /\ l \in Nat /\ d \in Nat \ {0} /\ S \in 0..d - 1 /\ R \in 0..d - 1
      /\ Key(f) = IF S = d - 1 THEN <<>> ELSE <<l, S, R>>
      /\ GetLogicalImmediate(f) = Rotated(S + 1, R, d) * Copies(l)
  BY FieldParts
<1>2. l \in 0..LogX
  BY LengthOf
<1> HIDE DEF S, R, l
<1>3. S + 1 = d
  <2> HIDE DEF d
  <2>1. S = d - 1
    BY <1>1
  <2> QED BY <1>1, <2>1
<1>4. Rotated(d, R, d) = Pow(d) - 1
  <2> HIDE DEF d
  <2> QED BY <1>1, RotatedOnes
<1> QED BY <1>1, <1>2, <1>3, <1>4, CopiesIs

(* The fields with a key stand for the immediate of its shape.             *)
LEMMA KeyRun ==
    ASSUME Wide, NEW f \in Fields, NEW l, NEW i, NEW j, Shape(l, i, j),
           NEW negate \in BOOLEAN, Key(f) = KeyOf(l, i, j, negate)
    PROVE  GetLogicalImmediate(f) = ImmOf(l, i, j, negate)
<1> DEFINE d == Pow(l)
           S == f.imms % d
           R == f.immr % d
<1>1. /\ Length(f) = l /\ S = OnesOf(l, i, j, negate) - 1
      /\ R = RotationOf(l, i, j, negate)
  <2>1. Key(f) # <<>>
    BY DEF KeyOf
  <2> DEFINE m == Length(f)
  <2>2. Key(f) = <<m, f.imms % Pow(m), f.immr % Pow(m)>>
    BY <2>1, FieldParts
  <2> HIDE DEF m
  <2>3. m = l
    BY <2>2 DEF KeyOf
  <2>4. Key(f) = <<l, S, R>>
    BY <2>2, <2>3
  <2> HIDE DEF S, R
  <2> QED BY <2>3, <2>4 DEF KeyOf, m
<1>2. GetLogicalImmediate(f) = Rotated(S + 1, R, d) * Copies(l) /\ S \in Int
  <2>1. S \in 0..d - 1
    BY <1>1, FieldParts
  <2>2. GetLogicalImmediate(f) = Rotated(S + 1, R, d) * Copies(l)
    BY <1>1, FieldParts
  <2> QED BY <2>1, <2>2
<1> HIDE DEF S, R
<1>3. /\ d \in Nat /\ i \in Nat /\ j \in Nat /\ 1 <= i /\ i < j /\ j <= d
      /\ l \in 1..LogX /\ l \in 0..LogX
  BY PowPos DEF Shape, Wide
<1>4. ASSUME negate = FALSE
      PROVE  GetLogicalImmediate(f) = ImmOf(l, i, j, negate)
  <2>1. S + 1 = j - i /\ R = d - i
    <3> HIDE DEF d
    <3> QED BY <1>1, <1>3, <1>4 DEF OnesOf, RotationOf, d
  <2>2. Rotated(j - i, d - i, d) = Pow(j) - Pow(i)
    <3> HIDE DEF d
    <3> QED BY <1>3, RotatedRun
  <2> QED BY <1>2, <1>4, <2>1, <2>2 DEF ImmOf, Run
<1>5. ASSUME negate = TRUE
      PROVE  GetLogicalImmediate(f) = ImmOf(l, i, j, negate)
  <2>1. S + 1 = d - (j - i) /\ R = d - j
    <3> HIDE DEF d
    <3>1. S = d - (j - i) - 1 /\ R = d - j
      BY <1>1, <1>5 DEF OnesOf, RotationOf, d
    <3> QED BY <1>3, <3>1
  <2>2. Rotated(d - (j - i), d - j, d) = (Pow(d) - 1) - (Pow(j) - Pow(i))
    <3> HIDE DEF d
    <3> QED BY <1>3, RotatedComplement
  <2>3. (Pow(d) - 1) * Copies(l) = Modulus - 1 /\ Copies(l) \in Nat
    BY <1>3, CopiesIs
  <2>4. Pow(d) \in Nat /\ Pow(j) \in Nat /\ Pow(i) \in Nat
    <3> HIDE DEF d
    <3> QED BY <1>3, PowPos
  <2> DEFINE M == Copies(l)
             x == Pow(d) - 1
             y == Pow(j) - Pow(i)
  <2>5. (x - y) * M = x * M - y * M
    <3>1. x \in Int /\ y \in Int /\ M \in Int
      BY <2>3, <2>4
    <3> HIDE DEF x, y, M
    <3> QED BY <3>1
  <2>6. GetLogicalImmediate(f) = Modulus - 1 - y * M
    <3> HIDE DEF d
    <3> QED BY <1>2, <2>1, <2>2, <2>3, <2>5
  <2> QED BY <1>5, <2>6 DEF ImmOf, Run
<1> QED BY <1>4, <1>5

(* The fields of a shape are in range, and have its key.                   *)
LEMMA FieldsKey ==
    ASSUME Wide, NEW l, NEW i, NEW j, Shape(l, i, j), NEW negate \in BOOLEAN
    PROVE  LET f == FieldsOf(l, i, j, negate)
           IN  /\ f \in Fields /\ Key(f) = KeyOf(l, i, j, negate)
               /\ f.N = 1 <=> l = LogX
<1> DEFINE d == Pow(l)
           s == OnesOf(l, i, j, negate)
           r == RotationOf(l, i, j, negate)
           f == FieldsOf(l, i, j, negate)
           n == IF l = LogX THEN 1 ELSE 0
           top == (-(2 * d)) % XRegSize
<1>1. /\ l \in 1..LogX /\ i \in Nat /\ j \in Nat /\ 1 <= i /\ i < j /\ j <= d
  BY DEF Shape
<1>2. /\ l \in Nat /\ LogX \in Nat /\ d \in Nat /\ d >= 2 /\ d <= XRegSize
      /\ (l = LogX => d = XRegSize) /\ (l # LogX => 2 * d <= XRegSize)
      /\ XRegSize \in Nat /\ XRegSize >= 4 /\ d \in Nat \ {0} /\ XRegSize \in Nat \ {0}
  BY <1>1, ElementSize, Widths
<1>3. PICK q \in Nat \ {0} : XRegSize = d * q
  BY <1>1, ElementSize
<1>4. f = [N |-> n, imms |-> top + s - 1, immr |-> r]
  BY DEF FieldsOf
<1>5. s \in 1..d - 1 /\ r \in 0..d - 1
  <2> HIDE DEF d
  <2>1. j - i \in 1..d - 1 /\ d - (j - i) \in 1..d - 1 /\ d - i \in 0..d - 1 /\ d - j \in 0..d - 1
    BY <1>1, <1>2
  <2> QED BY <2>1 DEF OnesOf, RotationOf, d
<1>6. l \in 0..XRegSize
  <2>1. LogX < XRegSize
    BY <1>2, PowPos, Widths
  <2> QED BY <1>1, <1>2, <2>1
<1>7. Pow(l + 1) = 2 * d
  BY <1>2, PowSucc
<1> HIDE DEF s, r, f
<1>8. /\ f.N = n /\ f.imms = top + s - 1 /\ f.immr = r
  BY <1>4
<1>9. ASSUME l = LogX
      PROVE  /\ top + s - 1 \in 0..XRegSize - 1 /\ (top + s - 1) % d = s - 1
             /\ Log2(XRegSize * n + XRegSize - 1 - (top + s - 1)) = l
  <2>1. d = XRegSize /\ n = 1
    BY <1>2, <1>9
  <2>2. top = 0
    <3> HIDE DEF d
    <3>1. (XRegSize * (-2) + 0) % XRegSize = 0
      BY <1>2, DivMod
    <3>2. XRegSize * (-2) + 0 = -(2 * d)
      BY <1>2, <2>1
    <3> QED BY <3>1, <3>2
  <2> HIDE DEF d, top, n
  <2>3. top + s - 1 = s - 1 /\ s - 1 \in 0..d - 1
    BY <1>2, <1>5, <2>2
  <2>4. (s - 1) % d = s - 1
    BY <1>2, <2>3, SmallMod
  <2> DEFINE size == 2 * d - s
  <2>5. size \in Nat /\ d <= size /\ size < 2 * d
    BY <1>2, <1>5
  <2>6. XRegSize * n + XRegSize - 1 - (top + s - 1) = size
    BY <1>2, <1>5, <2>1, <2>3
  <2> HIDE DEF size
  <2>7. Log2(size) = l
    BY <1>6, <1>7, <2>5, Log2Is DEF d
  <2> QED BY <1>2, <2>1, <2>3, <2>4, <2>6, <2>7
<1>10. ASSUME l # LogX
       PROVE  /\ top + s - 1 \in 0..XRegSize - 1 /\ (top + s - 1) % d = s - 1
              /\ Log2(XRegSize * n + XRegSize - 1 - (top + s - 1)) = l
  <2>1. 2 * d <= XRegSize /\ n = 0
    BY <1>2, <1>10
  <2>2. top = XRegSize - 2 * d
    <3> DEFINE k == 2 * d
    <3>1. k \in 1..XRegSize
      BY <1>2, <2>1
    <3> HIDE DEF k
    <3>2. (-k) % XRegSize = XRegSize - k
      BY <1>2, <3>1, Remainder
    <3> QED BY <3>2 DEF k
  <2> HIDE DEF d, top, n
  <2>3. top + s - 1 \in 0..XRegSize - 1 /\ s - 1 \in 0..d - 1
    BY <1>2, <1>5, <2>1, <2>2
  <2>4. (d * (q - 2) + (s - 1)) % d = s - 1
    <3>1. q - 2 \in Int
      OBVIOUS
    <3> QED BY <1>2, <2>3, <3>1, DivMod
  <2>5. d * (q - 2) + (s - 1) = top + s - 1
    <3>1. d * (q - 2) = d * q - d * 2
      BY <1>2, Multiply
    <3> QED BY <1>2, <1>3, <1>5, <2>2, <3>1
  <2> DEFINE size == 2 * d - s
  <2>6. size \in Nat /\ d <= size /\ size < 2 * d
    BY <1>2, <1>5
  <2>7. XRegSize * n + XRegSize - 1 - (top + s - 1) = size
    BY <1>2, <1>5, <2>1, <2>2
  <2> HIDE DEF size
  <2>8. Log2(size) = l
    BY <1>6, <1>7, <2>6, Log2Is DEF d
  <2> QED BY <2>3, <2>4, <2>5, <2>7, <2>8
<1>11. /\ top + s - 1 \in 0..XRegSize - 1 /\ (top + s - 1) % d = s - 1
       /\ Log2(XRegSize * n + XRegSize - 1 - (top + s - 1)) = l
  BY <1>9, <1>10
<1>12. r \in 0..XRegSize - 1 /\ r % d = r /\ n \in 0..1
  <2> HIDE DEF d
  <2> QED BY <1>2, <1>5, SmallMod
<1>13. f \in Fields
  <2> HIDE DEF top, n
  <2> QED BY <1>4, <1>11, <1>12 DEF Fields
<1>14. Length(f) = l
  BY <1>8, <1>11 DEF Length
<1>15. Key(f) = <<l, s - 1, r>>
  <2> HIDE DEF d, top, n
  <2>1. f.imms % d = s - 1 /\ f.immr % d = r
    BY <1>8, <1>11, <1>12
  <2>2. Key(f) = IF f.imms % d = d - 1 THEN <<>> ELSE <<l, f.imms % d, f.immr % d>>
    BY <1>13, <1>14, FieldParts DEF d
  <2>3. s - 1 # d - 1
    BY <1>2, <1>5
  <2> QED BY <2>1, <2>2, <2>3
<1>16. f.N = 1 <=> l = LogX
  BY <1>8
<1> QED BY <1>13, <1>15, <1>16 DEF f, s, r, KeyOf

(* The lower half of a value, of its complement, and the doubled one.      *)
LEMMA Halves ==
    ASSUME Wide, NEW v \in Values
    PROVE  LET P == Pow(WRegSize)
               low == v % P
               y == IF v % 2 = 1 THEN P - 1 - low ELSE low
           IN  /\ v \in Nat /\ Modulus - 1 - v \in Values
               /\ low \in 0..P - 1 /\ (v % 2 = 1 <=> low % 2 = 1)
               /\ (Modulus - 1 - v) % P = P - 1 - low
               /\ Doubled(v, FALSE) = y * P + y
               /\ Doubled(v, TRUE) = IF v % 2 = 1 THEN Modulus - 1 - v ELSE v
               /\ y \in 0..P - 1 /\ y % 2 = 0
<1> DEFINE P == Pow(WRegSize)
           low == v % P
           h == v \div P
           g == Pow(WRegSize - 1)
           y == IF v % 2 = 1 THEN P - 1 - low ELSE low
<1>1. P \in Nat \ {0} /\ P >= 4 /\ Modulus = P * P /\ P = 2 * g /\ g \in Nat /\ 2^WRegSize = P
  <2>1. WRegSize \in Nat \ {0}
    BY Widths
  <2>2. P = 2 * g /\ g \in Nat
    BY <2>1, PowEven
  <2> HIDE DEF g
  <2> QED BY <2>2, Widths
<1> HIDE DEF P, g
<1>2. Modulus \in Nat /\ v \in Nat /\ v <= Modulus - 1
  BY <1>1 DEF Values
<1>3. v = P * h + low /\ low \in 0..P - 1 /\ h \in Int
  <2>1. v \in Int
    BY <1>2
  <2> QED BY <1>1, <2>1, DivModEx
<1> HIDE DEF low, h
<1>4. v % 2 = 1 <=> low % 2 = 1
  <2>1. P * h = 2 * (g * h) /\ g * h \in Int
    BY <1>1, <1>3, Multiply
  <2> DEFINE z == g * h
  <2> HIDE DEF z
  <2>2. v = 2 * z + low /\ z \in Int
    BY <1>3, <2>1 DEF z
  <2> QED BY <1>3, <2>2
<1>5. (Modulus - 1 - v) % P = P - 1 - low
  <2>1. P - 1 - low \in 0..P - 1 /\ P - 1 - h \in Int
    BY <1>1, <1>3
  <2>2. (P * (P - 1 - h) + (P - 1 - low)) % P = P - 1 - low
    BY <1>1, <2>1, DivMod
  <2>3. P * (P - 1 - h) + (P - 1 - low) = Modulus - 1 - v
    BY <1>1, <1>3
  <2> QED BY <2>2, <2>3
<1>6. (IF v % 2 = 1 THEN Modulus - 1 - v ELSE v) % P = y
  BY <1>5 DEF low
<1>7. Doubled(v, FALSE) = y * P + y
  BY <1>1, <1>6 DEF Doubled
<1>8. Doubled(v, TRUE) = IF v % 2 = 1 THEN Modulus - 1 - v ELSE v
  BY DEF Doubled
<1>9. y \in 0..P - 1 /\ y % 2 = 0
  BY <1>1, <1>3, <1>4
<1>10. Modulus - 1 - v \in Values
  BY <1>2 DEF Values
<1> QED BY <1>2, <1>3, <1>4, <1>5, <1>7, <1>8, <1>9, <1>10 DEF P, low

(* What IsImmLogical looks at is even, and of the width of the register.   *)
LEMMA DoubledType ==
    ASSUME Wide, NEW v \in Values, NEW x \in BOOLEAN
    PROVE  Doubled(v, x) \in 0..Modulus - 1 /\ Doubled(v, x) % 2 = 0
<1> DEFINE P == Pow(WRegSize)
           y == IF v % 2 = 1 THEN P - 1 - (v % P) ELSE v % P
<1>1. P \in Nat \ {0} /\ P >= 4 /\ Modulus = P * P
  BY Widths
<1>2. /\ v \in Nat /\ Modulus - 1 - v \in Values
      /\ Doubled(v, FALSE) = y * P + y /\ y \in 0..P - 1 /\ y % 2 = 0
      /\ Doubled(v, TRUE) = IF v % 2 = 1 THEN Modulus - 1 - v ELSE v
  BY Halves
<1>3. ASSUME x = TRUE
      PROVE  Doubled(v, x) \in 0..Modulus - 1 /\ Doubled(v, x) % 2 = 0
  <2>1. Doubled(v, x) \in Values
    BY <1>2, <1>3
  <2>2. ASSUME v % 2 = 1
        PROVE  (Modulus - 1 - v) % 2 = 0
    <3> DEFINE g == Pow(WRegSize - 1)
    <3>1. P = 2 * g /\ g \in Nat
      BY PowEven, Widths
    <3> HIDE DEF P, g
    <3>2. Modulus = 2 * (g * P) /\ g * P \in Nat
      BY <1>1, <3>1, NatTimes
    <3> DEFINE z == g * P
    <3> HIDE DEF z
    <3>3. Modulus = 2 * z /\ z \in Nat
      BY <3>2 DEF z
    <3> QED BY <1>2, <2>2, <3>3
  <2>3. v % 2 = 1 \/ v % 2 = 0
    BY <1>2
  <2> QED BY <1>2, <1>3, <2>1, <2>2, <2>3 DEF Values
<1>4. ASSUME x = FALSE
      PROVE  Doubled(v, x) \in 0..Modulus - 1 /\ Doubled(v, x) % 2 = 0
  <2> HIDE DEF P, y
  <2>1. y * P + y \in 0..Modulus - 1
    <3>1. y * P <= (P - 1) * P /\ y * P \in Nat
      BY <1>1, <1>2, TimesLess, NatTimes
    <3>2. (P - 1) * P = Modulus - P
      BY <1>1
    <3> QED BY <1>1, <1>2, <3>1, <3>2
  <2>2. (y * P + y) % 2 = 0
    <3>1. PICK z \in Nat : y = 2 * z
      BY <1>2
    <3>2. y * P + y = 2 * (z * P + z) /\ z * P + z \in Nat
      BY <1>1, <3>1
    <3> DEFINE n == z * P + z
    <3> HIDE DEF n
    <3>3. y * P + y = 2 * n /\ n \in Nat
      BY <3>2 DEF n
    <3> QED BY <3>3
  <2> QED BY <1>2, <1>4, <2>1, <2>2
<1> QED BY <1>3, <1>4

(* What IsImmLogical accepts, and what it answers.                         *)
LEMMA Encode ==
    ASSUME Wide, NEW v \in Values, NEW x \in BOOLEAN,
           NEW l, NEW i, NEW j, Shape(l, i, j), Doubled(v, x) = Run(l, i, j)
    PROVE  IsImmLogical(v, x) = FieldsOf(l, i, j, v % 2 = 1)
<1> DEFINE value == Run(l, i, j)
           a == Pow(i)
           b == IF j = XRegSize THEN 0 ELSE Pow(j)
           c == IF l = LogX THEN 0 ELSE Pow(i + Pow(l))
           negate == v % 2 = 1
<1>1. /\ a = LowestSetBit(value) /\ b = LowestSetBit((value + a) % Modulus)
      /\ c = LowestSetBit((value + a - b) % Modulus)
  BY RunBits
<1>2. negate \in BOOLEAN
  OBVIOUS
<1>3. Accepted(value, a, b, c) /\ Answer(negate, a, b, c) = FieldsOf(l, i, j, negate)
  <2>1. b = (IF j = XRegSize THEN 0 ELSE Pow(j)) /\ c = (IF l = LogX THEN 0 ELSE Pow(i + Pow(l)))
    OBVIOUS
  <2> HIDE DEF b, c, negate
  <2> QED BY <1>2, <2>1, EncodeRun
<1> HIDE DEF value, a, b, c, negate
<1>4. IsImmLogical(v, x) = IF Accepted(value, a, b, c)
                           THEN Answer(negate, a, b, c) ELSE Refused
  <2>1. Doubled(v, x) = value
    BY DEF value
  <2> QED BY Zenon, <1>1, <2>1, Encoding DEF negate
<1> QED BY <1>3, <1>4 DEF negate

(* What is not refused has a shape, and is answered by its fields.         *)
LEMMA EncodedIsRun ==
    ASSUME Wide, NEW v \in Values, NEW x \in BOOLEAN, IsImmLogical(v, x) # Refused
    PROVE  \E l, i, j : /\ Shape(l, i, j) /\ Doubled(v, x) = Run(l, i, j)
                        /\ IsImmLogical(v, x) = FieldsOf(l, i, j, v % 2 = 1)
<1> DEFINE value == Doubled(v, x)
           a == LowestSetBit(value)
           b == LowestSetBit((value + a) % Modulus)
           c == LowestSetBit((value + a - b) % Modulus)
<1>1. IsImmLogical(v, x) = IF Accepted(value, a, b, c)
                           THEN Answer(v % 2 = 1, a, b, c) ELSE Refused
  BY Zenon, Encoding
<1>2. value \in 0..Modulus - 1 /\ value % 2 = 0
  BY DoubledType
<1> HIDE DEF value
<1>3. Accepted(value, a, b, c)
  BY <1>1
<1>4. \E l, i, j : Shape(l, i, j) /\ value = Run(l, i, j)
  BY Zenon, <1>2, <1>3, AcceptedIsRun
<1>5. PICK l, i, j : Shape(l, i, j) /\ value = Run(l, i, j)
  BY <1>4
<1>6. IsImmLogical(v, x) = FieldsOf(l, i, j, v % 2 = 1)
  <2>1. Shape(l, i, j) /\ Doubled(v, x) = Run(l, i, j)
    BY <1>5 DEF value
  <2> QED BY <2>1, Encode
<1> QED BY <1>5, <1>6 DEF value

(* The immediate of a shape and its complement: which of the two it is     *)
(* shows in bit 0, and what IsImmLogical looks at is the shape.            *)
LEMMA ImmIs ==
    ASSUME Wide, NEW l, NEW i, NEW j, Shape(l, i, j), NEW negate \in BOOLEAN
    PROVE  LET v == ImmOf(l, i, j, negate)
           IN  /\ v \in Values /\ v # Modulus - 1
               /\ (v % 2 = 1 <=> negate)
               /\ Doubled(v, TRUE) = Run(l, i, j)
<1> DEFINE r == Run(l, i, j)
           v == ImmOf(l, i, j, negate)
<1>1. r \in 1..Modulus - 2 /\ r % 2 = 0
  BY RunRange
<1>2. Modulus \in Nat /\ Modulus % 2 = 0
  <2> DEFINE P == Pow(WRegSize)
             g == Pow(WRegSize - 1)
  <2>1. P = 2 * g /\ g \in Nat /\ P \in Nat /\ Modulus = P * P
    BY PowEven, Widths
  <2> HIDE DEF P, g
  <2>2. Modulus = 2 * (g * P) /\ g * P \in Nat
    BY <2>1, NatTimes
  <2> DEFINE z == g * P
  <2> HIDE DEF z
  <2>3. Modulus = 2 * z /\ z \in Nat
    BY <2>2 DEF z
  <2> QED BY <2>3
<1> HIDE DEF r
<1>3. v = IF negate THEN Modulus - 1 - r ELSE r
  BY DEF ImmOf, r
<1> HIDE DEF v
<1>4. v \in Values /\ v # Modulus - 1
  BY <1>1, <1>2, <1>3 DEF Values
<1>5. negate => v % 2 = 1
  BY <1>1, <1>2, <1>3
<1>6. ~negate => v % 2 = 0
  BY <1>1, <1>3
<1>7. Doubled(v, TRUE) = IF v % 2 = 1 THEN Modulus - 1 - v ELSE v
  BY <1>4, Halves
<1>8. Doubled(v, TRUE) = r
  <2>1. ASSUME negate
        PROVE  Doubled(v, TRUE) = r
    <3>1. Doubled(v, TRUE) = Modulus - 1 - v
      BY Zenon, <1>5, <1>7, <2>1
    <3>2. Modulus - 1 - v = r
      BY <1>1, <1>2, <1>3, <2>1
    <3> QED BY Zenon, <3>1, <3>2
  <2>2. ASSUME ~negate
        PROVE  Doubled(v, TRUE) = r
    <3>1. v = r /\ v % 2 # 1
      BY <1>3, <1>6, <2>2
    <3> QED BY Zenon, <1>7, <3>1
  <2> QED BY Zenon, <2>1, <2>2
<1>9. (v % 2 = 1 <=> negate)
  BY <1>5, <1>6
<1> QED BY <1>4, <1>8, <1>9 DEF r, v

(* An element of half a register or less is found in the lower half.       *)
LEMMA RunHalves ==
    ASSUME Wide, NEW l, NEW i, NEW j, Shape(l, i, j), l # LogX
    PROVE  LET P == Pow(WRegSize)
               y == Run(l, i, j) % P
           IN  y \in 0..P - 1 /\ Run(l, i, j) = y * P + y
<1> DEFINE P == Pow(WRegSize)
           D == Pow(Pow(l))
           e == Pow(j) - Pow(i)
           n == LogX - 1 - l
           M == Copies(l)
<1>1. /\ l \in 1..LogX /\ l \in 0..LogX /\ l \in Nat /\ n \in Nat /\ LogX \in Nat
      /\ l + n = LogX - 1
  BY DEF Shape, Wide
<1>2. P \in Nat /\ P >= 4 /\ Modulus = P * P /\ P = Pow(Pow(LogX - 1))
  BY Widths
<1>3. PICK q \in Nat : (D - 1) * q = P - 1
  <2> HIDE DEF n
  <2>1. \E q \in Nat : (Pow(Pow(l)) - 1) * q = Pow(Pow(l + n)) - 1
    BY <1>1, Geometric
  <2> QED BY <1>1, <1>2, <2>1
<1>4. M \in Nat /\ (D - 1) * M = Modulus - 1
  BY <1>1, CopiesIs
<1>5. e \in Nat \ {0} /\ e < D
  BY RunRange
<1>6. D \in Nat
  BY <1>1, PowPos
<1>7. Run(l, i, j) = e * M
  BY DEF Run
<1> HIDE DEF P, D, e, n, M
<1>8. M = q * P + q
  <2>1. D - 1 \in Nat \ {0}
    BY <1>5, <1>6
  <2>2. (D - 1) * (q * P + q) = (D - 1) * M
    <3>1. q * P \in Int
      BY <1>2, Multiply
    <3>2. (D - 1) * (q * P + q) = (D - 1) * (q * P) + (D - 1) * q
      BY <2>1, <3>1, Multiply
    <3>3. (D - 1) * (q * P) = ((D - 1) * q) * P
      BY <1>2, <2>1, Multiply
    <3>4. (P - 1) * P + (P - 1) = Modulus - 1
      BY <1>2
    <3> QED BY <1>3, <1>4, <3>2, <3>3, <3>4
  <2> DEFINE m == q * P + q
  <2>3. m \in Int
    BY <1>2, Multiply
  <2>4. (D - 1) * M = (D - 1) * m /\ M \in Int
    BY <1>4, <2>2
  <2> HIDE DEF m
  <2>5. M = m
    BY <2>1, <2>3, <2>4, Cancel
  <2> QED BY <2>5 DEF m
<1> DEFINE y == e * q
<1>9. y \in 0..P - 1
  <2>1. e <= D - 1 /\ D - 1 \in Nat
    BY <1>5, <1>6
  <2>2. e * q <= (D - 1) * q /\ e * q \in Nat
    BY <1>5, <2>1, TimesLess, NatTimes
  <2> QED BY <1>2, <1>3, <2>2
<1>10. Run(l, i, j) = P * y + y
  <2>1. e * (q * P + q) = P * (e * q) + e * q
    BY <1>2, <1>5
  <2> QED BY <1>7, <1>8, <2>1
<1> HIDE DEF y
<1>11. Run(l, i, j) % P = y
  <2>1. P \in Nat \ {0} /\ y \in Int
    BY <1>2, <1>9
  <2> QED BY <1>9, <1>10, <2>1, DivMod
<1>12. Run(l, i, j) = y * P + y
  BY <1>2, <1>9, <1>10
<1> QED BY <1>9, <1>11, <1>12 DEF P

(* One as wide as the register is not.                                     *)
LEMMA WholeRun ==
    ASSUME Wide, NEW i, NEW j, Shape(LogX, i, j), NEW y \in 0..Pow(WRegSize) - 1
    PROVE  Run(LogX, i, j) # y * Pow(WRegSize) + y
<1> DEFINE H == WRegSize
           P == Pow(H)
<1>1. /\ i \in Nat \ {0} /\ i \in Nat /\ j \in Nat /\ i < j /\ j <= XRegSize
      /\ H \in Nat /\ XRegSize = 2 * H /\ P \in Nat \ {0} /\ P >= 4 /\ Modulus = P * P
  <2>1. LogX \in 0..LogX /\ LogX \in 1..LogX
    BY DEF Wide
  <2> QED BY <2>1, ElementSize, Widths DEF Shape
<1>2. Run(LogX, i, j) = Pow(j) - Pow(i)
  <2>1. Copies(LogX) = 1
    <3>1. LogX \in 0..LogX
      BY DEF Wide
    <3> QED BY <3>1, CopiesIs
  <2>2. Pow(j) - Pow(i) \in Nat
    BY <1>1, Ones
  <2> QED BY <2>1, <2>2 DEF Run
<1>3. Pow(j) \in Nat \ {0} /\ Pow(i) \in Nat \ {0} /\ 2 * Pow(i) <= Pow(j)
  BY <1>1, PowPos, PowLess
<1> SUFFICES ASSUME Pow(j) - Pow(i) = y * P + y
             PROVE  FALSE
  BY <1>2
<1>4. y \in Nat /\ y < P /\ y * P + y = P * y + y
  BY <1>1
<1>5. (P * y + y) % P = y /\ (P * y + y) \div P = y
  <2> HIDE DEF P
  <2>1. y \in Int /\ y \in 0..P - 1
    BY <1>1, <1>4
  <2> QED BY <1>1, <2>1, DivMod
<1>6. y # 0
  <2> HIDE DEF P
  <2>1. y = 0 => y * P + y = 0
    BY <1>1
  <2> QED BY <1>3, <2>1
<1>7. ASSUME j <= H
      PROVE  FALSE
  <2>1. Pow(j) <= P
    BY <1>1, <1>7, PowLess
  <2> HIDE DEF P
  <2>2. P * 1 <= P * y
    BY <1>1, <1>4, <1>6
  <2> QED BY <1>1, <1>3, <1>4, <1>6, <2>1, <2>2
<1>8. ASSUME H < j, H <= i
      PROVE  FALSE
  <2>1. Pow(j) = P * Pow(j - H) /\ Pow(i) = P * Pow(i - H)
    BY <1>1, <1>8, PowDiff
  <2>2. Pow(j - H) \in Nat /\ Pow(i - H) \in Nat
    BY <1>1, <1>8, PowDiff
  <2> DEFINE z == Pow(j - H) - Pow(i - H)
  <2> HIDE DEF P
  <2>3. Pow(j) - Pow(i) = P * z + 0 /\ z \in Int
    BY <1>1, <2>1, <2>2
  <2>4. (P * z + 0) % P = 0
    <3> HIDE DEF z
    <3>1. 0 \in 0..P - 1 /\ z \in Int
      BY <1>1, <2>3
    <3> QED BY <1>1, <3>1, DivMod
  <2> QED BY <1>4, <1>5, <1>6, <2>3, <2>4
<1>9. ASSUME H < j, i < H
      PROVE  FALSE
  <2> DEFINE g == Pow(j - H)
  <2>1. Pow(j) = P * g /\ g \in Nat
    BY <1>1, <1>9, PowDiff
  <2>2. Pow(i) <= P
    BY <1>1, <1>9, PowLess
  <2>3. \E k \in Nat : g = 2 * k
    <3> DEFINE n == j - H
    <3>1. n \in Nat \ {0}
      BY <1>1, <1>9
    <3> HIDE DEF n
    <3>2. Pow(n) = 2 * Pow(n - 1) /\ Pow(n - 1) \in Nat
      BY <3>1, PowEven
    <3> QED BY <3>2 DEF n
  <2>4. \E k \in Nat : Pow(i) = 2 * k
    BY <1>1, PowEven
  <2>5. \E k \in Nat : P = 2 * k
    BY PowEven, Widths
  <2> HIDE DEF P, g
  <2>6. Pow(j) - Pow(i) = P * (g - 1) + (P - Pow(i)) /\ P - Pow(i) \in 0..P - 1 /\ g - 1 \in Int
    BY <1>1, <1>3, <2>1, <2>2
  <2>7. /\ (P * (g - 1) + (P - Pow(i))) % P = P - Pow(i)
        /\ (P * (g - 1) + (P - Pow(i))) \div P = g - 1
    BY <1>1, <2>6, DivMod
  <2>8. g - 1 = P - Pow(i)
    BY <1>4, <1>5, <2>6, <2>7
  <2> QED BY <2>3, <2>4, <2>5, <2>8
<1> QED BY <1>1, <1>7, <1>8, <1>9

(* Fields of an instruction are never those of a refusal, and stand for a  *)
(* value of the width of the register.                                     *)
LEMMA Answered ==
    ASSUME Wide, NEW f \in Fields
    PROVE  f # Refused /\ GetLogicalImmediate(f) \in Values
<1>1. f # Refused
  <2>1. f.imms \in 0..XRegSize - 1 /\ XRegSize \in Nat
    BY Widths DEF Fields
  <2>2. f.imms >= 0
    BY <2>1
  <2> QED BY <2>2 DEF Refused
<1>2. ASSUME Key(f) = <<>>
      PROVE  GetLogicalImmediate(f) \in Values
  <2>1. Modulus \in Nat \ {0}
    BY Widths, PowPos
  <2> QED BY <1>2, <2>1, KeyOnes DEF Values
<1>3. ASSUME Key(f) # <<>>
      PROVE  GetLogicalImmediate(f) \in Values
  <2>1. PICK l, i, j : \E negate \in BOOLEAN :
           Shape(l, i, j) /\ Key(f) = KeyOf(l, i, j, negate)
    BY Zenon, <1>3, KeyShape
  <2>2. PICK negate \in BOOLEAN : Shape(l, i, j) /\ Key(f) = KeyOf(l, i, j, negate)
    BY <2>1
  <2>3. GetLogicalImmediate(f) = ImmOf(l, i, j, negate)
    BY Zenon, <2>2, KeyRun
  <2> QED BY Zenon, <2>2, <2>3, ImmIs
<1> QED BY <1>1, <1>2, <1>3

(* What an answer stands for is what was encoded, as far as the register   *)
(* holds it.                                                               *)
LEMMA SameImm ==
    ASSUME Wide, NEW v \in Values, NEW x \in BOOLEAN,
           NEW l, NEW i, NEW j, Shape(l, i, j), Doubled(v, x) = Run(l, i, j)
    PROVE  LET g == ImmOf(l, i, j, v % 2 = 1)
           IN  /\ x => g = v /\ l \in 1..LogX
               /\ ~x => g % Pow(WRegSize) = v % Pow(WRegSize) /\ l # LogX
<1> DEFINE P == Pow(WRegSize)
           low == v % P
           y == IF v % 2 = 1 THEN P - 1 - low ELSE low
           r == Run(l, i, j)
           g == ImmOf(l, i, j, v % 2 = 1)
<1>1. /\ v \in Nat /\ low \in 0..P - 1 /\ y \in 0..P - 1
      /\ Doubled(v, FALSE) = y * P + y
      /\ Doubled(v, TRUE) = IF v % 2 = 1 THEN Modulus - 1 - v ELSE v
  BY Halves
<1>2. P \in Nat \ {0} /\ Modulus \in Nat \ {0} /\ r \in Values
  <2>1. Modulus \in Nat \ {0} /\ P \in Nat \ {0}
    BY PowPos, Widths
  <2> QED BY <2>1, RunRange DEF Values
<1>3. g = IF v % 2 = 1 THEN Modulus - 1 - r ELSE r
  BY Zenon DEF ImmOf
<1>4. ASSUME x = TRUE
      PROVE  g = v
  <2>1. r = IF v % 2 = 1 THEN Modulus - 1 - v ELSE v
    BY Zenon, <1>1, <1>4
  <2> HIDE DEF g, r
  <2> QED BY <1>1, <1>2, <1>3, <2>1
<1>5. ASSUME x = FALSE
      PROVE  g % P = low /\ l # LogX
  <2>1. r = y * P + y
    BY Zenon, <1>1, <1>5
  <2>2. l # LogX
    <3> HIDE DEF y
    <3>1. l = LogX => r # y * P + y
      BY <1>1, WholeRun
    <3> QED BY <2>1, <3>1
  <2>3. r % P = y
    <3> HIDE DEF P, y, r
    <3>1. y \in Int /\ r = P * y + y
      BY <1>1, <1>2, <2>1
    <3> QED BY <1>1, <1>2, <3>1, DivMod
  <2>4. (Modulus - 1 - r) % P = P - 1 - y
    BY Zenon, <1>2, <2>3, Halves
  <2> HIDE DEF g, r, P, low
  <2>5. g % P = IF v % 2 = 1 THEN P - 1 - y ELSE y
    BY Zenon, <1>3, <2>3, <2>4
  <2>6. (IF v % 2 = 1 THEN P - 1 - y ELSE y) = low
    BY <1>1, <1>2
  <2> QED BY Zenon, <2>2, <2>5, <2>6
<1>6. l \in 1..LogX
  BY DEF Shape
<1>7. x = TRUE \/ x = FALSE
  OBVIOUS
<1> QED BY Zenon, <1>4, <1>5, <1>6, <1>7

(* What some fields stand for is accepted, whatever the register does not  *)
(* hold of it.                                                             *)
LEMMA EncodableIsAccepted ==
    ASSUME Wide, NEW v \in Values, NEW x \in BOOLEAN, NEW f \in Fields,
           x \/ f.N = 0, Key(f) # <<>>,
           x => v = GetLogicalImmediate(f),
           ~x => v % Pow(WRegSize) = GetLogicalImmediate(f) % Pow(WRegSize)
    PROVE  IsImmLogical(v, x) # Refused
<1>1. PICK l, i, j : \E negate \in BOOLEAN :
         /\ Shape(l, i, j) /\ Key(f) = KeyOf(l, i, j, negate)
         /\ l = LogX <=> f.N = 1
  BY Zenon, KeyShape
<1>2. PICK negate \in BOOLEAN :
         /\ Shape(l, i, j) /\ Key(f) = KeyOf(l, i, j, negate)
         /\ l = LogX <=> f.N = 1
  BY <1>1
<1> DEFINE g == ImmOf(l, i, j, negate)
           r == Run(l, i, j)
           P == Pow(WRegSize)
<1>3. GetLogicalImmediate(f) = g
  BY Zenon, <1>2, KeyRun
<1>4. g \in Values /\ (g % 2 = 1 <=> negate) /\ Doubled(g, TRUE) = r
  <2>1. Shape(l, i, j)
    BY <1>2
  <2> QED BY <2>1, ImmIs
<1>5. ASSUME x = TRUE
      PROVE  Doubled(v, x) = r
  BY Zenon, <1>3, <1>4, <1>5
<1>6. ASSUME x = FALSE
      PROVE  Doubled(v, x) = r
  <2>1. v % P = g % P
    BY <1>3, <1>6
  <2>2. l # LogX
    BY <1>2, <1>6
  <2>3. r \in Values
    <3>1. Modulus \in Nat
      BY PowPos, Widths
    <3> QED BY <1>2, <3>1, RunRange DEF Values
  <2>4. r % P \in 0..P - 1 /\ r = (r % P) * P + (r % P)
    BY Zenon, <1>2, <2>2, RunHalves
  <2>5. g = IF negate THEN Modulus - 1 - r ELSE r
    BY Zenon DEF ImmOf
  <2> DEFINE low == v % P
             y == IF v % 2 = 1 THEN P - 1 - low ELSE low
  <2>6. Doubled(v, FALSE) = y * P + y /\ (v % 2 = 1 <=> low % 2 = 1)
    BY Halves
  <2>7. (g % 2 = 1 <=> (g % P) % 2 = 1)
    BY Zenon, <1>4, Halves
  <2>8. (v % 2 = 1 <=> negate)
    BY <1>4, <2>1, <2>6, <2>7
  <2>9. (Modulus - 1 - r) % P = P - 1 - (r % P)
    BY Zenon, <2>3, Halves
  <2>10. low = IF negate THEN P - 1 - (r % P) ELSE r % P
    BY Zenon, <2>1, <2>5, <2>9
  <2>11. P \in Nat
    BY Widths
  <2> DEFINE k == r % P
  <2> HIDE DEF r, g, P, low, k
  <2>12. y = k
    <3>1. y = IF negate THEN P - 1 - low ELSE low
      BY Zenon, <2>8
    <3>2. low = IF negate THEN P - 1 - k ELSE k
      BY Zenon, <2>10 DEF k
    <3>3. k \in Int
      BY <2>4 DEF k
    <3> HIDE DEF y
    <3> QED BY <2>11, <3>1, <3>2, <3>3
  <2> HIDE DEF y
  <2>13. Doubled(v, FALSE) = r
    BY Zenon, <2>4, <2>6, <2>12 DEF k
  <2> QED BY Zenon, <1>6, <2>13
<1>7. Doubled(v, x) = r
  BY Zenon, <1>5, <1>6
<1> HIDE DEF r, g, P
<1>8. IsImmLogical(v, x) = FieldsOf(l, i, j, v % 2 = 1)
  <2>1. Doubled(v, x) = Run(l, i, j)
    BY <1>7 DEF r
  <2>2. Shape(l, i, j)
    BY <1>2
  <2> QED BY <2>1, <2>2, Encode
<1>9. FieldsOf(l, i, j, v % 2 = 1) \in Fields
  <2>1. (v % 2 = 1) \in BOOLEAN
    OBVIOUS
  <2>2. Shape(l, i, j)
    BY <1>2
  <2> QED BY Zenon, <2>1, <2>2, FieldsKey
<1> QED BY Zenon, <1>8, <1>9, Answered

(***************************************************************************)
(* The object: what Assemble wrote is what IsImmLogical answered.          *)
(***************************************************************************)
Inv ==
    /\ TypeOK
    /\ step = "assembled" => fields = IsImmLogical(imm, is_x)
    /\ step = "refused" => IsImmLogical(imm, is_x) = Refused

(* The fields of an answer are in range.                                   *)
LEMMA AnswerType ==
    ASSUME Wide, NEW v \in Values, NEW x \in BOOLEAN, IsImmLogical(v, x) # Refused
    PROVE  IsImmLogical(v, x) \in Fields
<1>1. PICK l, i, j : /\ Shape(l, i, j) /\ Doubled(v, x) = Run(l, i, j)
                     /\ IsImmLogical(v, x) = FieldsOf(l, i, j, v % 2 = 1)
  BY Zenon, EncodedIsRun
<1> DEFINE f == FieldsOf(l, i, j, v % 2 = 1)
<1>2. f \in Fields
  <2> DEFINE negate == v % 2 = 1
  <2>1. negate \in BOOLEAN /\ Shape(l, i, j)
    BY <1>1
  <2> HIDE DEF negate
  <2>2. FieldsOf(l, i, j, negate) \in Fields
    BY <2>1, FieldsKey
  <2> QED BY <2>2 DEF negate
<1> HIDE DEF f
<1>3. IsImmLogical(v, x) = f
  BY <1>1 DEF f
<1> QED BY Zenon, <1>2, <1>3

(* A fetched instruction.                                                  *)
LEMMA InvInit == ASSUME Wide, Init PROVE Inv
<1>1. Modulus \in Nat \ {0}
  BY PowPos, Widths
<1>2. imm \in Values
  BY <1>1 DEF Init, Values
<1>3. /\ fields \in Fields /\ sf \in fields.N..1
      /\ is_x \in BOOLEAN /\ step = "fetched"
  BY DEF Init
<1>4. sf \in 0..1
  <2>1. fields.N \in 0..1
    BY <1>3 DEF Fields
  <2> QED BY <1>3, <2>1
<1> QED BY <1>2, <1>3, <1>4 DEF Inv, TypeOK

(* Every operation keeps the invariant.                                    *)
LEMMA InvNext == ASSUME Wide, Inv, [Next]_vars PROVE Inv'
<1>1. CASE Disassemble
  <2>1. GetLogicalImmediate(fields) \in Values
    BY Answered DEF Inv, TypeOK
  <2> QED BY <1>1, <2>1 DEF Inv, TypeOK, Disassemble
<1>2. CASE SetImm
  BY <1>2 DEF Inv, TypeOK, SetImm
<1>3. CASE Assemble
  <2> DEFINE f == IsImmLogical(imm, is_x)
  <2>1. TypeOK /\ UNCHANGED <<is_x, imm>>
    BY <1>3 DEF Inv, Assemble
  <2>2. IsImmLogical(imm, is_x)' = f
    BY <2>1
  <2>3. /\ f # Refused => f \in Fields
        /\ Opcode \in Fields /\ sf' \in 0..1
    <3>1. f # Refused => f \in Fields
      BY Zenon, <2>1, AnswerType DEF TypeOK
    <3>2. 0 \in 0..XRegSize - 1
      BY Widths, PowPos DEF XRegSize
    <3> QED BY <1>3, <3>1, <3>2 DEF Assemble, Opcode, Fields
  <2>4. \/ f = Refused /\ step' = "refused" /\ fields' = Opcode
        \/ f # Refused /\ step' = "assembled" /\ fields' = f
    BY <1>3 DEF Assemble
  <2>5. TypeOK'
    <3> HIDE DEF f
    <3> QED BY <2>1, <2>3, <2>4 DEF TypeOK
  <2> QED BY <2>2, <2>4, <2>5 DEF Inv
<1>4. CASE UNCHANGED vars
  BY <1>4 DEF Inv, TypeOK, vars
<1> QED BY <1>1, <1>2, <1>3, <1>4 DEF Next

(* The fields that Assemble writes stand for the immediate of the object.  *)
LEMMA InvKeepsImm == ASSUME Wide, Inv PROVE AssembleKeepsImm
<1> SUFFICES ASSUME step = "assembled"
             PROVE  Seen(GetLogicalImmediate(fields)) = Seen(imm)
  BY DEF AssembleKeepsImm
<1>1. /\ imm \in Values /\ is_x \in BOOLEAN /\ fields \in Fields
      /\ fields = IsImmLogical(imm, is_x)
  BY DEF Inv, TypeOK
<1>2. fields # Refused
  BY <1>1, Answered
<1>3. PICK l, i, j : /\ Shape(l, i, j) /\ Doubled(imm, is_x) = Run(l, i, j)
                     /\ fields = FieldsOf(l, i, j, imm % 2 = 1)
  <2>1. IsImmLogical(imm, is_x) # Refused
    BY <1>1, <1>2
  <2>2. \E l, i, j : /\ Shape(l, i, j) /\ Doubled(imm, is_x) = Run(l, i, j)
                     /\ IsImmLogical(imm, is_x) = FieldsOf(l, i, j, imm % 2 = 1)
    BY Zenon, <1>1, <2>1, EncodedIsRun
  <2> QED BY Zenon, <1>1, <2>2
<1> DEFINE negate == imm % 2 = 1
           g == ImmOf(l, i, j, negate)
<1>4. GetLogicalImmediate(fields) = g
  <2>1. negate \in BOOLEAN /\ Shape(l, i, j) /\ fields = FieldsOf(l, i, j, negate)
    BY <1>3
  <2> HIDE DEF negate
  <2>2. Key(fields) = KeyOf(l, i, j, negate)
    BY <2>1, FieldsKey
  <2> QED BY <1>1, <2>1, <2>2, KeyRun
<1>5. /\ is_x => g = imm
      /\ ~is_x => g % Pow(WRegSize) = imm % Pow(WRegSize)
  <2>1. Shape(l, i, j) /\ Doubled(imm, is_x) = Run(l, i, j)
    BY <1>3
  <2> QED BY <1>1, <2>1, SameImm
<1> HIDE DEF g
<1>6. 2^WRegSize = Pow(WRegSize)
  BY Widths
<1> QED BY Zenon, <1>4, <1>5, <1>6 DEF Seen

(* Only an immediate that no fields stand for is refused.                  *)
LEMMA InvRefused ==
    ASSUME Wide, Inv, step = "refused"
    PROVE  Seen(imm) \notin Encodable(is_x)
<1>1. imm \in Values /\ is_x \in BOOLEAN /\ IsImmLogical(imm, is_x) = Refused
  BY DEF Inv, TypeOK
<1> DEFINE P == Pow(WRegSize)
           g(f) == GetLogicalImmediate(f)
<1>2. 2^WRegSize = P /\ P \in Nat \ {0} /\ Modulus \in Nat \ {0} /\ Modulus = P * P
  BY Widths, PowPos
<1> SUFFICES ASSUME NEW f \in Fields, is_x \/ f.N = 0,
                    Seen(imm) = IF is_x THEN g(f) ELSE g(f) % P,
                    Seen(imm) # IF is_x THEN Modulus - 1 ELSE P - 1
             PROVE  FALSE
  BY <1>2 DEF Encodable
<1>3. is_x => imm = g(f) /\ g(f) # Modulus - 1
  BY DEF Seen
<1>4. ~is_x => imm % P = g(f) % P /\ g(f) % P # P - 1
  BY <1>2 DEF Seen
<1>5. Key(f) # <<>>
  <2> SUFFICES ASSUME Key(f) = <<>>
               PROVE  FALSE
    OBVIOUS
  <2>1. g(f) = Modulus - 1
    BY KeyOnes
  <2>2. (Modulus - 1) % P = P - 1
    <3> HIDE DEF P
    <3>1. P - 1 \in 0..P - 1 /\ P - 1 \in Int
      BY <1>2
    <3>2. (P * (P - 1) + (P - 1)) % P = P - 1
      BY <1>2, <3>1, DivMod
    <3>3. P * (P - 1) + (P - 1) = Modulus - 1
      BY <1>2
    <3> QED BY <3>2, <3>3
  <2> QED BY <1>3, <1>4, <2>1, <2>2
<1>6. IsImmLogical(imm, is_x) # Refused
  BY Zenon, <1>1, <1>3, <1>4, <1>5, EncodableIsAccepted
<1> QED BY <1>1, <1>6

(* Encodings stand for the same immediate just if they have the same key.  *)
LEMMA SameKey ==
    ASSUME Wide, NEW f \in Fields, NEW h \in Fields
    PROVE  Key(f) = Key(h) <=> GetLogicalImmediate(f) = GetLogicalImmediate(h)
<1>1. ASSUME NEW e \in Fields, Key(e) # <<>>
      PROVE  \E l, i, j : \E negate \in BOOLEAN :
                /\ Shape(l, i, j) /\ Key(e) = KeyOf(l, i, j, negate)
                /\ GetLogicalImmediate(e) = ImmOf(l, i, j, negate)
  <2>1. PICK l, i, j : \E negate \in BOOLEAN :
           Shape(l, i, j) /\ Key(e) = KeyOf(l, i, j, negate)
    BY Zenon, <1>1, KeyShape
  <2>2. PICK negate \in BOOLEAN : Shape(l, i, j) /\ Key(e) = KeyOf(l, i, j, negate)
    BY <2>1
  <2>3. GetLogicalImmediate(e) = ImmOf(l, i, j, negate)
    BY <2>2, KeyRun
  <2> QED BY <2>2, <2>3
<1>2. ASSUME NEW e \in Fields, Key(e) # <<>>
      PROVE  /\ GetLogicalImmediate(e) # Modulus - 1 /\ IsImmLogical(GetLogicalImmediate(e), TRUE) \in Fields
             /\ Key(IsImmLogical(GetLogicalImmediate(e), TRUE)) = Key(e)
  <2>1. PICK l, i, j : \E negate \in BOOLEAN :
           /\ Shape(l, i, j) /\ Key(e) = KeyOf(l, i, j, negate)
           /\ GetLogicalImmediate(e) = ImmOf(l, i, j, negate)
    BY Zenon, <1>1, <1>2
  <2>2. PICK negate \in BOOLEAN :
           /\ Shape(l, i, j) /\ Key(e) = KeyOf(l, i, j, negate)
           /\ GetLogicalImmediate(e) = ImmOf(l, i, j, negate)
    BY <2>1
  <2> DEFINE v == ImmOf(l, i, j, negate)
  <2>3. /\ v \in Values /\ v # Modulus - 1 /\ (v % 2 = 1 <=> negate)
        /\ Doubled(v, TRUE) = Run(l, i, j)
    BY <2>2, ImmIs
  <2> HIDE DEF v
  <2>4. IsImmLogical(v, TRUE) = FieldsOf(l, i, j, v % 2 = 1)
    <3>1. Shape(l, i, j) /\ Doubled(v, TRUE) = Run(l, i, j)
      BY <2>2, <2>3
    <3>2. \A x \in BOOLEAN : Doubled(v, x) = Run(l, i, j) =>
             IsImmLogical(v, x) = FieldsOf(l, i, j, v % 2 = 1)
      BY <2>3, <3>1, Encode
    <3> QED BY Zenon, <3>1, <3>2
  <2>5. (v % 2 = 1) = negate
    BY <2>3
  <2>6. IsImmLogical(v, TRUE) = FieldsOf(l, i, j, negate)
    BY Zenon, <2>4, <2>5
  <2>7. FieldsOf(l, i, j, negate) \in Fields
        /\ Key(FieldsOf(l, i, j, negate)) = KeyOf(l, i, j, negate)
    BY <2>2, FieldsKey
  <2>8. GetLogicalImmediate(e) = v
    BY <2>2 DEF v
  <2> QED BY Zenon, <2>2, <2>3, <2>6, <2>7, <2>8
<1>3. ASSUME NEW e \in Fields, Key(e) = <<>>
      PROVE  GetLogicalImmediate(e) = Modulus - 1
  BY <1>3, KeyOnes
<1>4. Key(f) = Key(h) => GetLogicalImmediate(f) = GetLogicalImmediate(h)
  <2>1. ASSUME Key(f) = Key(h), Key(f) # <<>>
        PROVE  GetLogicalImmediate(f) = GetLogicalImmediate(h)
    <3>1. PICK l, i, j : \E negate \in BOOLEAN :
             /\ Shape(l, i, j) /\ Key(f) = KeyOf(l, i, j, negate)
             /\ GetLogicalImmediate(f) = ImmOf(l, i, j, negate)
      BY Zenon, <1>1, <2>1
    <3>2. PICK negate \in BOOLEAN :
             /\ Shape(l, i, j) /\ Key(f) = KeyOf(l, i, j, negate)
             /\ GetLogicalImmediate(f) = ImmOf(l, i, j, negate)
      BY <3>1
    <3>3. GetLogicalImmediate(h) = ImmOf(l, i, j, negate)
      <4>1. Shape(l, i, j) /\ Key(h) = KeyOf(l, i, j, negate)
        BY <2>1, <3>2
      <4> QED BY <4>1, KeyRun
    <3> QED BY <3>2, <3>3
  <2> QED BY Zenon, <1>3, <2>1
<1>5. GetLogicalImmediate(f) = GetLogicalImmediate(h) => Key(f) = Key(h)
  BY Zenon, <1>2, <1>3
<1> QED BY <1>4, <1>5

(* The representation of immediates in the module Decoder is sound.        *)
LEMMA InvKeyIsImm == ASSUME Wide, Inv PROVE KeyIsImm
<1>1. fields \in Fields
  BY DEF Inv, TypeOK
<1> QED BY Zenon, <1>1, SameKey DEF KeyIsImm

=============================================================================
