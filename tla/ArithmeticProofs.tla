---------------------------- MODULE ArithmeticProofs ----------------------------
(***************************************************************************)
(* What the proofs about several components cite: facts about numbers, and *)
(* the arithmetic of the generator, whose worker ranges partition the      *)
(* scenario ids for every scenario count n and every worker count k with   *)
(* 1 <= k <= n.                                                            *)
(***************************************************************************)
EXTENDS ScenarioRanges, PowersOfTwo, Sequences, FiniteSetsExt,
        FiniteSetTheorems, NaturalsInduction, WellFoundedInduction, TLAPS

-----------------------------------------------------------------------------
(* Numbers and sequences.                                                  *)

\* Quotient and remainder of naturals, as the range arithmetic uses them.
LEMMA QuotientRemainder ==
    ASSUME NEW n \in Nat, NEW k \in Nat \ {0}
    PROVE  /\ n \div k \in Nat
           /\ n % k \in Nat
           /\ n % k < k
           /\ n = k * (n \div k) + (n % k)
  <1>1. n \div k \in Int /\ n % k \in Int
    OBVIOUS
  <1>2. n % k >= 0 /\ n % k < k
    OBVIOUS
  <1>3. n = k * (n \div k) + (n % k)
    OBVIOUS
  <1>4. n \div k >= 0
    OBVIOUS
  <1> QED
    BY <1>1, <1>2, <1>3, <1>4

\* Rounding the quotient of naturals up.
LEMMA RoundedUp ==
    ASSUME NEW m \in Nat, NEW d \in Nat \ {0}
    PROVE  LET q == (m + d - 1) \div d
           IN  /\ q \in Nat /\ m <= q * d
               /\ \A k \in Nat : k < q => k * d < m
  <1> DEFINE x == m + d - 1
             q == x \div d
             r == x % d
  <1>1. x \in Nat /\ x = m + d - 1
    OBVIOUS
  <1>2. q \in Nat /\ r \in Nat /\ r < d /\ x = d * q + r
    BY <1>1, QuotientRemainder
  <1> HIDE DEF x, q, r
  <1>3. d * q \in Nat /\ q * d = d * q
    BY <1>2
  <1>4. m <= q * d
    BY <1>1, <1>2, <1>3
  <1>5. ASSUME NEW k \in Nat, k < q
        PROVE  k * d < m
    <2>1. d * (q - k - 1) \in Nat
      <3>1. q - k - 1 \in Nat
        BY <1>2, <1>5
      <3> QED
        BY <3>1
    <2>2. d * (q - k - 1) = d * q - k * d - d /\ k * d \in Nat
      BY <1>2
    <2> QED
      BY <1>1, <1>2, <1>3, <2>1, <2>2
  <1>6. q \in Nat /\ m <= q * d /\ \A k \in Nat : k < q => k * d < m
    BY <1>2, <1>4, <1>5
  <1> QED
    BY <1>6 DEF q, x

\* Multiplication by a natural number is monotone.
LEMMA ProductMonotone ==
    ASSUME NEW q \in Nat, NEW a \in Nat, NEW b \in Nat, a <= b
    PROVE  q * a <= q * b /\ q * a \in Nat
  <1>1. b - a \in Nat
    OBVIOUS
  <1>2. q * (b - a) \in Nat
    BY <1>1
  <1>3. q * b = q * a + q * (b - a)
    OBVIOUS
  <1> QED
    BY <1>2, <1>3

\* The integers that a / d lies between, one of which it is rounded to.
LEMMA RoundedQuotient ==
    ASSUME NEW a \in Nat, NEW d \in Nat \ {0}
    PROVE  LET q == a \div d
               r == a % d
               m == IF 2 * r > d \/ (2 * r = d /\ q % 2 = 1) THEN q + 1 ELSE q
           IN  /\ m \in Nat /\ q \in Nat /\ q <= m
               /\ a < q * d + d
               /\ 2 * a <= 2 * (m * d) + d
               /\ \A K \in Nat : a <= K * d => m <= K
  <1> DEFINE q == a \div d
             r == a % d
             m == IF 2 * r > d \/ (2 * r = d /\ q % 2 = 1) THEN q + 1 ELSE q
  <1>1. q \in Nat /\ r \in 0 .. (d - 1) /\ a = d * q + r
    BY QuotientRemainder
  <1>2. m \in Nat /\ (m = q \/ m = q + 1) /\ (m = q => 2 * r <= d) /\ (m = q + 1 => r > 0)
    BY <1>1
  <1> HIDE DEF q, r, m
  <1>3. d * q = q * d /\ q * d \in Nat /\ (q + 1) * d = q * d + d
    BY <1>1
  <1>4. a < q * d + d
    BY <1>1, <1>3
  <1>5. 2 * a <= 2 * (m * d) + d
    <2>1. CASE m = q
      BY <1>1, <1>2, <1>3, <2>1
    <2>2. CASE m = q + 1
      BY <1>1, <1>2, <1>3, <2>2
    <2> QED
      BY <1>2, <2>1, <2>2
  <1>6. ASSUME NEW K \in Nat, a <= K * d PROVE m <= K
    <2>1. q <= K
      <3> SUFFICES ASSUME K + 1 <= q PROVE FALSE
        BY <1>1
      <3>1. d * (K + 1) <= d * q /\ d * (K + 1) = K * d + d /\ K * d \in Nat
        BY <1>1, ProductMonotone
      <3> QED
        BY <1>1, <1>3, <1>6, <3>1
    <2>2. CASE q = K
      <3>1. r = 0
        BY <1>1, <1>3, <1>6, <2>2
      <3> QED
        BY <1>2, <2>2, <3>1
    <2>3. CASE q # K
      BY <1>1, <1>2, <2>1, <2>3
    <2> QED
      BY <2>2, <2>3
  <1> QED
    BY <1>1, <1>2, <1>4, <1>5, <1>6 DEF q, r, m

\* A nonempty set of numbers has a least element.
LEMMA LeastNat ==
    ASSUME NEW T, T \subseteq Nat, T # {}
    PROVE  \E x \in T : \A y \in T : x <= y
  <1>1. IsWellFoundedOn(OpToRel(<, Nat), Nat)
    BY NatLessThanWellFounded
  <1>2. PICK x \in T : \A y \in T : ~(<<y, x>> \in OpToRel(<, Nat))
    BY <1>1, WFMin
  <1>3. ASSUME NEW y \in T
        PROVE  ~(y < x)
    <2>1. <<y, x>> \in Nat \X Nat
      OBVIOUS
    <2>2. y < x => <<y, x>> \in OpToRel(<, Nat)
      BY <2>1, Zenon DEF OpToRel
    <2> QED
      BY <1>2, <2>2
  <1> QED
    BY <1>3

\* A set of numbers that contains 0 and the successor of each of its members
\* contains all numbers.
LEMMA SetInduction ==
    ASSUME NEW T, 0 \in T, \A n \in Nat : n \in T => n + 1 \in T
    PROVE  Nat \subseteq T
  <1> SUFFICES ASSUME NEW n \in Nat, n \notin T PROVE FALSE
    OBVIOUS
  <1>0. Nat \ T \subseteq Nat /\ Nat \ T # {}
    OBVIOUS
  <1>1. PICK x \in Nat \ T : \A y \in Nat \ T : x <= y
    BY <1>0, LeastNat
  <1>2. x # 0
    OBVIOUS
  <1>3. x - 1 \in Nat /\ x - 1 \in T
    BY <1>1, <1>2
  <1>4. (x - 1) + 1 = x
    OBVIOUS
  <1> QED
    BY <1>3, <1>4

\* A nonempty set of the numbers up to n has a greatest element.
LEMMA GreatestNat ==
    ASSUME NEW n \in Nat, NEW T, T \subseteq 0 .. n, T # {}
    PROVE  \E x \in T : \A y \in T : y <= x
  <1> DEFINE U == {n - y : y \in T}
  <1>1. U \subseteq Nat /\ U # {}
    <2>1. \A y \in T : n - y \in Nat
      OBVIOUS
    <2>2. PICK y \in T : TRUE
      OBVIOUS
    <2>3. n - y \in U
      OBVIOUS
    <2> QED
      BY <2>1, <2>3
  <1>2. PICK u \in U : \A v \in U : u <= v
    BY <1>1, LeastNat
  <1>3. PICK x \in T : u = n - x
    OBVIOUS
  <1>4. \A y \in T : y <= x
    <2> TAKE y \in T
    <2>1. n - y \in U /\ y \in Int /\ x \in Int
      OBVIOUS
    <2> QED
      BY <1>2, <1>3, <2>1
  <1> QED
    BY <1>4

\* A function on 1 .. n is a sequence.
LEMMA FunctionIsSequence ==
    ASSUME NEW n \in Nat, NEW S, NEW f \in [1 .. n -> S]
    PROVE  f \in Seq(S) /\ Len(f) = n /\ DOMAIN f = 1 .. n
  OBVIOUS

\* The greatest of a set of positions.
LEMMA MaxOf ==
    ASSUME NEW n \in Nat, NEW T, T \subseteq 1 .. n, T # {}
    PROVE  Max(T) \in T /\ \A y \in T : y <= Max(T)
  <1>1. T \subseteq 0 .. n
    OBVIOUS
  <1>2. PICK x \in T : \A y \in T : y <= x
    BY <1>1, GreatestNat
  <1>3. \E z \in T : \A y \in T : z >= y
    BY <1>2
  <1> QED
    BY <1>3 DEF Max

\* A set of positions up to k + 1 that is not one of positions up to k.
LEMMA LastOf ==
    ASSUME NEW k \in Nat, NEW s \in SUBSET (1 .. (k + 1)),
           s \notin SUBSET (1 .. k)
    PROVE  /\ k + 1 \in s /\ s # {} /\ s \ {k + 1} \in SUBSET (1 .. k)
           /\ Max(s) = k + 1
  <1>1. k + 1 \in s /\ s # {}
    OBVIOUS
  <1>2. s \ {k + 1} \in SUBSET (1 .. k)
    OBVIOUS
  <1>3. k + 1 \in Nat /\ s \subseteq 1 .. (k + 1)
    OBVIOUS
  <1>4. Max(s) \in s /\ \A y \in s : y <= Max(s)
    BY <1>1, <1>3, MaxOf
  <1>5. Max(s) \in 1 .. (k + 1) /\ k + 1 <= Max(s)
    BY <1>1, <1>4
  <1> QED
    BY <1>1, <1>2, <1>5

-----------------------------------------------------------------------------
(* Powers of two.                                                          *)

\* p holds the powers of two up to 2 to the n.
Powers(p, n) ==
    /\ p \in [0 .. n -> Nat] /\ p[0] = 1
    /\ \A k \in 1 .. n : p[k] = 2 * p[k - 1]

\* There are tables of powers of two of every length.
LEMMA PowersExist == \A n \in Nat : \E p : Powers(p, n)
  <1> DEFINE P(n) == \E p : Powers(p, n)
             T    == {n \in Nat : P(n)}
  <1> HIDE DEF P
  <1>0. \A n \in Nat : n \in T <=> P(n)
    OBVIOUS
  <1> HIDE DEF T
  <1>1. P(0)
    <2>1. Powers([i \in 0 .. 0 |-> 1], 0)
      BY DEF Powers
    <2> QED
      BY <2>1, Zenon DEF P
  <1>2. ASSUME NEW n \in Nat, P(n) PROVE P(n + 1)
    <2>1. PICK p : Powers(p, n)
      BY <1>2, Zenon DEF P
    <2> DEFINE h == [i \in 0 .. (n + 1) |-> IF i \in 0 .. n THEN p[i] ELSE 2 * p[n]]
    <2>2. Powers(h, n + 1)
      <3>1. h \in [0 .. (n + 1) -> Nat] /\ h[0] = 1
        BY <2>1 DEF Powers
      <3>2. \A k \in 1 .. (n + 1) : h[k] = 2 * h[k - 1]
        <4> TAKE k \in 1 .. (n + 1)
        <4>1. CASE k \in 1 .. n
          BY <2>1, <4>1 DEF Powers
        <4>2. CASE k = n + 1
          BY <4>2
        <4> QED
          BY <4>1, <4>2
      <3> HIDE DEF h
      <3> QED
        BY <3>1, <3>2 DEF Powers
    <2> HIDE DEF h
    <2> QED
      BY <2>2, Zenon DEF P
  <1> QED
    <2>1. Nat \subseteq T
      BY <1>0, <1>1, <1>2, SetInduction
    <2> QED
      BY <1>0, <2>1, Zenon DEF P

\* Two tables agree where both are defined.
LEMMA PowersAgree ==
    ASSUME NEW n \in Nat, NEW m \in Nat, NEW p, Powers(p, n), NEW q, Powers(q, m),
           NEW k \in Nat, k <= n, k <= m
    PROVE  p[k] = q[k]
  <1> DEFINE T == {i \in Nat : i <= n /\ i <= m => p[i] = q[i]}
  <1>1. 0 \in T
    BY DEF Powers
  <1>2. ASSUME NEW i \in Nat, i \in T PROVE i + 1 \in T
    <2> SUFFICES ASSUME i + 1 <= n, i + 1 <= m PROVE p[i + 1] = q[i + 1]
      OBVIOUS
    <2>1. i + 1 \in 1 .. n /\ i + 1 \in 1 .. m /\ (i + 1) - 1 = i /\ p[i] = q[i]
      BY <1>2
    <2> QED
      BY <2>1 DEF Powers
  <1> HIDE DEF T
  <1>3. k \in T
    BY <1>1, <1>2, SetInduction
  <1> QED
    BY <1>3 DEF T

\* The recursive function exists: PowerOf2 satisfies its equation.
LEMMA PowerOf2Def ==
    /\ PowerOf2 \in [Nat -> Nat] /\ PowerOf2[0] = 1
    /\ \A k \in Nat : PowerOf2[k + 1] = 2 * PowerOf2[k]
  <1> DEFINE g(n) == CHOOSE p : Powers(p, n)
             f    == [k \in Nat |-> g(k)[k]]
  <1>1. \A n \in Nat : Powers(g(n), n)
    BY PowersExist
  <1> HIDE DEF g
  <1>2. f \in [Nat -> Nat] /\ f[0] = 1
    BY <1>1 DEF Powers
  <1>3. ASSUME NEW k \in Nat PROVE f[k + 1] = 2 * f[k]
    <2>1. g(k + 1)[k + 1] = 2 * g(k + 1)[k]
      BY <1>1 DEF Powers
    <2>2. g(k + 1)[k] = g(k)[k]
      BY <1>1, PowersAgree
    <2> QED
      BY <2>1, <2>2
  <1> HIDE DEF f
  <1>4. f = [k \in Nat |-> IF k = 0 THEN 1 ELSE 2 * f[k - 1]]
    <2>1. ASSUME NEW k \in Nat PROVE f[k] = IF k = 0 THEN 1 ELSE 2 * f[k - 1]
      <3>1. CASE k # 0
        <4>1. k - 1 \in Nat /\ (k - 1) + 1 = k
          BY <3>1
        <4> QED
          BY <1>3, <3>1, <4>1
      <3> QED
        BY <1>2, <3>1
    <2> QED
      BY <1>2, <2>1
  <1>5. PowerOf2 = [k \in Nat |-> IF k = 0 THEN 1 ELSE 2 * PowerOf2[k - 1]]
    BY <1>4, Zenon DEF PowerOf2
  <1> QED
    <2>1. ASSUME NEW k \in Nat PROVE PowerOf2[k + 1] = 2 * PowerOf2[k]
      BY <1>5
    <2>2. PowerOf2[0] = 1
      BY <1>5
    <2> DEFINE T == {k \in Nat : PowerOf2[k] \in Nat}
    <2>3. \A k \in Nat : PowerOf2[k] \in Nat
      <3>1. 0 \in T /\ \A k \in Nat : k \in T => k + 1 \in T
        BY <2>1, <2>2
      <3> HIDE DEF T
      <3>2. Nat \subseteq T
        BY <3>1, SetInduction
      <3> QED
        BY <3>2 DEF T
    <2>4. PowerOf2 \in [Nat -> Nat]
      BY <1>5, <2>3
    <2> QED
      BY <2>1, <2>2, <2>4


\* Powers of two are positive, and 2 to the (j + k) is at least j + 1 times 2
\* to the k.
LEMMA PowerOf2Grows ==
    ASSUME NEW k \in Nat
    PROVE  /\ PowerOf2[k] \in Nat \ {0}
           /\ \A j \in Nat : PowerOf2[k] * (j + 1) <= PowerOf2[k + j]
  <1>1. ASSUME NEW j \in Nat
        PROVE  PowerOf2[j] \in Nat /\ PowerOf2[j + 1] = 2 * PowerOf2[j]
    BY PowerOf2Def
  <1>2. PowerOf2[k] \in Nat \ {0}
    <2> DEFINE T == {j \in Nat : PowerOf2[j] # 0}
    <2>1. 0 \in T
      BY PowerOf2Def
    <2>2. \A j \in Nat : j \in T => j + 1 \in T
      BY <1>1
    <2> HIDE DEF T
    <2>3. k \in T
      BY <2>1, <2>2, SetInduction
    <2> QED
      BY <1>1, <2>3 DEF T
  <1> DEFINE T == {j \in Nat : PowerOf2[k] * (j + 1) <= PowerOf2[k + j]}
             b == PowerOf2[k]
  <1>3. 0 \in T
    BY <1>1
  <1>4. ASSUME NEW j \in Nat, j \in T PROVE j + 1 \in T
    <2> DEFINE x == PowerOf2[k + j]
    <2>1. PowerOf2[k + (j + 1)] = 2 * x /\ x \in Nat
      <3>1. k + j \in Nat /\ k + (j + 1) = (k + j) + 1
        OBVIOUS
      <3> QED
        BY <1>1, <3>1
    <2>2. b * (j + 1) <= x /\ b * (j + 1) = b * j + b /\ b * (j + 2) = b * j + 2 * b
      BY <1>1, <1>4
    <2>3. b * j \in Nat /\ b \in Nat
      BY <1>1
    <2> HIDE DEF x, b
    <2>4. b * ((j + 1) + 1) <= 2 * x
      BY <2>1, <2>2, <2>3
    <2> QED
      BY <2>1, <2>4 DEF b
  <1> HIDE DEF T
  <1>5. Nat \subseteq T
    BY <1>3, <1>4, SetInduction
  <1> QED
    BY <1>2, <1>5 DEF T

-----------------------------------------------------------------------------
(* Folds.  The folds of the community modules are recursive functions on   *)
(* the subsets of the positions 1 .. n that take the last position off     *)
(* first; step is what they do with the value so far and a position.       *)

\* g folds the positions 1 .. n from base with step, through values of S.
IsFold(g, n, S, base, step) ==
    /\ g \in [SUBSET (1 .. n) -> S]
    /\ \A s \in SUBSET (1 .. n) :
          g[s] = IF s = {} THEN base ELSE step[<<g[s \ {Max(s)}], Max(s)>>]

\* The recursive function exists.
LEMMA FoldExists ==
    ASSUME NEW n \in Nat, NEW S, NEW base \in S,
           NEW step \in [S \X (1 .. n) -> S]
    PROVE  \E g : IsFold(g, n, S, base, step)
  <1> DEFINE Folds(k, g) == IsFold(g, k, S, base, step)
             P(k) == k <= n => \E g : Folds(k, g)
             T    == {k \in Nat : P(k)}
  <1> HIDE DEF Folds, P
  <1>0. \A k \in Nat : k \in T <=> P(k)
    OBVIOUS
  <1> HIDE DEF T
  <1>1. P(0)
    <2> DEFINE g == [s \in SUBSET (1 .. 0) |-> base]
    <2>1. \A s \in SUBSET (1 .. 0) : s = {}
      OBVIOUS
    <2>2. Folds(0, g)
      BY <2>1 DEF Folds, IsFold
    <2> QED
      BY <2>2, Zenon DEF P
  <1>2. ASSUME NEW k \in Nat, P(k) PROVE P(k + 1)
    <2> SUFFICES ASSUME k + 1 <= n PROVE \E h : Folds(k + 1, h)
      BY Zenon DEF P
    <2>0. k <= n
      OBVIOUS
    <2>1. PICK g : Folds(k, g)
      BY <1>2, <2>0, Zenon DEF P
    <2> USE DEF Folds, IsFold
    <2> DEFINE h == [s \in SUBSET (1 .. (k + 1)) |->
                        IF s \in SUBSET (1 .. k) THEN g[s]
                        ELSE step[<<g[s \ {k + 1}], k + 1>>]]
    <2>2. ASSUME NEW s \in SUBSET (1 .. (k + 1)), s \notin SUBSET (1 .. k)
          PROVE  /\ k + 1 \in s /\ s # {} /\ s \ {k + 1} \in SUBSET (1 .. k)
                 /\ Max(s) = k + 1
      BY <2>2, LastOf
    <2>3. h \in [SUBSET (1 .. (k + 1)) -> S]
      <3>1. \A s \in SUBSET (1 .. (k + 1)) : s \notin SUBSET (1 .. k) =>
               step[<<g[s \ {k + 1}], k + 1>>] \in S
        <4> TAKE s \in SUBSET (1 .. (k + 1))
        <4> HAVE s \notin SUBSET (1 .. k)
        <4>1. g[s \ {k + 1}] \in S
          BY <2>1, <2>2
        <4>2. <<g[s \ {k + 1}], k + 1>> \in S \X (1 .. n)
          BY <4>1
        <4> QED
          BY <4>2
      <3> QED
        BY <2>1, <3>1
    <2>4. ASSUME NEW s \in SUBSET (1 .. (k + 1))
          PROVE  h[s] = IF s = {} THEN base
                        ELSE step[<<h[s \ {Max(s)}], Max(s)>>]
      <3>1. CASE s \in SUBSET (1 .. k)
        <4>1. h[s] = g[s] /\ g[s] = IF s = {} THEN base
                                    ELSE step[<<g[s \ {Max(s)}], Max(s)>>]
          BY <2>1, <3>1
        <4>2. s \ {Max(s)} \in SUBSET (1 .. k) /\ s \ {Max(s)} \in SUBSET (1 .. (k + 1))
          BY <3>1
        <4>3. h[s \ {Max(s)}] = g[s \ {Max(s)}]
          BY <4>2
        <4> QED
          BY <4>1, <4>3
      <3>2. CASE s \notin SUBSET (1 .. k)
        <4>1. h[s] = step[<<g[s \ {k + 1}], k + 1>>]
          BY <3>2
        <4>2. h[s \ {k + 1}] = g[s \ {k + 1}]
          BY <2>2, <3>2
        <4> QED
          BY <2>2, <3>2, <4>1, <4>2
      <3> QED
        BY <3>1, <3>2
    <2>5. Folds(k + 1, h)
      <3> HIDE DEF h
      <3> QED
        BY <2>3, <2>4
    <2> HIDE DEF Folds
    <2> QED
      BY <2>5, Zenon
  <1>3. P(n)
    BY <1>0, <1>1, <1>2, SetInduction
  <1>4. n <= n
    OBVIOUS
  <1>5. PICK g : Folds(n, g)
    BY <1>3, <1>4, Zenon DEF P
  <1> QED
    BY <1>5, Zenon DEF Folds

\* The last of the first i positions, and those before it.
LEMMA FirstPositions ==
    ASSUME NEW i \in Nat \ {0}
    PROVE  /\ 1 .. i # {} /\ 1 .. 0 = {}
           /\ Max(1 .. i) = i
           /\ (1 .. i) \ {i} = 1 .. (i - 1)
  <1>1. i \in 1 .. i
    OBVIOUS
  <1>2. Max(1 .. i) \in 1 .. i /\ i <= Max(1 .. i)
    BY <1>1, MaxOf
  <1> QED
    BY <1>1, <1>2

-----------------------------------------------------------------------------
(* Sums.                                                                   *)

\* p[i] is the sum of the first i values.
PartialSums(p, values) ==
    /\ p \in [0 .. Len(values) -> Int] /\ p[0] = 0
    /\ \A i \in 1 .. Len(values) : p[i] = p[i - 1] + values[i]

\* Sums of greater values are greater.
LEMMA SumsMonotone ==
    ASSUME NEW a \in Seq(Int), NEW b \in Seq(Int), Len(a) = Len(b),
           \A i \in 1 .. Len(a) : a[i] <= b[i],
           NEW p, PartialSums(p, a), NEW q, PartialSums(q, b)
    PROVE  p[Len(a)] <= q[Len(a)]
  <1> DEFINE n == Len(a)
             T == {i \in Nat : i \in 0 .. n => p[i] <= q[i]}
  <1>1. n \in Nat /\ \A i \in 1 .. n : a[i] \in Int /\ b[i] \in Int
    OBVIOUS
  <1>2. /\ p \in [0 .. n -> Int] /\ p[0] = 0
        /\ \A i \in 1 .. n : p[i] = p[i - 1] + a[i]
        /\ q \in [0 .. n -> Int] /\ q[0] = 0
        /\ \A i \in 1 .. n : q[i] = q[i - 1] + b[i]
    BY DEF PartialSums
  <1>3. \A i \in 1 .. n : a[i] <= b[i]
    OBVIOUS
  <1> HIDE DEF n
  <1>4. 0 \in T
    BY <1>2
  <1>5. \A i \in Nat : i \in T => i + 1 \in T
    <2> TAKE i \in Nat
    <2> SUFFICES ASSUME i \in T, i + 1 \in 0 .. n PROVE p[i + 1] <= q[i + 1]
      OBVIOUS
    <2>1. i + 1 \in 1 .. n /\ (i + 1) - 1 = i /\ i \in 0 .. n
      BY <1>1
    <2>2. /\ p[i + 1] = p[i] + a[i + 1] /\ q[i + 1] = q[i] + b[i + 1]
          /\ p[i] <= q[i] /\ p[i] \in Int /\ q[i] \in Int
      BY <1>2, <2>1
    <2> QED
      BY <1>1, <1>3, <2>1, <2>2
  <1> HIDE DEF T
  <1>6. n \in T
    BY <1>1, <1>4, <1>5, SetInduction
  <1> QED
    BY <1>1, <1>6 DEF T, n

\* Every value of a is the sum of those of b and c.
Adds(n, a, b, c) ==
    /\ a \in Seq(Int) /\ b \in Seq(Int) /\ c \in Seq(Int)
    /\ Len(a) = n /\ Len(b) = n /\ Len(c) = n
    /\ \A i \in 1 .. n : a[i] = b[i] + c[i]

\* The sums of the sums of two lists of values.
LEMMA SumsAdd ==
    ASSUME NEW n \in Nat,
           NEW a, NEW b, NEW c, Adds(n, a, b, c),
           NEW p, PartialSums(p, a), NEW q, PartialSums(q, b),
           NEW r, PartialSums(r, c)
    PROVE  p[n] = q[n] + r[n]
  <1> DEFINE T == {i \in Nat : i \in 0 .. n => p[i] = q[i] + r[i]}
  <1>1. n \in Nat /\ \A i \in 1 .. n : a[i] \in Int /\ b[i] \in Int /\ c[i] \in Int
        /\ a[i] = b[i] + c[i]
    BY DEF Adds
  <1>2. /\ p \in [0 .. n -> Int] /\ p[0] = 0
        /\ \A i \in 1 .. n : p[i] = p[i - 1] + a[i]
        /\ q \in [0 .. n -> Int] /\ q[0] = 0
        /\ \A i \in 1 .. n : q[i] = q[i - 1] + b[i]
        /\ r \in [0 .. n -> Int] /\ r[0] = 0
        /\ \A i \in 1 .. n : r[i] = r[i - 1] + c[i]
    BY DEF PartialSums, Adds
  <1>3. 0 \in T
    BY <1>2
  <1>4. \A i \in Nat : i \in T => i + 1 \in T
    <2> TAKE i \in Nat
    <2> SUFFICES ASSUME i \in T, i + 1 \in 0 .. n PROVE p[i + 1] = q[i + 1] + r[i + 1]
      OBVIOUS
    <2>1. i + 1 \in 1 .. n /\ (i + 1) - 1 = i /\ i \in 0 .. n
      BY <1>1
    <2>2. /\ p[i + 1] = p[i] + a[i + 1] /\ q[i + 1] = q[i] + b[i + 1]
          /\ r[i + 1] = r[i] + c[i + 1]
          /\ p[i] = q[i] + r[i] /\ q[i] \in Int /\ r[i] \in Int
      BY <1>2, <2>1
    <2> QED
      BY <1>1, <2>1, <2>2
  <1> HIDE DEF T
  <1>5. n \in T
    BY <1>1, <1>3, <1>4, SetInduction
  <1> QED
    BY <1>5 DEF T

\* g[s] is the sum of the values at s, whichever is added first.
IsSum(g, S, values) ==
    /\ g \in [SUBSET S -> Int] /\ g[{}] = 0
    /\ \A s \in SUBSET S : \A x \in s : g[s] = values[x] + g[s \ {x}]

\* Sums over positions exist.
LEMMA PositionSumExists ==
    ASSUME NEW n \in Nat, NEW values \in [1 .. n -> Int]
    PROVE  \E g : IsSum(g, 1 .. n, values)
  <1> DEFINE step == [x \in Int \X (1 .. n) |-> values[x[2]] + x[1]]
  <1>1. step \in [Int \X (1 .. n) -> Int]
    OBVIOUS
  <1>2. PICK g : IsFold(g, n, Int, 0, step)
    <2>1. 0 \in Int
      OBVIOUS
    <2> HIDE DEF step
    <2> QED
      BY <1>1, <2>1, FoldExists
  <1>3. /\ g \in [SUBSET (1 .. n) -> Int] /\ g[{}] = 0
        /\ \A s \in SUBSET (1 .. n) : s # {} =>
              Max(s) \in s /\ g[s] = values[Max(s)] + g[s \ {Max(s)}]
    <2>1. g \in [SUBSET (1 .. n) -> Int] /\ g[{}] = 0
      BY <1>2 DEF IsFold
    <2>2. ASSUME NEW s \in SUBSET (1 .. n), s # {}
          PROVE  Max(s) \in s /\ g[s] = values[Max(s)] + g[s \ {Max(s)}]
      <3>1. Max(s) \in s
        BY <2>2, MaxOf
      <3>2. <<g[s \ {Max(s)}], Max(s)>> \in Int \X (1 .. n)
        BY <2>1, <3>1
      <3>3. g[s] = step[<<g[s \ {Max(s)}], Max(s)>>]
        BY <1>2, <2>2 DEF IsFold
      <3> QED
        BY <3>1, <3>2, <3>3
    <2> QED
      BY <2>1, <2>2
  <1> HIDE DEF step
  <1> DEFINE Holds(k) == \A s \in SUBSET (1 .. k) : \A x \in s :
                            g[s] = values[x] + g[s \ {x}]
             T == {k \in Nat : k \in 0 .. n => Holds(k)}
  <1>4. \A k \in Nat : k \in T <=> (k \in 0 .. n => Holds(k))
    <2> HIDE DEF Holds
    <2> QED
      OBVIOUS
  <1> HIDE DEF T
  <1>5. 0 \in T
    <2>1. \A s \in SUBSET (1 .. 0) : \A x \in s : FALSE
      OBVIOUS
    <2>2. Holds(0)
      BY <2>1
    <2> HIDE DEF Holds
    <2> QED
      BY <1>4, <2>2
  <1>6. ASSUME NEW k \in Nat, k \in T
        PROVE  k + 1 \in T
    <2> HIDE DEF Holds
    <2> SUFFICES ASSUME k + 1 \in 0 .. n
                 PROVE  Holds(k + 1)
      BY <1>4
    <2> USE DEF Holds
    <2> SUFFICES ASSUME NEW s \in SUBSET (1 .. (k + 1)), NEW x \in s
                 PROVE  g[s] = values[x] + g[s \ {x}]
      OBVIOUS
    <2>1. Holds(k) /\ k \in 0 .. n
      <3>1. k \in 0 .. n
        OBVIOUS
      <3> HIDE DEF Holds
      <3> QED
        BY <1>6, <1>4, <3>1
    <2>2. CASE s \in SUBSET (1 .. k)
      BY <2>1, <2>2
    <2>3. CASE s \notin SUBSET (1 .. k)
      <3> DEFINE m == k + 1
                 rest == s \ {m}
      <3>1. m \in s /\ rest \in SUBSET (1 .. k) /\ Max(s) = m
        BY <2>3, LastOf
      <3>2. g[s] = values[m] + g[rest] /\ s \in SUBSET (1 .. n)
        <4>1. s \in SUBSET (1 .. n) /\ s # {}
          BY <3>1
        <4> QED
          BY <1>3, <3>1, <4>1
      <3>3. CASE x = m
        BY <3>2, <3>3
      <3>4. CASE x # m
        <4> DEFINE less == s \ {x}
        <4>1. /\ x \in rest /\ less \in SUBSET (1 .. (k + 1))
              /\ less \notin SUBSET (1 .. k) /\ less \ {m} = rest \ {x}
          BY <3>1, <3>4
        <4>2. Max(less) = m
          BY <4>1, LastOf
        <4>3. g[less] = values[m] + g[less \ {m}]
          <5>1. less \in SUBSET (1 .. n) /\ less # {}
            BY <3>1, <3>4
          <5> QED
            BY <1>3, <4>2, <5>1
        <4>4. g[rest] = values[x] + g[rest \ {x}]
          BY <2>1, <3>1, <4>1
        <4>5. /\ values[m] \in Int /\ values[x] \in Int /\ g[rest \ {x}] \in Int
          <5>1. rest \ {x} \in SUBSET (1 .. n) /\ m \in 1 .. n /\ x \in 1 .. n
            BY <3>1, <3>2
          <5> HIDE DEF m, rest, less
          <5> QED
            BY <1>3, <5>1
        <4> HIDE DEF m, rest, less
        <4>6. g[less] = values[m] + g[rest \ {x}]
              /\ g[s] = values[m] + (values[x] + g[rest \ {x}])
          BY <3>2, <4>1, <4>3, <4>4
        <4>7. g[s] = values[x] + g[less]
          BY <4>5, <4>6
        <4> QED
          BY <4>7 DEF less
      <3> QED
        BY <3>3, <3>4
    <2> QED
      BY <2>2, <2>3
  <1>7. n \in T
    BY <1>5, <1>6, SetInduction
  <1>8. Holds(n)
    <2>1. n \in 0 .. n
      OBVIOUS
    <2> HIDE DEF Holds
    <2> QED
      BY <1>7, <1>4, <2>1
  <1>9. IsSum(g, 1 .. n, values)
    BY <1>3, <1>8 DEF IsSum
  <1> QED
    BY <1>9, Zenon

\* Sums over finite sets exist.
LEMMA SumExists ==
    ASSUME NEW S, IsFiniteSet(S), NEW values \in [S -> Int]
    PROVE  \E g : IsSum(g, S, values)
  <1>1. PICK n \in Nat : ExistsBijection(1 .. n, S)
    BY FS_NatBijection
  <1>2. PICK f \in Bijection(1 .. n, S) : TRUE
    BY <1>1 DEF ExistsBijection
  <1>3. /\ f \in [1 .. n -> S]
        /\ \A i, j \in 1 .. n : f[i] = f[j] => i = j
        /\ \A x \in S : \E i \in 1 .. n : f[i] = x
    BY <1>2 DEF Bijection, Injection, Surjection, IsInjective
  <1> DEFINE along == [i \in 1 .. n |-> values[f[i]]]
  <1>4. along \in [1 .. n -> Int]
    BY <1>3
  <1> HIDE DEF along
  <1>5. PICK h : IsSum(h, 1 .. n, along)
    BY <1>4, PositionSumExists
  <1> DEFINE At(W) == {i \in 1 .. n : f[i] \in W}
             g     == [W \in SUBSET S |-> h[At(W)]]
  <1>6. /\ h \in [SUBSET (1 .. n) -> Int] /\ h[{}] = 0
        /\ \A s \in SUBSET (1 .. n) : \A i \in s : h[s] = along[i] + h[s \ {i}]
    BY <1>5 DEF IsSum
  <1>7. \A W : At(W) \in SUBSET (1 .. n)
    OBVIOUS
  <1>8. At({}) = {}
    OBVIOUS
  <1>9. ASSUME NEW W \in SUBSET S, NEW x \in W
        PROVE  \E i \in At(W) : along[i] = values[x] /\ At(W \ {x}) = At(W) \ {i}
    <2>1. PICK i \in 1 .. n : f[i] = x
      BY <1>3
    <2>2. i \in At(W) /\ along[i] = values[x]
      BY <2>1 DEF along
    <2>3. At(W \ {x}) = At(W) \ {i}
      BY <1>3, <2>1
    <2> HIDE DEF At
    <2> QED
      BY <2>2, <2>3
  <1> HIDE DEF At
  <1>10. g \in [SUBSET S -> Int] /\ g[{}] = 0
    BY <1>6, <1>7, <1>8
  <1>11. ASSUME NEW W \in SUBSET S, NEW x \in W
         PROVE  g[W] = values[x] + g[W \ {x}]
    <2>1. PICK i \in At(W) : along[i] = values[x] /\ At(W \ {x}) = At(W) \ {i}
      BY <1>9
    <2>2. h[At(W)] = along[i] + h[At(W) \ {i}]
      BY <1>6, <1>7
    <2>3. W \ {x} \in SUBSET S
      OBVIOUS
    <2> QED
      BY <2>1, <2>2, <2>3
  <1> HIDE DEF g
  <1>12. IsSum(g, S, values)
    BY <1>10, <1>11 DEF IsSum
  <1> QED
    BY <1>12, Zenon

\* h is the recursive function with which the community modules add up f.
AddsUp(h, f) ==
    h = [s \in SUBSET (DOMAIN f) |->
            IF s = {} THEN 0
            ELSE f[CHOOSE x \in s : TRUE] + h[s \ {CHOOSE x \in s : TRUE}]]

LEMMA SumIsRecursive ==
    ASSUME NEW f, \E h : AddsUp(h, f)
    PROVE  \E h : AddsUp(h, f) /\ SumFunction(f) = h[DOMAIN f]
  BY Zenon DEF AddsUp, SumFunction, SumFunctionOnSet, FoldFunctionOnSet,
               MapThenFoldSet

\* f is a part of the values that g adds up.
IsPart(f, g, S, values) ==
    /\ IsSum(g, S, values)
    /\ DOMAIN f \in SUBSET S /\ \A x \in DOMAIN f : f[x] = values[x]

\* The sum does not depend on the order they choose.
LEMMA SumOfFunction ==
    ASSUME NEW S, IsFiniteSet(S), NEW values, NEW f, NEW g, IsPart(f, g, S, values)
    PROVE  SumFunction(f) = g[DOMAIN f]
  <1> DEFINE W == DOMAIN f
             r == [s \in SUBSET W |-> g[s]]
  <1>1. /\ g[{}] = 0
        /\ \A s \in SUBSET S : \A x \in s : g[s] = values[x] + g[s \ {x}]
        /\ W \in SUBSET S /\ \A x \in W : f[x] = values[x]
    BY DEF IsPart, IsSum
  <1> HIDE DEF W
  <1>2. r = [s \in SUBSET W |->
                IF s = {} THEN 0
                ELSE f[CHOOSE x \in s : TRUE] + r[s \ {CHOOSE x \in s : TRUE}]]
    <2>1. ASSUME NEW s \in SUBSET W, s # {}, NEW x \in s
          PROVE  g[s] = f[x] + r[s \ {x}]
      <3>1. s \in SUBSET S /\ x \in W /\ s \ {x} \in SUBSET W
        BY <1>1
      <3>2. g[s] = values[x] + g[s \ {x}]
        BY <1>1, <3>1
      <3> QED
        BY <1>1, <3>1, <3>2
    <2>2. ASSUME NEW s \in SUBSET W, s # {}
          PROVE  (CHOOSE x \in s : TRUE) \in s
      <3>1. \E x \in s : TRUE
        BY <2>2
      <3> QED
        BY <3>1
    <2>3. ASSUME NEW s \in SUBSET W
          PROVE  g[s] = IF s = {} THEN 0
                        ELSE f[CHOOSE x \in s : TRUE] + r[s \ {CHOOSE x \in s : TRUE}]
      <3> HIDE DEF r
      <3> QED
        BY <1>1, <2>1, <2>2
    <2> QED
      BY <2>3
  <1>3. PICK h : AddsUp(h, f) /\ SumFunction(f) = h[W]
    <2> HIDE DEF r
    <2>1. AddsUp(r, f)
      BY <1>2, Zenon DEF AddsUp, W
    <2> QED
      BY <2>1, SumIsRecursive, Zenon DEF W
  <1>4. /\ h[{}] = 0
        /\ \A s \in SUBSET W : s # {} =>
              \E x \in s : h[s] = values[x] + h[s \ {x}]
    <2>1. ASSUME NEW s \in SUBSET W, s # {}
          PROVE  \E x \in s : h[s] = values[x] + h[s \ {x}]
      <3> DEFINE x == CHOOSE y \in s : TRUE
      <3>1. x \in s
        <4>1. \E y \in s : TRUE
          BY <2>1
        <4> QED
          BY <4>1
      <3>2. h[s] = f[x] + h[s \ {x}]
        BY <1>3, <2>1 DEF AddsUp, W
      <3> HIDE DEF x
      <3> QED
        BY <1>1, <3>1, <3>2
    <2>2. h[{}] = 0
      BY <1>3 DEF AddsUp, W
    <2> QED
      BY <2>1, <2>2
  <1>5. IsFiniteSet(W)
    BY <1>1, FS_Subset
  <1> DEFINE T == {k \in Nat : \A s \in SUBSET W : Cardinality(s) = k => h[s] = g[s]}
  <1>6. 0 \in T
    <2> SUFFICES ASSUME NEW s \in SUBSET W, Cardinality(s) = 0 PROVE h[s] = g[s]
      OBVIOUS
    <2>1. s = {}
      BY <1>5, FS_Subset, FS_EmptySet
    <2> QED
      BY <1>1, <1>4, <2>1
  <1>7. ASSUME NEW k \in Nat, k \in T PROVE k + 1 \in T
    <2> SUFFICES ASSUME NEW s \in SUBSET W, Cardinality(s) = k + 1 PROVE h[s] = g[s]
      OBVIOUS
    <2>1. IsFiniteSet(s)
      BY <1>5, FS_Subset
    <2>2. s # {}
      BY <2>1, FS_EmptySet
    <2>3. PICK x \in s : h[s] = values[x] + h[s \ {x}]
      BY <1>4, <2>2
    <2>4. Cardinality(s \ {x}) = k
      <3>1. Cardinality(s \ {x}) = Cardinality(s) - 1
        BY <2>1, FS_RemoveElement
      <3> QED
        BY <3>1
    <2>5. h[s \ {x}] = g[s \ {x}]
      BY <1>7, <2>4
    <2>6. g[s] = values[x] + g[s \ {x}]
      BY <1>1
    <2> QED
      BY <2>3, <2>5, <2>6
  <1> HIDE DEF T
  <1>8. Cardinality(W) \in T
    <2>1. Cardinality(W) \in Nat
      BY <1>5, FS_CardinalityType
    <2> QED
      BY <1>6, <1>7, <2>1, SetInduction
  <1>9. h[W] = g[W]
    BY <1>8 DEF T
  <1> QED
    BY <1>3, <1>9 DEF W

\* A sum of ones counts.
LEMMA SumOfOnes ==
    ASSUME NEW S, IsFiniteSet(S), NEW values, \A x \in S : values[x] = 1,
           NEW g, IsSum(g, S, values)
    PROVE  g[S] = Cardinality(S)
  <1> DEFINE T == {k \in Nat : \A s \in SUBSET S : Cardinality(s) = k => g[s] = k}
  <1>1. /\ g[{}] = 0
        /\ \A s \in SUBSET S : \A x \in s : g[s] = 1 + g[s \ {x}]
    BY DEF IsSum
  <1>2. ASSUME NEW s \in SUBSET S
        PROVE  IsFiniteSet(s) /\ (Cardinality(s) = 0 <=> s = {})
    BY FS_Subset, FS_EmptySet
  <1>3. 0 \in T
    BY <1>1, <1>2
  <1>4. ASSUME NEW k \in Nat, k \in T PROVE k + 1 \in T
    <2> SUFFICES ASSUME NEW s \in SUBSET S, Cardinality(s) = k + 1 PROVE g[s] = k + 1
      OBVIOUS
    <2>1. PICK x : x \in s
      BY <1>2
    <2>2. Cardinality(s \ {x}) = Cardinality(s) - 1
      BY <1>2, <2>1, FS_RemoveElement
    <2>3. g[s \ {x}] = k
      BY <1>4, <2>2
    <2>4. g[s] = 1 + g[s \ {x}]
      BY <1>1, <2>1
    <2> QED
      BY <2>3, <2>4
  <1> HIDE DEF T
  <1>5. Cardinality(S) \in T
    <2>1. Cardinality(S) \in Nat
      BY FS_CardinalityType
    <2> QED
      BY <1>3, <1>4, <2>1, SetInduction
  <1> QED
    BY <1>5 DEF T

-----------------------------------------------------------------------------
(* Sorting.                                                                *)

\* p puts the positions 1 .. k in an order in which R holds.
IsOrder(p, k, R) ==
    /\ p \in Bijection(1 .. k, 1 .. k)
    /\ \A i, j \in 1 .. k : i < j => <<p[i], p[j]>> \in R

\* An order of k positions is one of k + 1 once the last of them has been
\* inserted before the first it need not follow.
LEMMA InsertLast ==
    ASSUME NEW k \in Nat, NEW R,
           \A i, j \in 1 .. (k + 1) : <<i, j>> \in R \/ <<j, i>> \in R,
           \A i, j, l \in 1 .. (k + 1) :
              <<i, j>> \in R /\ <<j, l>> \in R => <<i, l>> \in R,
           NEW p, IsOrder(p, k, R)
    PROVE  \E q : IsOrder(q, k + 1, R)
  <1> DEFINE later == {j \in 1 .. k : <<k + 1, p[j]>> \in R} \cup {k + 1}
  <1>1. /\ p \in [1 .. k -> 1 .. k]
        /\ \A i, j \in 1 .. k : p[i] = p[j] => i = j
        /\ \A y \in 1 .. k : \E i \in 1 .. k : p[i] = y
        /\ \A i, j \in 1 .. k : i < j => <<p[i], p[j]>> \in R
    BY DEF IsOrder, Bijection, Injection, Surjection, IsInjective
  <1>2. later \subseteq Nat /\ later # {}
    OBVIOUS
  <1>3. PICK at \in later : \A j \in later : at <= j
    BY <1>2, LeastNat
  <1>4. /\ at \in 1 .. (k + 1)
        /\ \A i \in 1 .. k : i < at => <<p[i], k + 1>> \in R
        /\ at # k + 1 => <<k + 1, p[at]>> \in R
    <2>1. at \in 1 .. (k + 1) /\ (at # k + 1 => <<k + 1, p[at]>> \in R)
      OBVIOUS
    <2>2. ASSUME NEW i \in 1 .. k, i < at PROVE <<p[i], k + 1>> \in R
      <3>1. <<k + 1, p[i]>> \notin R
        BY <1>3, <2>1, <2>2
      <3>2. p[i] \in 1 .. (k + 1) /\ k + 1 \in 1 .. (k + 1)
        BY <1>1
      <3> QED
        BY <3>1, <3>2
    <2> QED
      BY <2>1, <2>2
  <1> HIDE DEF later
  <1>5. \A i \in 1 .. k : at <= i => <<k + 1, p[i]>> \in R
    <2> TAKE i \in 1 .. k
    <2> HAVE at <= i
    <2>1. at \in 1 .. k /\ <<k + 1, p[at]>> \in R
      BY <1>4
    <2>2. at = i \/ <<p[at], p[i]>> \in R
      BY <1>1, <2>1
    <2>3. p[at] \in 1 .. (k + 1) /\ p[i] \in 1 .. (k + 1) /\ k + 1 \in 1 .. (k + 1)
      <3>1. p[at] \in 1 .. k /\ p[i] \in 1 .. k
        BY <1>1, <2>1
      <3> QED
        BY <3>1
    <2> QED
      BY <2>1, <2>2, <2>3
  <1> DEFINE q == [i \in 1 .. (k + 1) |->
                      IF i < at THEN p[i] ELSE IF i = at THEN k + 1 ELSE p[i - 1]]
  <1>6. /\ \A i \in 1 .. (k + 1) : i < at => i \in 1 .. k /\ q[i] = p[i]
        /\ q[at] = k + 1
        /\ \A i \in 1 .. (k + 1) : at < i => i - 1 \in 1 .. k /\ q[i] = p[i - 1]
    BY <1>4
  <1>7. q \in [1 .. (k + 1) -> 1 .. (k + 1)]
    <2>1. \A i \in 1 .. k : p[i] \in 1 .. (k + 1)
      BY <1>1
    <2>2. \A i \in 1 .. (k + 1) : at < i => i - 1 \in 1 .. k
      BY <1>4
    <2>3. \A i \in 1 .. (k + 1) : i < at => i \in 1 .. k
      BY <1>4
    <2>4. \A i \in 1 .. (k + 1) : q[i] \in 1 .. (k + 1)
      BY <1>4, <2>1, <2>2, <2>3
    <2> QED
      BY <2>4
  <1> HIDE DEF q
  <1>8. ASSUME NEW i \in 1 .. (k + 1), NEW j \in 1 .. (k + 1), i < j
        PROVE  <<q[i], q[j]>> \in R /\ q[i] # q[j]
    <2>1. CASE j < at
      <3>1. i \in 1 .. k /\ j \in 1 .. k /\ q[i] = p[i] /\ q[j] = p[j]
        BY <1>4, <1>6, <1>8, <2>1
      <3>2. <<p[i], p[j]>> \in R /\ (p[i] = p[j] => i = j)
        BY <1>1, <1>8, <3>1
      <3> QED
        BY <1>8, <3>1, <3>2
    <2>2. CASE j = at
      <3>1. i \in 1 .. k /\ q[i] = p[i] /\ q[j] = k + 1 /\ p[i] \in 1 .. k
        BY <1>1, <1>6, <1>8, <2>2
      <3> QED
        BY <1>4, <1>8, <2>2, <3>1
    <2>3. CASE at < j /\ i < at
      <3>1. i \in 1 .. k /\ q[i] = p[i] /\ j - 1 \in 1 .. k /\ q[j] = p[j - 1] /\ i < j - 1
        BY <1>4, <1>6, <2>3
      <3> QED
        BY <1>1, <3>1
    <2>4. CASE at < j /\ i = at
      <3>1. q[i] = k + 1 /\ j - 1 \in 1 .. k /\ q[j] = p[j - 1]
        BY <1>4, <1>6, <2>4
      <3>2. at <= j - 1 /\ p[j - 1] \in 1 .. k
        BY <1>1, <1>4, <2>4, <3>1
      <3>3. <<k + 1, p[j - 1]>> \in R
        BY <1>5, <3>1, <3>2
      <3> QED
        BY <3>1, <3>2, <3>3
    <2>5. CASE at < j /\ at < i
      <3>1. /\ i - 1 \in 1 .. k /\ q[i] = p[i - 1]
            /\ j - 1 \in 1 .. k /\ q[j] = p[j - 1] /\ i - 1 < j - 1
        BY <1>6, <1>8, <2>5
      <3> QED
        BY <1>1, <3>1
    <2> QED
      BY <1>4, <2>1, <2>2, <2>3, <2>4, <2>5
  <1>9. \A i, j \in 1 .. (k + 1) : q[i] = q[j] => i = j
    <2> TAKE i, j \in 1 .. (k + 1)
    <2>1. i = j \/ i < j \/ j < i
      OBVIOUS
    <2> QED
      BY <1>8, <2>1
  <1>10. ASSUME NEW y \in 1 .. (k + 1)
         PROVE  \E i \in 1 .. (k + 1) : q[i] = y
    <2>1. CASE y = k + 1
      BY <1>4, <1>6, <2>1
    <2>2. CASE y # k + 1
      <3>1. PICK i \in 1 .. k : p[i] = y
        BY <1>1, <2>2
      <3>2. CASE i < at
        <4>1. i \in 1 .. (k + 1) /\ q[i] = y
          BY <1>6, <3>1, <3>2
        <4> QED
          BY <4>1
      <3>3. CASE at <= i
        <4>1. i + 1 \in 1 .. (k + 1) /\ at < i + 1 /\ (i + 1) - 1 = i
          BY <1>4, <3>3
        <4>2. q[i + 1] = y
          BY <1>6, <3>1, <4>1
        <4> QED
          BY <4>1, <4>2
      <3> QED
        BY <1>4, <3>2, <3>3
    <2> QED
      BY <2>1, <2>2
  <1>11. q \in Bijection(1 .. (k + 1), 1 .. (k + 1))
    BY <1>7, <1>9, <1>10 DEF Bijection, Injection, Surjection, IsInjective
  <1>12. IsOrder(q, k + 1, R)
    BY <1>8, <1>11 DEF IsOrder
  <1> QED
    BY <1>12

\* Every total preorder of positions can be sorted.
LEMMA SortingOrder ==
    ASSUME NEW n \in Nat, NEW R,
           \A i, j \in 1 .. n : <<i, j>> \in R \/ <<j, i>> \in R,
           \A i, j, k \in 1 .. n :
              <<i, j>> \in R /\ <<j, k>> \in R => <<i, k>> \in R
    PROVE  \E p : IsOrder(p, n, R)
  <1> DEFINE P(k) == k <= n => \E p : IsOrder(p, k, R)
             T    == {k \in Nat : P(k)}
  <1> HIDE DEF P
  <1>1. \A k \in Nat : k \in T <=> P(k)
    OBVIOUS
  <1> HIDE DEF T
  <1>2. P(0)
    <2> DEFINE p == [i \in 1 .. 0 |-> i]
    <2>1. IsOrder(p, 0, R)
      BY DEF IsOrder, Bijection, Injection, Surjection, IsInjective
    <2> QED
      BY <2>1, Zenon DEF P
  <1>3. ASSUME NEW k \in Nat, P(k) PROVE P(k + 1)
    <2> SUFFICES ASSUME k + 1 <= n PROVE \E q : IsOrder(q, k + 1, R)
      BY Zenon DEF P
    <2>1. k <= n /\ \A i \in 1 .. (k + 1) : i \in 1 .. n
      OBVIOUS
    <2>2. PICK p : IsOrder(p, k, R)
      BY <1>3, <2>1, Zenon DEF P
    <2>3. \A i, j \in 1 .. (k + 1) : <<i, j>> \in R \/ <<j, i>> \in R
      BY <2>1
    <2>4. \A i, j, l \in 1 .. (k + 1) :
              <<i, j>> \in R /\ <<j, l>> \in R => <<i, l>> \in R
      BY <2>1
    <2> QED
      BY <2>2, <2>3, <2>4, InsertLast
  <1>4. P(n)
    BY <1>1, <1>2, <1>3, SetInduction
  <1>5. n <= n
    OBVIOUS
  <1> QED
    BY <1>4, <1>5, Zenon DEF P

-----------------------------------------------------------------------------
(* Ranges.                                                                 *)

\* The range of a worker ends where the range of the next one begins.
LEMMA RangesAdjacent ==
    ASSUME NEW n \in Nat, NEW k \in Nat \ {0}, NEW w \in Nat
    PROVE  RangeEnd(n, k, w) = RangeBegin(n, k, w + 1)
  <1> DEFINE q == n \div k
             r == n % k
  <1>1. q \in Nat /\ r \in Nat
    BY QuotientRemainder
  <1>2. RangeEnd(n, k, w) = q * w + Lesser(w, r) + q + (IF w < r THEN 1 ELSE 0)
    BY DEF RangeEnd, RangeBegin
  <1>3. RangeBegin(n, k, w + 1) = q * (w + 1) + Lesser(w + 1, r)
    BY DEF RangeBegin
  <1> HIDE DEF q, r
  <1>4. q * (w + 1) = q * w + q /\ q * w \in Nat
    BY <1>1
  <1> QED
    BY <1>1, <1>2, <1>3, <1>4 DEF Lesser

\* The first range starts at id 0 and the last one ends at n.
LEMMA RangesSpan ==
    ASSUME NEW n \in Nat, NEW k \in Nat \ {0}
    PROVE  RangeBegin(n, k, 0) = 0 /\ RangeBegin(n, k, k) = n
  <1> DEFINE q == n \div k
             r == n % k
  <1>1. q \in Nat /\ r \in Nat /\ r < k /\ n = k * q + r
    BY QuotientRemainder
  <1>2. RangeBegin(n, k, 0) = q * 0 + Lesser(0, r)
    BY DEF RangeBegin
  <1>3. RangeBegin(n, k, k) = q * k + Lesser(k, r)
    BY DEF RangeBegin
  <1> HIDE DEF q, r
  <1>4. q * 0 = 0 /\ q * k = k * q
    BY <1>1
  <1>5. Lesser(0, r) = 0 /\ Lesser(k, r) = r
    BY <1>1 DEF Lesser
  <1> QED
    BY <1>1, <1>2, <1>3, <1>4, <1>5

\* RangeBegin never decreases: the ranges are laid out in worker order.
LEMMA RangesOrdered ==
    ASSUME NEW n \in Nat, NEW k \in Nat \ {0},
           NEW v \in Nat, NEW w \in Nat, v <= w
    PROVE  /\ RangeBegin(n, k, v) <= RangeBegin(n, k, w)
           /\ RangeBegin(n, k, v) \in Nat
           /\ RangeBegin(n, k, w) \in Nat
  <1> DEFINE q == n \div k
             r == n % k
  <1>1. q \in Nat /\ r \in Nat
    BY QuotientRemainder
  <1>2. /\ RangeBegin(n, k, v) = q * v + Lesser(v, r)
        /\ RangeBegin(n, k, w) = q * w + Lesser(w, r)
    BY DEF RangeBegin
  <1> HIDE DEF q, r
  <1>3. q * v <= q * w /\ q * v \in Nat /\ q * w \in Nat
    BY <1>1, ProductMonotone
  <1> QED
    BY <1>1, <1>2, <1>3 DEF Lesser

\* The range of each of the k workers lies inside 0 .. n-1, and it is not
\* empty because there are never more workers than scenarios.
LEMMA RangeInBounds ==
    ASSUME NEW n \in Nat, NEW k \in 1 .. n, NEW w \in 0 .. (k - 1)
    PROVE  /\ RangeBegin(n, k, w) \in Nat
           /\ RangeEnd(n, k, w) \in Nat
           /\ RangeBegin(n, k, w) < RangeEnd(n, k, w)
           /\ RangeEnd(n, k, w) <= n
  <1>1. k \in Nat \ {0} /\ w \in Nat /\ w + 1 \in Nat /\ w + 1 <= k /\ k \in Nat
    OBVIOUS
  <1>2. RangeEnd(n, k, w) = RangeBegin(n, k, w + 1)
    BY <1>1, RangesAdjacent
  <1>3. /\ RangeBegin(n, k, w + 1) <= RangeBegin(n, k, k)
        /\ RangeBegin(n, k, w + 1) \in Nat
    BY <1>1, RangesOrdered
  <1>4. RangeBegin(n, k, w) \in Nat
    BY <1>1, RangesOrdered
  <1>5. RangeBegin(n, k, k) = n
    BY <1>1, RangesSpan
  <1>6. n \div k \in Nat /\ n \div k # 0
    <2> DEFINE q == n \div k
               r == n % k
    <2>1. q \in Nat /\ r \in Nat /\ r < k /\ n = k * q + r
      BY <1>1, QuotientRemainder
    <2> HIDE DEF q, r
    <2>2. CASE q = 0
      <3>1. k * q = 0
        BY <1>1, <2>2
      <3> QED
        BY <1>1, <2>1, <3>1
    <2>3. CASE q # 0
      BY <2>1, <2>3 DEF q
    <2> QED
      BY <2>2, <2>3
  <1>7. RangeEnd(n, k, w) = RangeBegin(n, k, w) + n \div k
                            + (IF w < n % k THEN 1 ELSE 0)
    BY DEF RangeEnd
  <1>8. RangeBegin(n, k, w) < RangeEnd(n, k, w)
    BY <1>1, <1>4, <1>6, <1>7
  <1> QED
    BY <1>2, <1>3, <1>4, <1>5, <1>8

\* Two workers share no scenario id: a slot of generated_shocks has one writer.
THEOREM RangesDisjoint ==
    ASSUME NEW n \in Nat, NEW k \in 1 .. n,
           NEW v \in 0 .. (k - 1), NEW w \in 0 .. (k - 1), v # w
    PROVE  RangeOf(n, k, v) \cap RangeOf(n, k, w) = {}
  <1>1. ASSUME NEW a \in 0 .. (k - 1), NEW b \in 0 .. (k - 1), a < b
        PROVE  RangeEnd(n, k, a) <= RangeBegin(n, k, b)
    <2>1. /\ k \in Nat \ {0} /\ a \in Nat /\ b \in Nat
          /\ a + 1 \in Nat /\ a + 1 <= b
      BY <1>1
    <2> QED
      BY <2>1, RangesAdjacent, RangesOrdered
  <1>2. /\ RangeBegin(n, k, v) \in Nat /\ RangeEnd(n, k, v) \in Nat
        /\ RangeBegin(n, k, w) \in Nat /\ RangeEnd(n, k, w) \in Nat
    BY RangeInBounds
  <1>3. RangeEnd(n, k, v) <= RangeBegin(n, k, w)
        \/ RangeEnd(n, k, w) <= RangeBegin(n, k, v)
    BY <1>1
  <1> QED
    BY <1>2, <1>3 DEF RangeOf

\* Every scenario id belongs to the range of some worker: no slot of
\* generated_shocks is left with its default (empty) map.
THEOREM RangesCover ==
    ASSUME NEW n \in Nat, NEW k \in 1 .. n, NEW id \in 0 .. (n - 1)
    PROVE  \E w \in 0 .. (k - 1) : id \in RangeOf(n, k, w)
  <1> DEFINE q == n \div k
             r == n % k
  <1>1. q \in Nat /\ r \in Nat /\ r < k /\ n = k * q + r
    BY QuotientRemainder
  <1>2. \A w : RangeBegin(n, k, w) = q * w + Lesser(w, r)
    BY DEF RangeBegin
  <1>3. \A w : RangeEnd(n, k, w) = q * w + Lesser(w, r) + q
                                   + (IF w < r THEN 1 ELSE 0)
    BY DEF RangeEnd, RangeBegin
  <1>4. id \in Nat /\ id < n /\ k \in Nat /\ k > 0 /\ k <= n
    OBVIOUS
  <1> HIDE DEF q, r
  <1>5. q # 0
    <2> SUFFICES ASSUME q = 0 PROVE FALSE
      OBVIOUS
    <2>1. k * q = 0
      BY <1>4
    <2> QED
      BY <1>1, <1>4, <2>1
  <1>6. r * (q + 1) \in Nat /\ q + 1 \in Nat \ {0} /\ q \in Nat \ {0}
    BY <1>1, <1>5
  <1>7. CASE id < r * (q + 1)
    <2> DEFINE w == id \div (q + 1)
               e == id % (q + 1)
    <2>1. w \in Nat /\ e \in Nat /\ e < q + 1 /\ id = (q + 1) * w + e
      BY <1>4, <1>6, QuotientRemainder
    <2> HIDE DEF w, e
    <2>2. w < r
      <3> SUFFICES ASSUME r <= w PROVE FALSE
        BY <1>1, <2>1
      <3>1. (q + 1) * r <= (q + 1) * w
        BY <1>1, <1>6, <2>1, ProductMonotone
      <3>2. r * (q + 1) = (q + 1) * r /\ (q + 1) * w \in Nat
        BY <1>1, <2>1
      <3> QED
        BY <1>6, <1>7, <2>1, <3>1, <3>2
    <2>3. (q + 1) * w = q * w + w /\ q * w \in Nat
      BY <1>1, <2>1
    <2>4. RangeBegin(n, k, w) = q * w + w /\ RangeEnd(n, k, w) = q * w + w + q + 1
      BY <1>1, <1>2, <1>3, <2>1, <2>2, <2>3 DEF Lesser
    <2>5. id \in RangeOf(n, k, w)
      BY <1>1, <1>4, <2>1, <2>3, <2>4 DEF RangeOf
    <2>6. w \in 0 .. (k - 1)
      BY <1>1, <1>4, <2>1, <2>2
    <2> QED
      BY <2>5, <2>6
  <1>8. CASE ~(id < r * (q + 1))
    <2> DEFINE m == id - r * (q + 1)
               d == m \div q
               e == m % q
               w == r + d
    <2>1. m \in Nat /\ id = r * (q + 1) + m
      BY <1>4, <1>6, <1>8
    <2> HIDE DEF m
    <2>2. d \in Nat /\ e \in Nat /\ e < q /\ m = q * d + e
      BY <1>6, <2>1, QuotientRemainder
    <2> HIDE DEF d, e
    <2>3. w \in Nat /\ ~(w < r)
      BY <1>1, <2>2
    <2>4. q * w = q * r + q * d /\ r * (q + 1) = q * r + r
          /\ q * r \in Nat /\ q * d \in Nat
      BY <1>1, <2>2
    <2>5. RangeBegin(n, k, w) = q * w + r /\ RangeEnd(n, k, w) = q * w + r + q
      <3>1. Lesser(w, r) = r
        BY <1>1, <2>3 DEF Lesser
      <3>2. q * w \in Nat
        BY <1>1, <2>3
      <3> HIDE DEF w
      <3> QED
        BY <1>1, <1>2, <1>3, <2>3, <3>1, <3>2
    <2>6. id \in RangeOf(n, k, w)
      <3> HIDE DEF w
      <3> QED
        BY <1>1, <1>4, <2>1, <2>2, <2>4, <2>5 DEF RangeOf
    <2>7. w < k
      <3> SUFFICES ASSUME k <= w PROVE FALSE
        BY <1>4, <2>3
      <3>1. q * k <= q * w /\ q * k = k * q
        BY <1>1, <1>4, <2>3, ProductMonotone
      <3> HIDE DEF w
      <3>2. q * w + r <= id
        BY <1>1, <2>1, <2>2, <2>3, <2>4
      <3>3. k * q \in Nat /\ q * w \in Nat
        BY <1>1, <1>4, <2>3
      <3> QED
        BY <1>1, <1>4, <3>1, <3>2, <3>3
    <2> QED
      BY <1>4, <2>3, <2>6, <2>7
  <1> QED
    BY <1>7, <1>8

\* No two workers differ by more than one scenario: the work is balanced.
THEOREM RangesBalanced ==
    ASSUME NEW n \in Nat, NEW k \in 1 .. n,
           NEW v \in 0 .. (k - 1), NEW w \in 0 .. (k - 1)
    PROVE  RangeEnd(n, k, v) - RangeBegin(n, k, v)
             <= RangeEnd(n, k, w) - RangeBegin(n, k, w) + 1
  <1>1. n \div k \in Nat
    BY QuotientRemainder
  <1>2. RangeBegin(n, k, v) \in Nat /\ RangeBegin(n, k, w) \in Nat
    BY RangeInBounds
  <1>3. /\ RangeEnd(n, k, v) = RangeBegin(n, k, v) + n \div k
                               + (IF v < n % k THEN 1 ELSE 0)
        /\ RangeEnd(n, k, w) = RangeBegin(n, k, w) + n \div k
                               + (IF w < n % k THEN 1 ELSE 0)
    BY DEF RangeEnd
  <1> QED
    BY <1>1, <1>2, <1>3
=============================================================================
