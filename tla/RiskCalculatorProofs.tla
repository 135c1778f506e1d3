-------------------------- MODULE RiskCalculatorProofs --------------------------
(***************************************************************************)
(* What the metrics mean, for every list of results, confidence level and  *)
(* number of worst scenarios.  The argument: sorting permutes the results, *)
(* the results up to the VaR observation are the first VarIndex + 1 of the *)
(* permutation, and rounding the share up to a rank is off by nothing but  *)
(* the rounding of the product.                                            *)
(***************************************************************************)
EXTENDS RiskCalculator, ArithmeticProofs, FiniteSetTheorems

-----------------------------------------------------------------------------
(* Sums of doubles.                                                        *)

\* Total is the last of the sums an accumulator goes through.
LEMMA TotalByPrefixes ==
    ASSUME NEW values \in Seq(Int)
    PROVE  \E p \in [0 .. Len(values) -> Int] :
              /\ p[0] = 0 /\ p[Len(values)] = Total(values)
              /\ \A i \in 1 .. Len(values) : p[i] = Plus(p[i - 1], values[i])
  <1> DEFINE n == Len(values)
             D == SUBSET (1 .. n)
             step == [x \in Int \X (1 .. n) |-> Plus(x[1], values[x[2]])]
  <1>1. n \in Nat /\ DOMAIN values = 1 .. n /\ \A i \in 1 .. n : values[i] \in Int
    OBVIOUS
  <1> HIDE DEF n
  <1>2. \A x \in Int, y \in Int : Plus(x, y) \in Int
    BY MaxFiniteAssumption DEF Plus, Saturate, Infinity
  <1>3. step \in [Int \X (1 .. n) -> Int]
    BY <1>1, <1>2
  <1>4. PICK g : IsFold(g, n, Int, 0, step)
    <2>1. n \in Nat /\ 0 \in Int
      BY <1>1
    <2> HIDE DEF step
    <2> QED
      BY <1>3, <2>1, FoldExists
  <1>5. g = [s \in D |-> IF s = {} THEN 0
                         ELSE Plus(g[s \ {Max(s)}], values[Max(s)])]
    <2>1. ASSUME NEW s \in D, s # {}
          PROVE  step[<<g[s \ {Max(s)}], Max(s)>>]
                   = Plus(g[s \ {Max(s)}], values[Max(s)])
      <3>1. Max(s) \in 1 .. n
        BY <1>1, <2>1, MaxOf
      <3>2. <<g[s \ {Max(s)}], Max(s)>> \in Int \X (1 .. n)
        BY <1>4, <3>1 DEF IsFold
      <3> QED
        BY <3>2
    <2> HIDE DEF step
    <2> QED
      BY <1>4, <2>1 DEF IsFold
  <1>6. PICK h : /\ h = [s \in D |-> IF s = {} THEN 0
                                     ELSE Plus(h[s \ {Max(s)}], values[Max(s)])]
                 /\ Total(values) = h[1 .. n]
    BY <1>1, <1>5, Zenon DEF Total, FoldLeft, MapThenFoldSet
  <1> DEFINE p == [i \in 0 .. n |-> h[1 .. i]]
  <1>7. p[0] = 0
    <2>1. h[{}] = 0
      BY <1>6
    <2> QED
      BY <1>1, <2>1
  <1>8. \A i \in 1 .. n : p[i] = Plus(p[i - 1], values[i])
    <2> TAKE i \in 1 .. n
    <2>1. 1 .. i \in D /\ i \in Nat \ {0} /\ i - 1 \in 0 .. n /\ i \in 0 .. n
      BY <1>1
    <2>2. h[1 .. i] = Plus(h[1 .. (i - 1)], values[i])
      BY <1>6, <2>1, FirstPositions
    <2> QED
      BY <2>1, <2>2
  <1> HIDE DEF p
  <1>9. \A i \in Nat : i \in 0 .. n => p[i] \in Int
    <2> DEFINE T == {i \in Nat : i \in 0 .. n => p[i] \in Int}
    <2>1. 0 \in T
      BY <1>7
    <2>2. \A i \in Nat : i \in T => i + 1 \in T
      <3> TAKE i \in Nat
      <3> SUFFICES ASSUME i \in T, i + 1 \in 0 .. n PROVE p[i + 1] \in Int
        OBVIOUS
      <3>1. i + 1 \in 1 .. n /\ (i + 1) - 1 = i /\ i \in 0 .. n
        BY <1>1
      <3> QED
        BY <1>1, <1>2, <1>8, <3>1
    <2> HIDE DEF T
    <2>3. Nat \subseteq T
      BY <2>1, <2>2, SetInduction
    <2> QED
      BY <2>3 DEF T
  <1>10. p \in [0 .. n -> Int] /\ p[n] = Total(values)
    <2>1. \A i \in 0 .. n : p[i] \in Int
      BY <1>1, <1>9
    <2>2. n \in 0 .. n
      BY <1>1
    <2> QED
      BY <1>6, <2>1, <2>2 DEF p
  <1> QED
    BY <1>7, <1>8, <1>10 DEF n

\* An accumulator that ends with a finite value has never overflowed: the
\* values it has gone through are the partial sums.
LEMMA FiniteTotalIsExact ==
    ASSUME NEW values \in Seq(Int), IsFinite(Total(values))
    PROVE  \E p : PartialSums(p, values) /\ p[Len(values)] = Total(values)
  <1> DEFINE n == Len(values)
  <1>1. n \in Nat /\ \A i \in 1 .. n : values[i] \in Int
    OBVIOUS
  <1>2. PICK p \in [0 .. n -> Int] :
           /\ p[0] = 0 /\ p[n] = Total(values)
           /\ \A i \in 1 .. n : p[i] = Plus(p[i - 1], values[i])
    BY TotalByPrefixes
  <1> HIDE DEF n
  <1>3. \A i \in Nat : i \in 0 .. n => IsFinite(p[n - i])
    <2> DEFINE T == {i \in Nat : i \in 0 .. n => IsFinite(p[n - i])}
    <2>1. 0 \in T
      BY <1>1, <1>2 DEF n
    <2>2. \A i \in Nat : i \in T => i + 1 \in T
      <3> TAKE i \in Nat
      <3> SUFFICES ASSUME i \in T, i + 1 \in 0 .. n PROVE IsFinite(p[n - (i + 1)])
        OBVIOUS
      <3>1. n - i \in 1 .. n /\ (n - i) - 1 = n - (i + 1) /\ i \in 0 .. n
        BY <1>1
      <3>2. p[n - i] = Plus(p[n - (i + 1)], values[n - i]) /\ IsFinite(p[n - i])
        BY <1>2, <3>1
      <3> QED
        BY <3>2 DEF Plus
    <2> HIDE DEF T
    <2>3. Nat \subseteq T
      BY <2>1, <2>2, SetInduction
    <2> QED
      BY <2>3 DEF T
  <1>4. ASSUME NEW i \in 0 .. n
        PROVE  IsFinite(p[i])
    <2>1. n - i \in Nat /\ n - i \in 0 .. n /\ n - (n - i) = i
      BY <1>1
    <2> QED
      BY <1>3, <2>1
  <1>5. \A i \in 1 .. n : p[i] = p[i - 1] + values[i]
    <2> TAKE i \in 1 .. n
    <2>1. i - 1 \in 0 .. n /\ i \in 0 .. n
      BY <1>1
    <2>2. IsFinite(p[i - 1]) /\ IsFinite(p[i]) /\ p[i - 1] \in Int /\ values[i] \in Int
      BY <1>1, <1>2, <1>4, <2>1
    <2>3. p[i] = Saturate(p[i - 1] + values[i])
      BY <1>2, <2>2 DEF Plus
    <2> QED
      BY <2>2, <2>3, MaxFiniteAssumption
      DEF Saturate, IsFinite, FiniteValues, Infinity
  <1> QED
    BY <1>2, <1>5 DEF PartialSums, n

-----------------------------------------------------------------------------
(* Rounding to nearest.                                                    *)

\* The exponent of a rounded fraction: the significand has Precision bits.
LEMMA ExponentExists ==
    ASSUME NEW num \in Nat \ {0}, NEW den \in Nat \ {0},
           num < PowerOf2[Precision] * den
    PROVE  \E k \in 0 .. (Precision + den) :
               /\ PowerOf2[Precision - 1] * den <= num * PowerOf2[k]
               /\ num * PowerOf2[k] < PowerOf2[Precision] * den
  <1> DEFINE n     == Precision + den
             bound == PowerOf2[Precision] * den
             T     == {k \in 0 .. n : num * PowerOf2[k] < bound}
  <1>1. /\ Precision \in Nat \ {0} /\ n \in Nat /\ n \in 0 .. n
        /\ \A k \in Nat : PowerOf2[k] \in Nat \ {0}
        /\ \A k \in Nat : PowerOf2[k + 1] = 2 * PowerOf2[k]
        /\ PowerOf2[0] = 1
    BY SignificandAssumption, PowerOf2Def, PowerOf2Grows
  <1>2. n \notin T
    <2> DEFINE a == PowerOf2[Precision]
               x == PowerOf2[n]
    <2>1. a * (den + 1) <= x
      BY <1>1, PowerOf2Grows
    <2>2. a \in Nat \ {0} /\ x \in Nat \ {0}
      BY <1>1
    <2> HIDE DEF a, x
    <2>3. a * (den + 1) = a * den + a /\ a * den \in Nat
      BY <2>2
    <2>4. x * 1 <= x * num
      BY <2>2, ProductMonotone
    <2>5. ~(num * x < a * den)
      BY <2>1, <2>2, <2>3, <2>4
    <2> QED
      BY <2>5 DEF a, x
  <1>3. T \subseteq 0 .. n /\ 0 \in T
    BY <1>1
  <1> HIDE DEF T
  <1>4. PICK e \in T : \A k \in T : k <= e
    BY <1>1, <1>3, GreatestNat
  <1>5. e \in 0 .. n /\ e + 1 \in 0 .. n /\ e + 1 \notin T
    BY <1>1, <1>2, <1>3, <1>4
  <1>6. num * PowerOf2[e] < bound
    BY <1>4 DEF T
  <1>7. PowerOf2[Precision - 1] * den <= num * PowerOf2[e]
    <2> DEFINE h == PowerOf2[Precision - 1]
               x == PowerOf2[e]
    <2>1. ~(num * PowerOf2[e + 1] < bound)
      BY <1>5 DEF T
    <2>2. PowerOf2[e + 1] = 2 * x /\ PowerOf2[Precision] = 2 * h
      <3>1. (Precision - 1) + 1 = Precision /\ Precision - 1 \in Nat /\ e \in Nat
        BY <1>1, <1>5
      <3> QED
        BY <1>1, <3>1
    <2>3. h \in Nat /\ x \in Nat
      BY <1>1, <1>5
    <2> HIDE DEF h, x
    <2>4. ~(num * (2 * x) < (2 * h) * den)
      BY <2>1, <2>2
    <2>5. /\ num * (2 * x) = 2 * (num * x) /\ (2 * h) * den = 2 * (h * den)
          /\ num * x \in Nat /\ h * den \in Nat
      BY <2>3
    <2>6. h * den <= num * x
      BY <2>4, <2>5
    <2> QED
      BY <2>6 DEF h, x
  <1> QED
    BY <1>5, <1>6, <1>7

\* Rounding to nearest keeps a fraction that is at most a whole number at
\* most that number, and is off by a factor of 1 + 1/2^Precision at most.
LEMMA RoundedIsNear ==
    ASSUME NEW num \in Nat \ {0}, NEW den \in Nat \ {0},
           num < PowerOf2[Precision] * den
    PROVE  LET x     == Rounded(num, den)
               scale == PowerOf2[Precision]
           IN  /\ x.num \in Nat /\ x.den \in Nat \ {0}
               /\ \A K \in Nat :
                     /\ num <= K * den => x.num <= K * x.den
                     /\ x.num <= K * x.den => num * scale <= K * den * (scale + 1)
  <1> DEFINE e == CHOOSE k \in 0 .. (Precision + den) :
                      /\ PowerOf2[Precision - 1] * den <= num * PowerOf2[k]
                      /\ num * PowerOf2[k] < PowerOf2[Precision] * den
             f == PowerOf2[e]
             h == PowerOf2[Precision - 1]
             scale == PowerOf2[Precision]
             a == num * f
             q == a \div den
             r == a % den
             m == IF 2 * r > den \/ (2 * r = den /\ q % 2 = 1) THEN q + 1 ELSE q
  <1>1. e \in 0 .. (Precision + den) /\ h * den <= a
    BY ExponentExists
  <1>2. Rounded(num, den) = [num |-> m, den |-> f]
    BY DEF Rounded
  <1> HIDE DEF e
  <1>3. f \in Nat \ {0} /\ h \in Nat \ {0} /\ scale = 2 * h
    <2>1. e \in Nat /\ Precision - 1 \in Nat /\ (Precision - 1) + 1 = Precision
      BY <1>1, SignificandAssumption
    <2> QED
      BY <2>1, PowerOf2Def, PowerOf2Grows
  <1> HIDE DEF f, h, scale
  <1>4. a \in Nat
    BY <1>3
  <1>5. /\ m \in Nat /\ q \in Nat /\ q <= m
        /\ a < q * den + den
        /\ 2 * a <= 2 * (m * den) + den
        /\ \A K \in Nat : a <= K * den => m <= K
    <2> HIDE DEF a
    <2> QED
      BY <1>4, RoundedQuotient
  <1> HIDE DEF a, q, r, m
  <1>6. h <= m
    <2> SUFFICES ASSUME q + 1 <= h PROVE FALSE
      BY <1>3, <1>5
    <2>1. den * (q + 1) <= den * h /\ den * (q + 1) = q * den + den /\ den * h = h * den
      BY <1>3, <1>5, ProductMonotone
    <2>2. q * den \in Nat /\ h * den \in Nat
      BY <1>3, <1>5
    <2> QED
      BY <1>1, <1>4, <1>5, <2>1, <2>2
  <1>7. a * scale <= (m * den) * (scale + 1)
    <2> DEFINE b == m * den
    <2>1. b \in Nat /\ den * h <= den * m /\ den * m = b /\ den * h \in Nat
      BY <1>3, <1>5, <1>6, ProductMonotone
    <2>2. h * (2 * a) <= h * (2 * b + den)
      <3> HIDE DEF b
      <3>1. 2 * a \in Nat /\ 2 * b + den \in Nat
        BY <1>4, <2>1
      <3>2. 2 * a <= 2 * b + den
        BY <1>5 DEF b
      <3> QED
        BY <1>3, <3>1, <3>2, ProductMonotone
    <2> HIDE DEF b
    <2>3. h * (2 * a) = a * scale
      BY <1>3, <1>4
    <2>4. h * (2 * b + den) = b * scale + den * h
      BY <1>3, <2>1
    <2>5. b * (scale + 1) = b * scale + b /\ b * scale \in Nat /\ a * scale \in Nat
      BY <1>3, <1>4, <2>1
    <2>6. a * scale <= b * (scale + 1)
      BY <2>1, <2>2, <2>3, <2>4, <2>5
    <2> QED
      BY <2>6 DEF b
  <1>8. ASSUME NEW K \in Nat, num <= K * den PROVE m <= K * f
    <2>1. f * num <= f * (K * den) /\ f * num = a
      <3>1. K * den \in Nat
        OBVIOUS
      <3> QED
        BY <1>3, <1>8, <3>1, ProductMonotone DEF a
    <2>2. f * (K * den) = (K * f) * den /\ K * f \in Nat
      BY <1>3
    <2> QED
      BY <1>5, <2>1, <2>2
  <1>9. ASSUME NEW K \in Nat, m <= K * f PROVE num * scale <= K * den * (scale + 1)
    <2> DEFINE s == scale + 1
    <2>1. s \in Nat /\ scale \in Nat
      BY <1>3
    <2> HIDE DEF s
    <2>2. (den * s) * m <= (den * s) * (K * f)
      <3>1. den * s \in Nat /\ K * f \in Nat
        BY <1>3, <2>1
      <3> QED
        BY <1>5, <1>9, <3>1, ProductMonotone
    <2>3. (den * s) * m = (m * den) * s
      BY <1>5, <2>1
    <2>4. (den * s) * (K * f) = f * (K * den * s)
      BY <1>3, <2>1
    <2>5. a * scale = f * (num * scale)
      BY <1>3, <2>1 DEF a
    <2> DEFINE x == num * scale
               y == K * den * s
    <2>6. x \in Nat /\ y \in Nat
      BY <2>1
    <2>7. f * x <= f * y
      <3> HIDE DEF x, y
      <3>1. f * x \in Nat /\ f * y \in Nat
        BY <1>3, <2>6
      <3>2. a * scale <= (m * den) * s
        BY <1>7 DEF s
      <3>3. f * x = a * scale /\ f * y = (den * s) * (K * f)
        BY <2>4, <2>5 DEF x, y
      <3>4. (m * den) * s \in Int
        BY <1>3, <1>5, <2>1
      <3> QED
        BY <2>2, <2>3, <3>1, <3>2, <3>3, <3>4
    <2> HIDE DEF x, y
    <2>8. x <= y
      <3> SUFFICES ASSUME y + 1 <= x PROVE FALSE
        BY <2>6
      <3>1. f * (y + 1) <= f * x /\ f * (y + 1) = f * y + f /\ f * y \in Nat /\ f * x \in Nat
        BY <1>3, <2>6, ProductMonotone
      <3> QED
        BY <1>3, <2>7, <3>1
    <2> QED
      BY <2>8 DEF x, y, s
  <1>10. Rounded(num, den).num = m /\ Rounded(num, den).den = f
    BY <1>2
  <1>11. \A K \in Nat : /\ num <= K * den => m <= K * f
                        /\ m <= K * f => num * scale <= K * den * (scale + 1)
    BY <1>8, <1>9
  <1> QED
    BY <1>3, <1>5, <1>10, <1>11 DEF scale

-----------------------------------------------------------------------------
(* The rank of the VaR observation.                                        *)

\* No smaller whole number of results than the rank is the share of the
\* confidence level, and the rank misses it by the rounding at most.
LEMMA VarIndexOfShare ==
    ASSUME NEW c, ValidConfidence(c), c.num \in Int, c.den \in Int,
           NEW n \in Nat \ {0}, n <= PowerOf2[Precision]
    PROVE  LET scale == PowerOf2[Precision]
           IN  /\ VarIndex(c, n) \in 0 .. (n - 1)
               /\ \A k \in 0 .. VarIndex(c, n) : k * c.den < c.num * n
               /\ \A k \in (VarIndex(c, n) + 1) .. n :
                     c.num * n * scale <= k * c.den * (scale + 1)
  <1> DEFINE m == Share(c, n).num
             d == Share(c, n).den
             r == Rank(c, n)
             v == VarIndex(c, n)
             Reached(k) == c.num * n <= k * c.den
             scale == PowerOf2[Precision]
             Near(k)   == c.num * n * scale <= k * c.den * (scale + 1)
  <1>1. /\ n \in Nat \ {0} /\ c.num \in Nat \ {0} /\ c.den \in Nat /\ c.num < c.den
        /\ m \in Nat /\ d \in Nat \ {0}
        /\ \A k \in 0 .. n : /\ Reached(k) => m <= k * d
                             /\ m <= k * d => Near(k)
    <2> DEFINE x   == c.num * n
               den == c.den
               y   == Rounded(x, den)
    <2>1. c.num \in Nat \ {0} /\ den \in Nat \ {0} /\ c.num < den
      BY DEF ValidConfidence
    <2>2. x \in Nat \ {0}
      BY <2>1
    <2>3. x < scale * den
      <3>1. den * n <= den * scale /\ scale \in Nat
        <4>1. scale \in Nat
          BY SignificandAssumption, PowerOf2Def
        <4> QED
          BY <2>1, <4>1, ProductMonotone
      <3>2. n * (c.num + 1) <= n * den /\ n * (c.num + 1) = x + n
        <4>1. c.num + 1 \in Nat /\ c.num + 1 <= den /\ n \in Nat /\ den \in Nat
          BY <2>1
        <4> HIDE DEF den
        <4>2. n * (c.num + 1) <= n * den
          BY <4>1, ProductMonotone
        <4> QED
          BY <2>1, <4>2
      <3> HIDE DEF scale, x, den
      <3>3. n * den = den * n /\ den * scale = scale * den
        BY <2>1, <3>1
      <3>4. n * den \in Nat /\ scale * den \in Nat
        BY <2>1, <3>1
      <3> QED
        BY <2>2, <3>1, <3>2, <3>3, <3>4
    <2> HIDE DEF x, den, scale
    <2>4. /\ y.num \in Nat /\ y.den \in Nat \ {0}
          /\ \A K \in Nat : /\ x <= K * den => y.num <= K * y.den
                            /\ y.num <= K * y.den =>
                                  x * scale <= K * den * (scale + 1)
      BY <2>1, <2>2, <2>3, RoundedIsNear DEF scale
    <2>5. m = y.num /\ d = y.den
      BY DEF Share, x, den
    <2> HIDE DEF m, d, y
    <2> QED
      BY <2>1, <2>4, <2>5 DEF x, den
  <1>2. r \in Nat /\ m <= r * d /\ \A k \in Nat : k < r => k * d < m
    BY <1>1, RoundedUp DEF Rank
  <1>3. v = IF r > 1 THEN r - 1 ELSE 0
    BY <1>2 DEF VarIndex
  <1> HIDE DEF m, d, r, v, Near, scale
  <1>4. r <= n
    <2> SUFFICES ASSUME n < r PROVE FALSE
      BY <1>1, <1>2
    <2>1. n * d < m /\ n \in 0 .. n
      BY <1>1, <1>2
    <2>2. Reached(n)
      BY <1>1, ProductMonotone
    <2>3. m <= n * d
      BY <1>1, <2>1, <2>2
    <2> QED
      BY <1>1, <2>1, <2>3
  <1>5. v \in 0 .. (n - 1)
    BY <1>1, <1>2, <1>3, <1>4
  <1>6. ASSUME NEW k \in 0 .. v
        PROVE  k * c.den < c.num * n
    <2>1. k * c.den \in Int /\ c.num * n \in Int
      BY <1>1, <1>5
    <2>2. k \in Nat /\ k \in 0 .. n /\ (k < r \/ k = 0)
      BY <1>1, <1>2, <1>3, <1>5
    <2>3. CASE k = 0
      <3>1. c.num * n > 0
        BY <1>1
      <3> QED
        BY <1>1, <2>3, <3>1
    <2>4. CASE k < r
      <3>1. ~(m <= k * d)
        <4>1. k * d < m /\ k * d \in Int
          BY <1>1, <1>2, <2>2, <2>4
        <4> QED
          BY <1>1, <4>1
      <3>2. ~Reached(k)
        BY <1>1, <2>2, <3>1
      <3> QED
        BY <2>1, <3>2
    <2> QED
      BY <2>2, <2>3, <2>4
  <1>7. ASSUME NEW k \in (v + 1) .. n
        PROVE  Near(k)
    <2>1. k \in 0 .. n /\ k \in Nat /\ r <= k
      BY <1>1, <1>2, <1>3, <1>5
    <2>2. d * r <= d * k /\ d * r = r * d /\ d * k = k * d
      BY <1>1, <1>2, <2>1, ProductMonotone
    <2>3. m <= k * d
      BY <1>1, <1>2, <2>1, <2>2
    <2> QED
      BY <1>1, <2>1, <2>3
  <1> QED
    BY <1>5, <1>6, <1>7 DEF v, Near, scale

-----------------------------------------------------------------------------
(* The sorted losses and the sorted results of a list of results.          *)

IsResultList(results) ==
    /\ results \in Seq(Range(results))
    /\ \A i \in DOMAIN results :
          results[i].pnl \in Int /\ results[i].scenario_id \in Int

\* The sorted losses are the losses, in ascending order.
LEMMA OrderOfLosses ==
    ASSUME NEW results, IsResultList(results)
    PROVE  \E p \in Bijection(DOMAIN results, DOMAIN results) :
              /\ SortedLosses(results)
                   = [i \in DOMAIN results |-> Loss(results[p[i]])]
              /\ \A i, j \in DOMAIN results :
                    i < j => Loss(results[p[i]]) <= Loss(results[p[j]])
  <1> DEFINE n == Len(results)
             L == [i \in DOMAIN results |-> Loss(results[i])]
             D == DOMAIN L
             R == {x \in D \X D : ~(L[x[2]] < L[x[1]])}
             Sorts(p) == \A i, j \in D : i < j => ~(L[p[j]] < L[p[i]])
  <1>1. n \in Nat /\ D = 1 .. n /\ D = DOMAIN results
    BY DEF IsResultList
  <1>2. \A i \in D : L[i] \in Int
    BY DEF IsResultList, Loss
  <1>3. \A i, j \in D : <<i, j>> \in R <=> ~(L[j] < L[i])
    OBVIOUS
  <1> HIDE DEF L, R, D
  <1>4. \A i, j \in D : <<i, j>> \in R \/ <<j, i>> \in R
    <2> TAKE i, j \in D
    <2>1. ~(L[j] < L[i]) \/ ~(L[i] < L[j])
      BY <1>2
    <2> QED
      BY <1>3, <2>1, Zenon
  <1>5. \A i, j, k \in D : <<i, j>> \in R /\ <<j, k>> \in R => <<i, k>> \in R
    BY <1>2, <1>3
  <1>6. PICK q : IsOrder(q, n, R)
    BY <1>1, <1>4, <1>5, SortingOrder
  <1>7. q \in Bijection(D, D) /\ Sorts(q)
    <2>1. q \in Bijection(D, D) /\ \A i, j \in D : i < j => <<q[i], q[j]>> \in R
      BY <1>1, <1>6 DEF IsOrder
    <2>2. \A i \in D : q[i] \in D
      BY <2>1 DEF Bijection, Injection
    <2> QED
      BY <1>3, <2>1, <2>2
  <1> DEFINE p == CHOOSE f \in Bijection(D, D) : Sorts(f)
  <1>8. SortedLosses(results) = [i \in D |-> L[p[i]]]
    <2>1. SortedLosses(results) = Sorted(L, LAMBDA a, b : a < b)
      BY Zenon DEF SortedLosses, L
    <2>2. Sorted(L, LAMBDA a, b : a < b) = [i \in D |-> L[p[i]]]
      BY Zenon DEF Sorted, D
    <2> QED
      BY <2>1, <2>2, Zenon
  <1> HIDE DEF Sorts
  <1>9. p \in Bijection(D, D) /\ Sorts(p)
    BY <1>7, Zenon
  <1> HIDE DEF p
  <1>10. \A i \in D : p[i] \in D
    BY <1>9 DEF Bijection, Injection
  <1>11. SortedLosses(results) = [i \in D |-> Loss(results[p[i]])]
    BY <1>1, <1>8, <1>10 DEF L
  <1>12. \A i, j \in D : i < j => Loss(results[p[i]]) <= Loss(results[p[j]])
    <2>1. \A i, j \in D : i < j => L[p[i]] <= L[p[j]]
      BY <1>2, <1>9, <1>10 DEF Sorts
    <2> QED
      BY <1>1, <1>10, <2>1 DEF L
  <1> QED
    BY <1>1, <1>9, <1>11, <1>12

\* The sorted results are the results, none after a better one.
LEMMA OrderOfResults ==
    ASSUME NEW results, IsResultList(results)
    PROVE  \E p \in Bijection(DOMAIN results, DOMAIN results) :
              /\ Sorted(results, Worse) = [i \in DOMAIN results |-> results[p[i]]]
              /\ \A i, j \in DOMAIN results :
                    i < j => ~Worse(results[p[j]], results[p[i]])
  <1> DEFINE n == Len(results)
             D == DOMAIN results
             R == {x \in D \X D : ~Worse(results[x[2]], results[x[1]])}
             Sorts(p) == \A i, j \in D : i < j => ~Worse(results[p[j]], results[p[i]])
  <1>1. n \in Nat /\ D = 1 .. n
    BY DEF IsResultList
  <1>2. \A i \in D : results[i].pnl \in Int /\ results[i].scenario_id \in Int
    BY DEF IsResultList
  <1>3. \A i, j \in D : <<i, j>> \in R <=> ~Worse(results[j], results[i])
    OBVIOUS
  <1> HIDE DEF R, D
  <1>4. \A i, j \in D : <<i, j>> \in R \/ <<j, i>> \in R
    <2> TAKE i, j \in D
    <2>1. ~Worse(results[j], results[i]) \/ ~Worse(results[i], results[j])
      BY <1>2 DEF Worse
    <2> QED
      BY <1>3, <2>1, Zenon
  <1>5. \A i, j, k \in D : <<i, j>> \in R /\ <<j, k>> \in R => <<i, k>> \in R
    BY <1>2, <1>3 DEF Worse
  <1>6. PICK q : IsOrder(q, n, R)
    BY <1>1, <1>4, <1>5, SortingOrder
  <1>7. q \in Bijection(D, D) /\ Sorts(q)
    <2>1. q \in Bijection(D, D) /\ \A i, j \in D : i < j => <<q[i], q[j]>> \in R
      BY <1>1, <1>6 DEF IsOrder
    <2>2. \A i \in D : q[i] \in D
      BY <2>1 DEF Bijection, Injection
    <2> QED
      BY <1>3, <2>1, <2>2
  <1> DEFINE p == CHOOSE f \in Bijection(D, D) : Sorts(f)
  <1>8. Sorted(results, Worse) = [i \in D |-> results[p[i]]]
    BY Zenon DEF Sorted, D
  <1> HIDE DEF Sorts
  <1>9. p \in Bijection(D, D) /\ Sorts(p)
    BY <1>7, Zenon
  <1> HIDE DEF p
  <1> QED
    BY <1>8, <1>9 DEF D, Sorts

-----------------------------------------------------------------------------
(* The invariant.                                                          *)

\* A call keeps its arguments, and returns the metrics of arguments that it
\* does not reject.
IInv ==
    /\ scenario_results \in Results
    /\ confidence_level \in Confidences
    /\ worst_scenario_count \in WorstCounts
    /\ Returned =>
          /\ ~CalculateRejects(scenario_results, confidence_level)
          /\ Metric = Metrics(scenario_results, confidence_level,
                              worst_scenario_count)

\* IInv holds before, during and after a call.
LEMMA Invariance == Spec => []IInv
  <1>1. Init => IInv
    BY DEF Init, IInv, Returned
  <1>2. IInv /\ [Next]_vars => IInv'
    <2> SUFFICES ASSUME IInv, [Next]_vars PROVE IInv'
      OBVIOUS
    <2>1. CASE Reject
      BY <2>1 DEF Reject, arguments, IInv, Returned
    <2>2. CASE Calculate
      BY <2>2 DEF Calculate, arguments, IInv, Returned, Metric
    <2>3. CASE UNCHANGED vars
      BY <2>3 DEF vars, arguments, IInv, Returned, Metric
    <2> QED
      BY <2>1, <2>2, <2>3 DEF Next
  <1> QED
    BY <1>1, <1>2, PTL DEF Spec

\* What a call that has returned was given and has computed: the results are
\* numbered, and as many as can be counted in a double.
Calculated ==
    /\ scenario_results \in Seq(Range(scenario_results))
    /\ Len(scenario_results) <= PowerOf2[Precision]
    /\ \A i \in Indices : /\ scenario_results[i].scenario_id = i - 1
                          /\ scenario_results[i].pnl \in Int
    /\ confidence_level.num \in Int /\ confidence_level.den \in Int
    /\ worst_scenario_count \in Nat
    /\ ~CalculateRejects(scenario_results, confidence_level)
    /\ Metric = Metrics(scenario_results, confidence_level, worst_scenario_count)

\* Every call that returns is such a call.
LEMMA ReturnedIsCalculated ==
    ASSUME IInv, Returned
    PROVE  /\ Calculated
           /\ Len(scenario_results) <= MaxResults
           /\ \A i \in Indices : scenario_results[i].pnl \in PnlValues
  <1>0. PICK n \in 0 .. MaxResults : \E pnls \in [1 .. n -> PnlValues] :
           scenario_results = [i \in 1 .. n |->
              [scenario_id |-> i - 1, scenario_name |-> "named", pnl |-> pnls[i]]]
    BY DEF IInv, Results
  <1>1. PICK pnls \in [1 .. n -> PnlValues] :
           scenario_results = [i \in 1 .. n |->
              [scenario_id |-> i - 1, scenario_name |-> "named", pnl |-> pnls[i]]]
    BY <1>0
  <1>2. /\ n \in Nat /\ \A x \in PnlValues : x \in Int
        /\ \A i \in 1 .. n : pnls[i] \in PnlValues
    BY ArgumentAssumption, MaxFiniteAssumption
  <1>3. /\ Indices = 1 .. n
        /\ \A i \in 1 .. n : /\ scenario_results[i].scenario_id = i - 1
                             /\ scenario_results[i].pnl \in PnlValues
    BY <1>1, <1>2 DEF Indices
  <1>4. /\ scenario_results \in Seq(Range(scenario_results))
        /\ Len(scenario_results) = n
    <2>1. scenario_results \in [1 .. n -> Range(scenario_results)]
      <3>1. \A i \in 1 .. n : scenario_results[i] \in Range(scenario_results)
        BY <1>3 DEF Range, Indices
      <3> QED
        BY <1>1, <3>1
    <2> QED
      BY <1>2, <2>1, FunctionIsSequence
  <1>5. n <= MaxResults /\ n <= PowerOf2[Precision]
    <2>1. PowerOf2[Precision] \in Nat
      BY SignificandAssumption, PowerOf2Def
    <2> QED
      BY <2>1, CountsAssumption, ArgumentAssumption
  <1>6. /\ confidence_level.num \in Int /\ confidence_level.den \in Int
        /\ worst_scenario_count \in Nat
    BY CountsAssumption, ArgumentAssumption DEF IInv
  <1> QED
    BY <1>2, <1>3, <1>4, <1>5, <1>6 DEF IInv, Calculated

\* What the metrics are computed from.
LEMMA ReturnedMetrics ==
    ASSUME Calculated
    PROVE  LET n == Len(scenario_results)
               v == VarIndex(confidence_level, n)
           IN  /\ IsResultList(scenario_results)
               /\ n \in Nat \ {0} /\ n <= PowerOf2[Precision]
               /\ Indices = 1 .. n
               /\ \A i \in Indices :
                     /\ scenario_results[i].scenario_id = i - 1
                     /\ scenario_results[i].pnl \in Int
                     /\ LossOf(i) \in Int
               /\ confidence_level.num \in Int /\ confidence_level.den \in Int
               /\ ValidConfidence(confidence_level)
               /\ Metric = Metrics(scenario_results, confidence_level,
                                   worst_scenario_count)
               /\ v \in 0 .. (n - 1)
  <1> DEFINE n == Len(scenario_results)
  <1>1. /\ scenario_results \in Seq(Range(scenario_results))
        /\ n <= PowerOf2[Precision]
        /\ \A i \in Indices : /\ scenario_results[i].scenario_id = i - 1
                              /\ scenario_results[i].pnl \in Int
        /\ confidence_level.num \in Int /\ confidence_level.den \in Int
        /\ Metric = Metrics(scenario_results, confidence_level, worst_scenario_count)
        /\ ValidConfidence(confidence_level) /\ scenario_results # <<>>
    BY DEF Calculated, CalculateRejects
  <1>2. Indices = 1 .. n /\ n \in Nat \ {0}
    BY <1>1 DEF Indices
  <1> HIDE DEF n
  <1>3. \A i \in 1 .. n : /\ LossOf(i) \in Int
                          /\ scenario_results[i].scenario_id \in Int
    <2> TAKE i \in 1 .. n
    <2>1. /\ scenario_results[i].pnl \in Int
          /\ scenario_results[i].scenario_id = i - 1 /\ i - 1 \in Int
      BY <1>1, <1>2
    <2> QED
      BY <2>1 DEF LossOf, Loss
  <1>4. IsResultList(scenario_results)
    BY <1>1, <1>2, <1>3 DEF IsResultList, Indices
  <1>5. VarIndex(confidence_level, n) \in 0 .. (n - 1)
    BY <1>1, <1>2, VarIndexOfShare
  <1> QED
    BY <1>1, <1>2, <1>3, <1>4, <1>5 DEF n

-----------------------------------------------------------------------------
(* VaR.                                                                    *)

\* The results at the positions a .. b of the order p.
Taken(p, a, b) == {p[i] : i \in a .. b}

\* A permutation takes as many results as there are positions.
LEMMA ImageCardinality ==
    ASSUME NEW n \in Nat, NEW p \in Bijection(1 .. n, 1 .. n),
           NEW a \in 1 .. (n + 1), NEW b \in 0 .. n, a <= b + 1
    PROVE  /\ IsFiniteSet(Taken(p, a, b)) /\ Taken(p, a, b) \subseteq 1 .. n
           /\ Cardinality(Taken(p, a, b)) = b + 1 - a
  <1> DEFINE image == {p[i] : i \in a .. b}
             f == [i \in a .. b |-> p[i]]
  <1>1. /\ \A i \in 1 .. n : p[i] \in 1 .. n
        /\ \A i, j \in 1 .. n : p[i] = p[j] => i = j
    BY DEF Bijection, Injection, IsInjective
  <1>2. \A i \in a .. b : i \in 1 .. n
    OBVIOUS
  <1>3. image \subseteq 1 .. n
    BY <1>1, <1>2
  <1>4. f \in Bijection(a .. b, image)
    <2>1. f \in [a .. b -> image]
      OBVIOUS
    <2>2. \A i, j \in a .. b : f[i] = f[j] => i = j
      BY <1>1, <1>2
    <2>3. \A y \in image : \E i \in a .. b : f[i] = y
      OBVIOUS
    <2> HIDE DEF f, image
    <2> QED
      BY <2>1, <2>2, <2>3 DEF Bijection, Injection, Surjection, IsInjective
  <1>5. IsFiniteSet(a .. b) /\ Cardinality(a .. b) = b + 1 - a
    <2>1. a \in Int /\ b \in Int
      OBVIOUS
    <2>2. /\ IsFiniteSet(a .. b)
          /\ Cardinality(a .. b) = IF a > b THEN 0 ELSE b - a + 1
      BY <2>1, FS_Interval
    <2>3. IF a > b THEN b + 1 - a = 0 ELSE b - a + 1 = b + 1 - a
      OBVIOUS
    <2> QED
      BY <2>2, <2>3
  <1>6. ExistsBijection(a .. b, image)
    <2> HIDE DEF f, image
    <2> QED
      BY <1>4 DEF ExistsBijection
  <1> HIDE DEF image
  <1>7. IsFiniteSet(image) /\ Cardinality(image) = Cardinality(a .. b)
    BY <1>5, <1>6, FS_Bijection
  <1> QED
    BY <1>3, <1>5, <1>7 DEF image, Taken

\* The sorted losses are those of a permutation of the results.
LEMMA LossesFollowOrder ==
    ASSUME Calculated
    PROVE  LET n == Len(scenario_results)
           IN  \E p \in Bijection(1 .. n, 1 .. n) :
                  /\ SortedLosses(scenario_results) = [i \in 1 .. n |-> LossOf(p[i])]
                  /\ \A i, j \in 1 .. n : i <= j => LossOf(p[i]) <= LossOf(p[j])
                  /\ \A i \in 1 .. n : p[i] \in 1 .. n
                  /\ \A i, j \in 1 .. n : p[i] = p[j] => i = j
                  /\ \A y \in 1 .. n : \E i \in 1 .. n : p[i] = y
  <1> DEFINE n == Len(scenario_results)
  <1>1. /\ IsResultList(scenario_results) /\ n \in Nat /\ Indices = 1 .. n
        /\ \A i \in 1 .. n : LossOf(i) \in Int
    BY ReturnedMetrics
  <1>2. PICK p \in Bijection(Indices, Indices) :
           /\ SortedLosses(scenario_results)
                = [i \in Indices |-> Loss(scenario_results[p[i]])]
           /\ \A i, j \in Indices :
                 i < j => Loss(scenario_results[p[i]]) <= Loss(scenario_results[p[j]])
    BY <1>1, OrderOfLosses DEF Indices
  <1> HIDE DEF n
  <1>3. /\ p \in Bijection(1 .. n, 1 .. n)
        /\ \A i \in 1 .. n : p[i] \in 1 .. n
        /\ \A i, j \in 1 .. n : p[i] = p[j] => i = j
        /\ \A y \in 1 .. n : \E i \in 1 .. n : p[i] = y
    BY <1>1 DEF Bijection, Injection, Surjection, IsInjective
  <1>4. \A i, j \in 1 .. n : i <= j => LossOf(p[i]) <= LossOf(p[j])
    <2> TAKE i, j \in 1 .. n
    <2>1. LossOf(p[i]) \in Int /\ i \in Indices /\ j \in Indices
      BY <1>1, <1>3
    <2>2. i < j => LossOf(p[i]) <= LossOf(p[j])
      BY <1>2, <2>1 DEF LossOf
    <2> QED
      BY <1>1, <2>1, <2>2
  <1>5. SortedLosses(scenario_results) = [i \in 1 .. n |-> LossOf(p[i])]
    BY <1>1, <1>2 DEF LossOf
  <1> QED
    BY <1>3, <1>4, <1>5 DEF n

\* The VaR observation is the first at which the share is reached.
LEMMA RankSuffices ==
    ASSUME Calculated
    PROVE  LET n == Len(scenario_results)
               v == VarIndex(confidence_level, n)
           IN  /\ \A k \in 0 .. v : ~Suffice(k)
               /\ \A k \in (v + 1) .. n : NearlySuffice(k)
  <1> DEFINE n == Len(scenario_results)
             c == confidence_level
             v == VarIndex(c, n)
             scale == PowerOf2[Precision]
  <1>1. /\ n \in Nat \ {0} /\ n <= scale /\ v \in 0 .. (n - 1)
        /\ c.num \in Int /\ c.den \in Int /\ ValidConfidence(c)
    BY ReturnedMetrics
  <1>2. c.num \in Nat /\ c.den \in Nat
    BY <1>1 DEF ValidConfidence
  <1>3. /\ \A k \in 0 .. v : k * c.den < c.num * n
        /\ \A k \in (v + 1) .. n :
              c.num * n * scale <= k * c.den * (scale + 1)
    BY <1>1, VarIndexOfShare
  <1> HIDE DEF n, v
  <1>4. Asked = c.num * n
    BY DEF Asked, n
  <1> HIDE DEF c
  <1>5. ASSUME NEW k \in 0 .. v PROVE ~Suffice(k)
    <2>1. k * c.den < c.num * n
      BY <1>3
    <2>2. k \in Int /\ n \in Int /\ c.num \in Int /\ c.den \in Int
      BY <1>1, <1>2
    <2>3. ~(k * c.den >= c.num * n)
      BY <2>1, <2>2
    <2> QED
      BY <1>4, <2>3 DEF Suffice, c
  <1>6. ASSUME NEW k \in (v + 1) .. n PROVE NearlySuffice(k)
    BY <1>3, <1>4 DEF NearlySuffice, c
  <1> QED
    BY <1>5, <1>6 DEF n, v, c

\* The VaR of a call is the nearest-rank quantile.
LEMMA QuantileFollows == Calculated => VarIsQuantile
  <1>1. ASSUME Calculated PROVE VarIsQuantile
    <2> DEFINE n == Len(scenario_results)
               c == confidence_level
               v == VarIndex(c, n)
               var == Metric.value_at_risk
               Upto(x) == {i \in Indices : LossOf(i) <= x}
    <2>1. /\ IsResultList(scenario_results)
          /\ n \in Nat \ {0} /\ Indices = 1 .. n
          /\ \A i \in Indices : LossOf(i) \in Int
          /\ v \in 0 .. (n - 1)
          /\ var = SortedLosses(scenario_results)[v + 1]
      BY <1>1, ReturnedMetrics DEF Metrics, ValueAtRisk
    <2>2. /\ \A k \in 0 .. v : ~Suffice(k)
          /\ \A k \in (v + 1) .. n : NearlySuffice(k)
      BY <1>1, RankSuffices
    <2>3. PICK p \in Bijection(1 .. n, 1 .. n) :
             /\ SortedLosses(scenario_results) = [i \in 1 .. n |-> LossOf(p[i])]
             /\ \A i, j \in 1 .. n : i <= j => LossOf(p[i]) <= LossOf(p[j])
             /\ \A i \in 1 .. n : p[i] \in 1 .. n
             /\ \A i, j \in 1 .. n : p[i] = p[j] => i = j
             /\ \A y \in 1 .. n : \E i \in 1 .. n : p[i] = y
      BY <1>1, LossesFollowOrder
    <2> HIDE DEF n, v, var, c
    <2>4. \A i \in 1 .. n : p[i] \in Indices
      BY <2>1, <2>3
    <2>5. v + 1 \in 1 .. n /\ var = LossOf(p[v + 1]) /\ var \in Int
      <3>1. v + 1 \in 1 .. n
        BY <2>1
      <3>2. var = LossOf(p[v + 1])
        BY <2>1, <2>3, <3>1
      <3> QED
        BY <2>1, <2>4, <3>1, <3>2
    <2>6. ASSUME NEW x \in Int
          PROVE  /\ IsFiniteSet(Upto(x)) /\ Cardinality(Upto(x)) \in 0 .. n
                 /\ Cardinality(Upto(x)) \in Int
      <3>1. IsFiniteSet(1 .. n) /\ Cardinality(1 .. n) = n
        BY <2>1, FS_Interval
      <3>2. Upto(x) \in SUBSET (1 .. n)
        BY <2>1
      <3> HIDE DEF Upto
      <3>3. IsFiniteSet(Upto(x)) /\ Cardinality(Upto(x)) <= n
        BY <3>1, <3>2, FS_Subset
      <3> QED
        BY <2>1, <3>3, FS_CardinalityType
    <2>7. Cardinality(Upto(var)) >= v + 1
      <3> DEFINE b == v + 1
                 first == Taken(p, 1, b)
      <3>1. Cardinality(first) = v + 1 /\ IsFiniteSet(first)
        <4>1. 1 \in 1 .. (n + 1) /\ b \in 0 .. n /\ 1 <= b + 1 /\ b + 1 - 1 = v + 1
          BY <2>1
        <4> HIDE DEF b, Upto
        <4>2. n \in Nat /\ p \in Bijection(1 .. n, 1 .. n)
          BY <2>1
        <4>3. IsFiniteSet(first) /\ Cardinality(first) = b + 1 - 1
          BY <4>1, <4>2, ImageCardinality
        <4> QED
          BY <4>1, <4>3
      <3>2. first \subseteq Upto(var)
        <4> SUFFICES ASSUME NEW i \in 1 .. b PROVE p[i] \in Upto(var)
          BY DEF Taken
        <4>1. i \in 1 .. n /\ v + 1 \in 1 .. n /\ i <= v + 1
          BY <2>1
        <4>2. LossOf(p[i]) <= LossOf(p[v + 1]) /\ p[i] \in Indices
          BY <2>3, <2>4, <4>1
        <4> QED
          BY <2>5, <4>2
      <3> HIDE DEF first, Upto
      <3>3. Cardinality(first) <= Cardinality(Upto(var))
        BY <2>5, <2>6, <3>2, FS_Subset
      <3> QED
        BY <2>1, <2>5, <2>6, <3>1, <3>3
    <2>8. ASSUME NEW i \in Indices, LossOf(i) < var
          PROVE  Cardinality(Upto(LossOf(i))) \in 0 .. v
      <3> DEFINE first == Taken(p, 1, v)
                 less  == Upto(LossOf(i))
      <3>1. Cardinality(first) = v /\ IsFiniteSet(first)
        <4>1. /\ 1 \in 1 .. (n + 1) /\ v \in 0 .. n /\ 1 <= v + 1 /\ v + 1 - 1 = v
              /\ n \in Nat /\ p \in Bijection(1 .. n, 1 .. n)
          BY <2>1, <2>3
        <4> HIDE DEF less, Upto
        <4>2. IsFiniteSet(first) /\ Cardinality(first) = v + 1 - 1
          BY <4>1, ImageCardinality
        <4> QED
          BY <4>1, <4>2
      <3>2. less \subseteq first
        <4> SUFFICES ASSUME NEW y \in Indices, LossOf(y) <= LossOf(i)
                     PROVE  y \in first
          OBVIOUS
        <4>1. PICK k \in 1 .. n : p[k] = y
          BY <2>1, <2>3
        <4>2. LossOf(y) < var /\ LossOf(y) \in Int
          BY <2>1, <2>5, <2>8
        <4>3. ~(v + 1 <= k)
          <5>1. v + 1 <= k => var <= LossOf(y)
            BY <2>3, <2>5, <4>1
          <5> QED
            BY <2>5, <4>2, <5>1
        <4>4. k \in 1 .. v
          BY <2>1, <4>3
        <4> QED
          BY <4>1, <4>4 DEF Taken
      <3>3. LossOf(i) \in Int
        BY <2>1
      <3>4. Cardinality(less) \in 0 .. n
        BY <2>6, <3>3
      <3> HIDE DEF first, less, Upto
      <3>5. Cardinality(less) <= v
        BY <3>1, <3>2, FS_Subset
      <3>6. Cardinality(less) \in 0 .. v
        BY <2>1, <3>4, <3>5
      <3> QED
        BY <3>6 DEF less
    <2>9. NearlySuffice(AtMost(var))
      <3>1. Cardinality(Upto(var)) \in (v + 1) .. n
        <4> HIDE DEF Upto
        <4> QED
          BY <2>1, <2>5, <2>6, <2>7
      <3>2. AtMost(var) = Cardinality(Upto(var))
        BY DEF AtMost
      <3> HIDE DEF Upto
      <3> QED
        BY <2>2, <3>1, <3>2
    <2>10. \A i \in Indices : LossOf(i) < var => ~Suffice(AtMost(LossOf(i)))
      <3>1. \A x : AtMost(x) = Cardinality(Upto(x))
        BY DEF AtMost
      <3> HIDE DEF Upto
      <3> QED
        BY <2>2, <2>8, <3>1
    <2>11. \E i \in Indices : LossOf(i) = var
      BY <2>4, <2>5
    <2> QED
      BY <2>9, <2>10, <2>11 DEF VarIsQuantile, var
  <1> QED
    BY <1>1

\* VaR is the nearest-rank quantile of the losses, whatever ties and whatever
\* the order the results come in; the rank is off only where rounding the
\* product of confidence level and count took it down to a whole number.
THEOREM VarIsTheQuantile == Spec => []VarIsQuantile
  <1>1. IInv => VarIsQuantile
    BY ReturnedIsCalculated, QuantileFollows DEF VarIsQuantile
  <1> QED
    BY <1>1, Invariance, PTL

-----------------------------------------------------------------------------
(* The worst scenarios.                                                    *)

\* The list of worst scenarios is the beginning of the sorted results.
LEMMA WorstFollowOrder ==
    ASSUME Calculated
    PROVE  \E q \in Bijection(Indices, Indices), kept \in 0 .. Len(scenario_results) :
              /\ kept = IF worst_scenario_count < Len(scenario_results)
                        THEN worst_scenario_count ELSE Len(scenario_results)
              /\ worst_scenario_count \in Nat
              /\ Metric.worst_scenarios
                   = [i \in 1 .. kept |-> WorstScenario(scenario_results[q[i]])]
              /\ \A i, j \in Indices :
                    i < j => ~Worse(scenario_results[q[j]], scenario_results[q[i]])
  <1> DEFINE n == Len(scenario_results)
             kept == IF worst_scenario_count < n THEN worst_scenario_count ELSE n
             list == Metric.worst_scenarios
  <1>1. /\ IsResultList(scenario_results) /\ n \in Nat /\ Indices = 1 .. n
        /\ list = WorstScenarios(scenario_results, worst_scenario_count)
    BY ReturnedMetrics DEF Metrics
  <1>2. PICK q \in Bijection(Indices, Indices) :
           /\ Sorted(scenario_results, Worse)
                = [i \in Indices |-> scenario_results[q[i]]]
           /\ \A i, j \in Indices :
                 i < j => ~Worse(scenario_results[q[j]], scenario_results[q[i]])
    BY <1>1, OrderOfResults DEF Indices
  <1>3. worst_scenario_count \in Nat /\ kept \in 0 .. n
    BY <1>1 DEF Calculated
  <1>4. list = [i \in 1 .. kept |-> WorstScenario(Sorted(scenario_results, Worse)[i])]
    BY <1>1 DEF WorstScenarios
  <1> HIDE DEF list
  <1>5. list = [i \in 1 .. kept |-> WorstScenario(scenario_results[q[i]])]
    <2>1. \A i \in 1 .. kept : i \in Indices
      BY <1>1, <1>3
    <2> HIDE DEF kept
    <2> QED
      BY <1>2, <1>4, <2>1
  <1> QED
    BY <1>2, <1>3, <1>5 DEF list

\* The list of a call holds the worst results.
LEMMA WorstFollow == Calculated => WorstAreWorst
  <1>1. ASSUME Calculated PROVE WorstAreWorst
    <2> DEFINE n == Len(scenario_results)
               list == Metric.worst_scenarios
               named(i) == WorstScenario(scenario_results[i])
               retained == ToSet(list)
               all      == {WorstScenario(r) : r \in ToSet(scenario_results)}
    <2>1. /\ n \in Nat /\ Indices = 1 .. n /\ DOMAIN scenario_results = 1 .. n
          /\ \A i \in 1 .. n : /\ scenario_results[i].scenario_id = i - 1
                               /\ scenario_results[i].pnl \in Int
      BY <1>1, ReturnedMetrics DEF IsResultList, Indices
    <2>2. PICK q \in Bijection(Indices, Indices), kept \in 0 .. n :
             /\ kept = IF worst_scenario_count < n THEN worst_scenario_count ELSE n
             /\ worst_scenario_count \in Nat
             /\ list = [i \in 1 .. kept |-> WorstScenario(scenario_results[q[i]])]
             /\ \A i, j \in Indices :
                   i < j => ~Worse(scenario_results[q[j]], scenario_results[q[i]])
      BY <1>1, WorstFollowOrder
    <2> HIDE DEF list, n
    <2>3. /\ \A i \in 1 .. n : q[i] \in 1 .. n
          /\ \A i, j \in 1 .. n : q[i] = q[j] => i = j
          /\ \A y \in 1 .. n : \E i \in 1 .. n : q[i] = y
      BY <2>1 DEF Bijection, Injection, Surjection, IsInjective
    <2>4. /\ DOMAIN list = 1 .. kept /\ Len(list) = kept
          /\ \A i \in 1 .. kept : i \in 1 .. n /\ list[i] = named(q[i])
      <3>1. list \in [1 .. kept -> Range(list)]
        BY <2>2 DEF Range
      <3> QED
        BY <2>1, <2>2, <3>1, FunctionIsSequence
    <2>5. \A i \in 1 .. n : /\ named(i).scenario_id = i - 1
                            /\ named(i).pnl = scenario_results[i].pnl
                            /\ named(i).pnl \in Int
      BY <2>1 DEF WorstScenario
    <2> HIDE DEF named
    <2>6. all = {named(i) : i \in 1 .. n}
      BY <2>1 DEF ToSet, named
    <2>7. retained = {named(q[i]) : i \in 1 .. kept}
      BY <2>4 DEF ToSet
    <2>8. retained \subseteq all
      BY <2>3, <2>4, <2>6, <2>7
    <2>9. Cardinality(retained) = Len(list)
      <3>1. list \in Bijection(1 .. kept, retained)
        <4>1. \A i, j \in 1 .. kept : list[i] = list[j] => i = j
          <5> TAKE i, j \in 1 .. kept
          <5> HAVE list[i] = list[j]
          <5>1. named(q[i]) = named(q[j]) /\ q[i] \in 1 .. n /\ q[j] \in 1 .. n
            BY <2>3, <2>4
          <5>2. q[i] - 1 = q[j] - 1
            BY <2>5, <5>1
          <5>3. q[i] = q[j]
            BY <5>1, <5>2
          <5> QED
            BY <2>3, <2>4, <5>3
        <4>2. list \in [1 .. kept -> retained]
          BY <2>2, <2>4 DEF ToSet
        <4>3. \A y \in retained : \E i \in 1 .. kept : list[i] = y
          BY <2>4 DEF ToSet
        <4> HIDE DEF retained
        <4> QED
          BY <4>1, <4>2, <4>3 DEF Bijection, Injection, Surjection, IsInjective
      <3>2. IsFiniteSet(1 .. kept) /\ Cardinality(1 .. kept) = kept
        BY <2>1, FS_Interval
      <3> HIDE DEF retained
      <3>3. ExistsBijection(1 .. kept, retained)
        BY <3>1 DEF ExistsBijection
      <3> QED
        BY <2>4, <3>2, <3>3, FS_Bijection
    <2>10. \/ Len(list) = worst_scenario_count
           \/ Len(list) < worst_scenario_count /\ retained = all
      <3>1. CASE worst_scenario_count < n
        BY <2>2, <2>4, <3>1
      <3>2. CASE ~(worst_scenario_count < n)
        <4>1. kept = n
          BY <2>2, <3>2
        <4>2. all \subseteq retained
          BY <2>3, <2>6, <2>7, <4>1
        <4> HIDE DEF all, retained
        <4> QED
          BY <2>1, <2>2, <2>4, <2>8, <3>2, <4>1, <4>2
      <3> QED
        BY <3>1, <3>2
    <2>11. ASSUME NEW i \in 1 .. n, NEW j \in 1 .. n, i < j
           PROVE  /\ named(q[i]).pnl <= named(q[j]).pnl
                  /\ named(q[i]).pnl = named(q[j]).pnl =>
                        named(q[i]).scenario_id < named(q[j]).scenario_id
      <3>1. ~Worse(scenario_results[q[j]], scenario_results[q[i]])
        BY <2>1, <2>2, <2>11
      <3>2. /\ q[i] \in 1 .. n /\ q[j] \in 1 .. n /\ q[i] # q[j]
        BY <2>3, <2>11
      <3>3. /\ scenario_results[q[i]].scenario_id = q[i] - 1
            /\ scenario_results[q[j]].scenario_id = q[j] - 1
            /\ named(q[i]).scenario_id = q[i] - 1
            /\ named(q[j]).scenario_id = q[j] - 1
            /\ named(q[i]).pnl = scenario_results[q[i]].pnl
            /\ named(q[j]).pnl = scenario_results[q[j]].pnl
            /\ scenario_results[q[i]].pnl \in Int
            /\ scenario_results[q[j]].pnl \in Int
        BY <2>1, <2>5, <3>2
      <3> QED
        BY <3>1, <3>2, <3>3 DEF Worse
    <2>12. \A i, j \in DOMAIN list : i < j =>
              /\ list[i].pnl <= list[j].pnl
              /\ list[i].pnl = list[j].pnl =>
                     list[i].scenario_id < list[j].scenario_id
      BY <2>4, <2>11
    <2>13. \A x \in retained, out \in all \ retained : x.pnl <= out.pnl
      <3> SUFFICES ASSUME NEW x \in retained, NEW out \in all \ retained
                   PROVE  x.pnl <= out.pnl
        OBVIOUS
      <3>1. PICK i \in 1 .. kept : x = named(q[i])
        BY <2>7
      <3>2. PICK k \in 1 .. n : out = named(k)
        BY <2>6
      <3>3. PICK j \in 1 .. n : q[j] = k
        BY <2>3
      <3>4. j \notin 1 .. kept
        BY <2>7, <3>2, <3>3
      <3>5. i \in 1 .. n /\ i < j
        BY <2>1, <3>4
      <3> QED
        BY <2>11, <3>1, <3>2, <3>3, <3>5
    <2> QED
      BY <2>8, <2>9, <2>10, <2>12, <2>13 DEF WorstAreWorst, list
  <1> QED
    BY <1>1

\* The list of worst scenarios holds as many distinct results as were asked
\* for or exist, worst first and ties in the order of the scenarios, and no
\* result that was left out is worse than one in the list.
THEOREM WorstAreTheWorst == Spec => []WorstAreWorst
  <1>1. IInv => WorstAreWorst
    BY ReturnedIsCalculated, WorstFollow DEF WorstAreWorst
  <1> QED
    BY <1>1, Invariance, PTL

-----------------------------------------------------------------------------
(* CVaR.                                                                   *)

\* tail is what the order p takes of n values after the first v.
TakesTail(tail, p, v, n, values) ==
    /\ p \in [1 .. n -> 1 .. n]
    /\ \A i, j \in 1 .. n : p[i] = p[j] => i = j
    /\ tail \in Seq(Int) /\ Len(tail) = n - v
    /\ \A i \in 1 .. (n - v) : tail[i] = values[p[v + i]]

\* The sum of the values that an order takes one after the other.
LEMMA SumAlongOrder ==
    ASSUME NEW n \in Nat, NEW v \in 0 .. n,
           NEW values \in [1 .. n -> Int], NEW g, IsSum(g, 1 .. n, values),
           NEW tail, NEW p, TakesTail(tail, p, v, n, values),
           NEW sums, PartialSums(sums, tail)
    PROVE  sums[n - v] = g[Taken(p, v + 1, n)]
  <1> DEFINE T == {k \in Nat : k \in 0 .. (n - v) =>
                      sums[k] = g[Taken(p, v + 1, v + k)]}
  <1>1. /\ sums[0] = 0
        /\ \A k \in 1 .. (n - v) : sums[k] = sums[k - 1] + tail[k]
        /\ p \in [1 .. n -> 1 .. n]
        /\ \A i, j \in 1 .. n : p[i] = p[j] => i = j
        /\ \A i \in 1 .. (n - v) : tail[i] = values[p[v + i]]
    BY DEF PartialSums, TakesTail
  <1>2. 0 \in T
    <2>1. Taken(p, v + 1, v + 0) = {}
      BY DEF Taken
    <2> QED
      BY <1>1, <2>1 DEF IsSum
  <1>3. ASSUME NEW k \in Nat, k \in T PROVE k + 1 \in T
    <2> SUFFICES ASSUME k + 1 \in 0 .. (n - v)
                 PROVE  sums[k + 1] = g[Taken(p, v + 1, v + (k + 1))]
      OBVIOUS
    <2> DEFINE W == Taken(p, v + 1, v + (k + 1))
               x == p[v + (k + 1)]
    <2>1. /\ k + 1 \in 1 .. (n - v) /\ (k + 1) - 1 = k /\ k \in 0 .. (n - v)
          /\ v + (k + 1) \in 1 .. n
      OBVIOUS
    <2>2. sums[k] = g[Taken(p, v + 1, v + k)]
      BY <1>3, <2>1
    <2> HIDE DEF T
    <2>3. W \in SUBSET (1 .. n) /\ x \in W
      <3>1. \A i \in (v + 1) .. (v + (k + 1)) : i \in 1 .. n /\ p[i] \in 1 .. n
        BY <1>1, <2>1
      <3>2. v + (k + 1) \in (v + 1) .. (v + (k + 1))
        OBVIOUS
      <3> QED
        BY <3>1, <3>2 DEF Taken
    <2>4. W \ {x} = Taken(p, v + 1, v + k)
      <3>1. ASSUME NEW i \in (v + 1) .. (v + k)
            PROVE  p[i] \in W /\ p[i] # x
        <4>1. i \in 1 .. n /\ i \in (v + 1) .. (v + (k + 1)) /\ i # v + (k + 1)
          BY <2>1
        <4> QED
          BY <1>1, <2>1, <4>1 DEF Taken
      <3>2. ASSUME NEW y \in W, y # x PROVE y \in Taken(p, v + 1, v + k)
        <4>1. PICK i \in (v + 1) .. (v + (k + 1)) : y = p[i]
          BY DEF Taken
        <4>2. i # v + (k + 1)
          BY <3>2, <4>1
        <4>3. i \in (v + 1) .. (v + k)
          BY <4>2
        <4> QED
          BY <4>1, <4>3 DEF Taken
      <3>3. \A y \in Taken(p, v + 1, v + k) : \E i \in (v + 1) .. (v + k) : y = p[i]
        BY DEF Taken
      <3> HIDE DEF W, x
      <3>4. \A y \in W \ {x} : y \in Taken(p, v + 1, v + k)
        BY <3>2
      <3>5. \A y \in Taken(p, v + 1, v + k) : y \in W \ {x}
        BY <3>1, <3>3
      <3> QED
        BY <3>4, <3>5
    <2>5. g[W] = values[x] + g[W \ {x}]
      <3> HIDE DEF W, x
      <3> QED
        BY <2>3 DEF IsSum
    <2>6. tail[k + 1] = values[x]
      BY <1>1, <2>1
    <2>7. values[x] \in Int /\ g[W \ {x}] \in Int
      <3>1. x \in 1 .. n /\ W \ {x} \in SUBSET (1 .. n)
        BY <1>1, <2>1, <2>3
      <3> HIDE DEF W, x
      <3> QED
        BY <3>1 DEF IsSum
    <2> HIDE DEF W, x
    <2>8. sums[k + 1] = g[W \ {x}] + values[x]
      <3>1. sums[k + 1] = sums[(k + 1) - 1] + tail[k + 1]
        BY <1>1, <2>1
      <3>2. sums[k + 1] = sums[k] + tail[k + 1]
        BY <2>1, <3>1
      <3>3. sums[k] = g[W \ {x}]
        BY <2>2, <2>4
      <3> QED
        BY <2>6, <3>2, <3>3
    <2> QED
      BY <2>5, <2>7, <2>8 DEF W
  <1> HIDE DEF T
  <1>4. n - v \in Nat
    OBVIOUS
  <1>5. n - v \in T
    BY <1>2, <1>3, <1>4, SetInduction
  <1>6. v + (n - v) = n /\ n - v \in 0 .. (n - v)
    OBVIOUS
  <1>7. sums[n - v] = g[Taken(p, v + 1, v + (n - v))]
    BY <1>5, <1>6 DEF T
  <1> QED
    BY <1>6, <1>7

\* The observations from VaR on, in the order of the losses.
LEMMA TailOfOrder ==
    ASSUME Calculated
    PROVE  LET n == Len(scenario_results)
               v == VarIndex(confidence_level, n)
               tail == RiskTail(scenario_results, confidence_level)
           IN  \A p \in [1 .. n -> 1 .. n] :
                  SortedLosses(scenario_results) = [i \in 1 .. n |-> LossOf(p[i])] =>
                     /\ tail \in Seq(Int) /\ Len(tail) = n - v
                     /\ \A i \in 1 .. (n - v) : tail[i] = LossOf(p[v + i])
                     /\ Metric.value_at_risk = LossOf(p[v + 1])
                     /\ Metric.tail_count = Len(tail)
                     /\ Metric.tail_sum = Total(tail)
  <1> DEFINE n == Len(scenario_results)
             v == VarIndex(confidence_level, n)
             tail == RiskTail(scenario_results, confidence_level)
  <1> SUFFICES ASSUME NEW p \in [1 .. n -> 1 .. n],
                      SortedLosses(scenario_results) = [i \in 1 .. n |-> LossOf(p[i])]
               PROVE  /\ tail \in Seq(Int) /\ Len(tail) = n - v
                      /\ \A i \in 1 .. (n - v) : tail[i] = LossOf(p[v + i])
                      /\ Metric.value_at_risk = LossOf(p[v + 1])
                      /\ Metric.tail_count = Len(tail)
                      /\ Metric.tail_sum = Total(tail)
    OBVIOUS
  <1> DEFINE losses == [i \in 1 .. n |-> LossOf(p[i])]
  <1>1. /\ n \in Nat \ {0} /\ v \in 0 .. (n - 1)
        /\ \A i \in 1 .. n : LossOf(i) \in Int
        /\ Metric.value_at_risk = losses[v + 1]
        /\ Metric.tail_count = Len(tail)
        /\ Metric.tail_sum = Total(tail)
        /\ tail = SubSeq(losses, v + 1, n)
    <2>1. /\ n \in Nat \ {0} /\ v \in 0 .. (n - 1) /\ Indices = 1 .. n
          /\ \A i \in Indices : LossOf(i) \in Int
          /\ Metric = Metrics(scenario_results, confidence_level,
                              worst_scenario_count)
      BY ReturnedMetrics
    <2>2. /\ Metric.value_at_risk = ValueAtRisk(scenario_results, confidence_level)
          /\ Metric.tail_count = Len(tail) /\ Metric.tail_sum = Total(tail)
      BY <2>1 DEF Metrics
    <2>3. SortedLosses(scenario_results) = losses
      OBVIOUS
    <2>4. ValueAtRisk(scenario_results, confidence_level) = losses[v + 1]
      <3> HIDE DEF losses
      <3> QED
        BY <2>3 DEF ValueAtRisk
    <2>5. tail = SubSeq(losses, v + 1, n)
      <3> HIDE DEF losses
      <3> QED
        BY <2>3 DEF RiskTail
    <2> QED
      BY <2>1, <2>2, <2>4, <2>5
  <1> HIDE DEF n, v, tail
  <1>2. losses \in [1 .. n -> Int]
    BY <1>1
  <1>3. losses \in Seq(Int) /\ Len(losses) = n
    <2> HIDE DEF losses
    <2> QED
      BY <1>1, <1>2, FunctionIsSequence
  <1>4. /\ Len(tail) = n - v
        /\ \A i \in 1 .. (n - v) : tail[i] = losses[v + i]
    <2> HIDE DEF losses
    <2> QED
      BY <1>1, <1>3
  <1>5. tail \in Seq(Int)
    <2>1. SubSeq(losses, v + 1, n) \in Seq(Int)
      <3> HIDE DEF losses
      <3> QED
        BY <1>1, <1>3
    <2> QED
      BY <1>1, <2>1
  <1>6. v + 1 \in 1 .. n /\ \A i \in 1 .. (n - v) : v + i \in 1 .. n
    BY <1>1
  <1> QED
    BY <1>1, <1>4, <1>5, <1>6 DEF n, v, tail

\* The CVaR of a call is a mean of losses, unless their sum overflows.
LEMMA TailMeanFollows == Calculated /\ IsFinite(Metric.tail_sum) => CvarIsTailMean
  <1>1. ASSUME Calculated, IsFinite(Metric.tail_sum) PROVE CvarIsTailMean
    <2> DEFINE n == Len(scenario_results)
               v == VarIndex(confidence_level, n)
               tail == RiskTail(scenario_results, confidence_level)
               values == [i \in 1 .. n |-> LossOf(i)]
    <2>1. /\ n \in Nat \ {0} /\ Indices = 1 .. n /\ v \in 0 .. (n - 1)
          /\ \A i \in Indices : LossOf(i) \in Int
      BY <1>1, ReturnedMetrics
    <2>2. /\ \A k \in 0 .. v : ~Suffice(k)
          /\ \A k \in (v + 1) .. n : NearlySuffice(k)
      BY <1>1, RankSuffices
    <2>3. PICK p \in Bijection(1 .. n, 1 .. n) :
             /\ SortedLosses(scenario_results) = [i \in 1 .. n |-> LossOf(p[i])]
             /\ \A i, j \in 1 .. n : i <= j => LossOf(p[i]) <= LossOf(p[j])
             /\ \A i \in 1 .. n : p[i] \in 1 .. n
             /\ \A i, j \in 1 .. n : p[i] = p[j] => i = j
             /\ \A y \in 1 .. n : \E i \in 1 .. n : p[i] = y
      BY <1>1, LossesFollowOrder
    <2>4. p \in [1 .. n -> 1 .. n]
      BY DEF Bijection, Injection
    <2>5. /\ tail \in Seq(Int) /\ Len(tail) = n - v
          /\ \A i \in 1 .. (n - v) : tail[i] = LossOf(p[v + i])
          /\ Metric.value_at_risk = LossOf(p[v + 1])
          /\ Metric.tail_count = n - v
          /\ Metric.tail_sum = Total(tail)
      BY <1>1, <2>3, <2>4, TailOfOrder
    <2> DEFINE worst == Taken(p, v + 1, n)
    <2> HIDE DEF n, v, tail
    <2>6. values \in [1 .. n -> Int] /\ \A i \in 1 .. n : values[i] = LossOf(i)
      BY <2>1
    <2> HIDE DEF values
    <2>7. worst \in SUBSET Indices /\ Cardinality(worst) = n - v
      <3>1. /\ v + 1 \in 1 .. (n + 1) /\ n \in 0 .. n /\ v + 1 <= n + 1
            /\ n + 1 - (v + 1) = n - v /\ n \in Nat
        BY <2>1
      <3>2. worst \subseteq 1 .. n /\ Cardinality(worst) = n + 1 - (v + 1)
        BY <3>1, ImageCardinality
      <3> QED
        BY <2>1, <3>1, <3>2
    <2>8. Metric.tail_sum = SumFunction([i \in worst |-> LossOf(i)])
      <3>0. n \in Nat /\ v \in 0 .. n
        BY <2>1
      <3>1. PICK g : IsSum(g, 1 .. n, values)
        BY <2>6, <3>0, PositionSumExists
      <3>2. PICK sums : PartialSums(sums, tail) /\ sums[Len(tail)] = Total(tail)
        BY <1>1, <2>5, FiniteTotalIsExact
      <3>3. \A i \in 1 .. (n - v) : tail[i] = values[p[v + i]]
        <4> TAKE i \in 1 .. (n - v)
        <4>1. v + i \in 1 .. n
          BY <3>0
        <4>2. p[v + i] \in 1 .. n
          BY <2>4, <4>1
        <4> QED
          BY <2>5, <2>6, <4>2
      <3>4. \A i, j \in 1 .. n : p[i] = p[j] => i = j
        BY <2>3
      <3>5. TakesTail(tail, p, v, n, values)
        BY <2>4, <2>5, <3>3, <3>4 DEF TakesTail
      <3>6. sums[n - v] = g[worst]
        BY <2>6, <3>0, <3>1, <3>2, <3>5, SumAlongOrder
      <3>7. worst \in SUBSET (1 .. n)
        BY <2>1, <2>7
      <3> HIDE DEF worst
      <3>8. SumFunction([i \in worst |-> LossOf(i)]) = g[worst]
        <4> DEFINE f == [i \in worst |-> LossOf(i)]
        <4>1. IsFiniteSet(1 .. n)
          BY <3>0, FS_Interval
        <4>2. DOMAIN f = worst
          OBVIOUS
        <4>3. IsPart(f, g, 1 .. n, values)
          BY <2>6, <3>1, <3>7 DEF IsPart
        <4> HIDE DEF f
        <4>4. SumFunction(f) = g[worst]
          BY <4>1, <4>2, <4>3, SumOfFunction
        <4> QED
          BY <4>4 DEF f
      <3> QED
        BY <2>5, <3>2, <3>6, <3>8
    <2>9. \A i \in worst : \E k \in (v + 1) .. n : i = p[k]
      BY DEF Taken
    <2>10. \A k \in (v + 1) .. n : p[k] \in worst
      BY DEF Taken
    <2> HIDE DEF worst
    <2>11. \A i \in worst : LossOf(i) >= Metric.value_at_risk
      <3> TAKE i \in worst
      <3>1. PICK k \in (v + 1) .. n : i = p[k]
        BY <2>9
      <3>2. k \in 1 .. n /\ v + 1 \in 1 .. n /\ v + 1 <= k
        BY <2>1
      <3>3. LossOf(p[v + 1]) <= LossOf(p[k])
        BY <2>3, <3>2
      <3>4. LossOf(p[v + 1]) \in Int /\ LossOf(p[k]) \in Int
        BY <2>1, <2>4, <3>2
      <3> QED
        BY <2>5, <3>1, <3>3, <3>4
    <2>12. \E i \in worst : LossOf(i) = Metric.value_at_risk
      <3>1. v + 1 \in (v + 1) .. n
        BY <2>1
      <3> QED
        BY <2>5, <2>10, <3>1
    <2>13. \A i \in Indices \ worst : LossOf(i) <= Metric.value_at_risk
      <3> TAKE i \in Indices \ worst
      <3>1. PICK k \in 1 .. n : p[k] = i
        BY <2>1, <2>3
      <3>2. k \notin (v + 1) .. n
        BY <2>10, <3>1
      <3>3. v + 1 \in 1 .. n /\ k <= v + 1
        BY <2>1, <3>2
      <3>4. LossOf(p[k]) <= LossOf(p[v + 1])
        BY <2>3, <3>3
      <3> QED
        BY <2>5, <3>1, <3>4
    <2>14. ~Suffice(n - Cardinality(worst)) /\ NearlySuffice(n - Cardinality(worst) + 1)
      <3>1. n - Cardinality(worst) = v /\ n - Cardinality(worst) + 1 = v + 1
        BY <2>1, <2>7
      <3>2. v \in 0 .. v /\ v + 1 \in (v + 1) .. n
        BY <2>1
      <3> QED
        BY <2>2, <3>1, <3>2
    <2>15. Metric.tail_count = Cardinality(worst)
      BY <2>5, <2>7
    <2> QED
      BY <2>7, <2>8, <2>11, <2>12, <2>13, <2>14, <2>15 DEF CvarIsTailMean, n
  <1> QED
    BY <1>1

\* CVaR is the mean of the VaR observation and of the results that are worse,
\* as many of them as lie beyond the confidence level, unless their sum
\* overflows.
THEOREM FiniteCvarIsTailMean ==
    Spec => []((Returned => IsFinite(Metric.tail_sum)) => CvarIsTailMean)
  <1>1. IInv => ((Returned => IsFinite(Metric.tail_sum)) => CvarIsTailMean)
    BY ReturnedIsCalculated, TailMeanFollows DEF CvarIsTailMean
  <1> QED
    BY <1>1, Invariance, PTL

\* Where the results are few or small enough for their sum, CVaR is the tail
\* mean in every call.
THEOREM CvarIsTheTailMean ==
    ASSUME NEW bound \in Nat, PnlValues \subseteq -bound .. bound,
           MaxResults * bound <= MaxFinite
    PROVE  Spec => []CvarIsTailMean
  <1>1. ASSUME IInv, Returned PROVE IsFinite(Metric.tail_sum)
    <2> DEFINE n == Len(scenario_results)
               v == VarIndex(confidence_level, n)
               tail == RiskTail(scenario_results, confidence_level)
    <2>0. Calculated
      BY <1>1, ReturnedIsCalculated
    <2>1. /\ n \in Nat \ {0} /\ n <= MaxResults /\ v \in 0 .. (n - 1)
          /\ \A i \in 1 .. n : scenario_results[i].pnl \in PnlValues
      BY <1>1, <2>0, ReturnedMetrics, ReturnedIsCalculated
    <2>2. PICK p \in Bijection(1 .. n, 1 .. n) :
             /\ SortedLosses(scenario_results) = [i \in 1 .. n |-> LossOf(p[i])]
             /\ \A i, j \in 1 .. n : i <= j => LossOf(p[i]) <= LossOf(p[j])
             /\ \A i \in 1 .. n : p[i] \in 1 .. n
             /\ \A i, j \in 1 .. n : p[i] = p[j] => i = j
             /\ \A y \in 1 .. n : \E i \in 1 .. n : p[i] = y
      BY <2>0, LossesFollowOrder
    <2>3. p \in [1 .. n -> 1 .. n]
      BY DEF Bijection, Injection
    <2>4. /\ tail \in Seq(Int) /\ Len(tail) = n - v
          /\ \A i \in 1 .. (n - v) : tail[i] = LossOf(p[v + i])
          /\ Metric.tail_sum = Total(tail)
      BY <2>0, <2>2, <2>3, TailOfOrder
    <2> DEFINE m == n - v
    <2> HIDE DEF n, v, tail
    <2>5. m \in Nat /\ m <= MaxResults /\ MaxResults \in Nat /\ Len(tail) = m
      BY <2>1, <2>4, ArgumentAssumption
    <2>6. \A i \in 1 .. m : tail[i] \in -bound .. bound
      <3> TAKE i \in 1 .. m
      <3>1. v + i \in 1 .. n
        BY <2>1
      <3>2. p[v + i] \in 1 .. n
        BY <2>3, <3>1
      <3>3. scenario_results[p[v + i]].pnl \in -bound .. bound
        BY <2>1, <3>2
      <3> QED
        BY <2>4, <3>3 DEF LossOf, Loss
    <2>7. PICK s \in [0 .. m -> Int] :
             /\ s[0] = 0 /\ s[m] = Total(tail)
             /\ \A i \in 1 .. m : s[i] = Plus(s[i - 1], tail[i])
      BY <2>4, <2>5, TotalByPrefixes
    <2> HIDE DEF m
    <2>8. ASSUME NEW k \in 0 .. m
          PROVE  k * bound \in Nat /\ k * bound <= MaxFinite
      <3>1. k \in Nat /\ k <= MaxResults
        BY <2>5
      <3>2. bound * k <= bound * MaxResults /\ bound * k \in Nat
        BY <2>5, <3>1, ProductMonotone
      <3>3. bound * k = k * bound /\ bound * MaxResults = MaxResults * bound
        BY <2>5, <3>1
      <3>4. MaxResults * bound \in Int /\ MaxFinite \in Int
        BY <2>5, MaxFiniteAssumption
      <3> QED
        BY <3>2, <3>3, <3>4
    <2> DEFINE T == {k \in Nat : k \in 0 .. m => s[k] \in -(k * bound) .. (k * bound)}
    <2>9. 0 \in T
      BY <2>7
    <2>10. ASSUME NEW k \in Nat, k \in T PROVE k + 1 \in T
      <3> SUFFICES ASSUME k + 1 \in 0 .. m
                   PROVE  s[k + 1] \in -((k + 1) * bound) .. ((k + 1) * bound)
        OBVIOUS
      <3>1. k \in 0 .. m /\ k + 1 \in 1 .. m /\ (k + 1) - 1 = k
        BY <2>5
      <3> DEFINE a == k * bound
                 b == (k + 1) * bound
      <3>2. b = a + bound
        OBVIOUS
      <3>3. a \in Nat /\ a <= MaxFinite /\ b \in Nat /\ b <= MaxFinite
        BY <2>8, <3>1
      <3>4. s[k] \in -a .. a
        BY <2>10, <3>1
      <3>5. s[k + 1] = Plus(s[k], tail[k + 1]) /\ tail[k + 1] \in -bound .. bound
        BY <2>6, <2>7, <3>1
      <3> HIDE DEF a, b
      <3>6. s[k] + tail[k + 1] \in -b .. b
        BY <3>2, <3>3, <3>4, <3>5
      <3>7. s[k + 1] = s[k] + tail[k + 1]
        BY <3>3, <3>4, <3>5, <3>6, MaxFiniteAssumption
        DEF Plus, IsFinite, FiniteValues, Saturate
      <3> QED
        BY <3>6, <3>7 DEF b
    <2> HIDE DEF T
    <2>11. m \in T
      BY <2>5, <2>9, <2>10, SetInduction
    <2>12. s[m] \in -(m * bound) .. (m * bound) /\ m \in 0 .. m
      BY <2>5, <2>11 DEF T
    <2>13. m * bound \in Nat /\ m * bound <= MaxFinite
      BY <2>8, <2>12
    <2> QED
      BY <2>4, <2>7, <2>12, <2>13, MaxFiniteAssumption DEF IsFinite, FiniteValues
  <1>2. IInv => (Returned => IsFinite(Metric.tail_sum))
    BY <1>1
  <1> QED
    BY <1>2, Invariance, FiniteCvarIsTailMean, PTL
================================================================================
