-------------------------- MODULE NstarDigitsProofs --------------------------
(***************************************************************************)
(* What shifting digits together and taking them apart does, for numbers   *)
(* of any length in any base.                                              *)
(***************************************************************************)
EXTENDS NstarDigits, NaturalsInduction, WellFoundedInduction, TLAPS

\* Induction, as a fact about a set of numbers.
LEMMA Induction ==
    ASSUME NEW L \in Nat, NEW S, 0 \in S,
           \A n \in 0..L : n # L /\ n \in S => n + 1 \in S
    PROVE  \A n \in 0..L : n \in S
<1> DEFINE Rest == {n \in 0..L : n \notin S}
<1> SUFFICES ASSUME Rest # {} PROVE FALSE
  OBVIOUS
<1>1. Rest \subseteq Nat
  OBVIOUS
<1>2. PICK m \in Rest : \A n \in Rest : <<n, m>> \notin OpToRel(<, Nat)
  BY <1>1, NatLessThanWellFounded, WFMin, Zenon
<1>3. m \in 0..L /\ m \notin S /\ m # 0
  OBVIOUS
<1>4. m - 1 \in 0..L /\ m - 1 # L /\ m - 1 \notin S
  BY <1>3
<1>5. m - 1 \in Rest /\ m \in Rest /\ m - 1 < m /\ m - 1 \in Nat /\ m \in Nat
  BY <1>3, <1>4
<1> QED  BY <1>2, <1>5 DEF OpToRel

\* There is a function defined by what it does with its value one before; ...
LEMMA Recursion ==
    ASSUME NEW T, NEW zero \in T, NEW L \in Nat, NEW next \in [1..L -> [T -> T]]
    PROVE  \E f \in [0..L -> T] :
              f[0] = zero /\ \A i \in 1..L : f[i] = next[i][f[i - 1]]
<1> DEFINE Upto(n, g) == /\ g[0] = zero
                         /\ \A i \in 1..n : g[i] = next[i][g[i - 1]]
           S == {n \in 0..L : \E g \in [0..n -> T] : Upto(n, g)}
<1>1. 0 \in S
  <2> DEFINE g == [i \in 0..0 |-> zero]
  <2>1. g \in [0..0 -> T] /\ Upto(0, g)
    OBVIOUS
  <2>2. 0 \in 0..L /\ \E h \in [0..0 -> T] : Upto(0, h)
    <3> HIDE DEF g
    <3> QED  BY <2>1
  <2> HIDE DEF Upto
  <2> QED  BY <2>2
<1>2. ASSUME NEW n \in 0..L, n # L, n \in S
      PROVE  n + 1 \in S
  <2>1. PICK g \in [0..n -> T] : Upto(n, g)
    BY <1>2
  <2>2. n + 1 \in 1..L /\ n \in 0..n /\ n + 1 \in 0..L /\ n \in Nat
    BY <1>2
  <2>3. g[n] \in T /\ next[n + 1][g[n]] \in T
    BY <2>2
  <2> DEFINE h == [i \in 0..(n + 1) |-> IF i = n + 1 THEN next[n + 1][g[n]] ELSE g[i]]
  <2>4. h \in [0..(n + 1) -> T]
    BY <2>2, <2>3
  <2>5. h[n + 1] = next[n + 1][g[n]] /\ \A i \in 0..n : h[i] = g[i]
    BY <2>2
  <2>6. Upto(n + 1, h)
    <3>1. h[0] = zero
      BY <2>1, <2>2, <2>5
    <3>2. ASSUME NEW i \in 1..(n + 1) PROVE h[i] = next[i][h[i - 1]]
      <4>1. CASE i = n + 1
        <5>1. i - 1 = n
          BY <2>2, <4>1
        <5> QED  BY <2>2, <2>5, <4>1, <5>1
      <4>2. CASE i # n + 1
        <5>1. i \in 1..n /\ i \in 0..n /\ i - 1 \in 0..n
          BY <2>2, <4>2
        <5> QED  BY <2>1, <2>5, <5>1
      <4> QED  BY <4>1, <4>2
    <3> QED  BY <3>1, <3>2
  <2> QED  BY <2>2, <2>4, <2>6
<1>3. L \in S
  <2> HIDE DEF S
  <2>1. \A n \in 0..L : n \in S
    BY <1>1, <1>2, Induction
  <2> QED  BY <2>1
<1>4. PICK g \in [0..L -> T] : Upto(L, g)
  BY <1>3
<1> QED  BY <1>4

\* ... and whatever does so has values of the same kind.
LEMMA RecursionTyped ==
    ASSUME NEW T, NEW L \in Nat, NEW f, f[0] \in T,
           \A i \in 1..L : f[i - 1] \in T => f[i] \in T
    PROVE  \A i \in 0..L : f[i] \in T
<1> DEFINE Q == {n \in 0..L : f[n] \in T}
<1>1. 0 \in Q
  OBVIOUS
<1>2. ASSUME NEW n \in 0..L, n # L, n \in Q PROVE n + 1 \in Q
  <2>1. n + 1 \in 1..L /\ (n + 1) - 1 = n /\ n + 1 \in 0..L /\ f[n] \in T
    BY <1>2
  <2> QED  BY <2>1
<1>3. \A n \in 0..L : n \in Q
  <2> HIDE DEF Q
  <2> QED  BY <1>1, <1>2, Induction
<1> QED  BY <1>3
-----------------------------------------------------------------------------
\* Multiplication keeps an order.
LEMMA Times ==
    ASSUME NEW a \in Int, NEW b \in Int, NEW c \in Nat, a <= b
    PROVE  a * c <= b * c
OBVIOUS

\* A division and its remainder, ...
LEMMA Division ==
    ASSUME NEW a \in Int, NEW d \in Nat \ {0}
    PROVE  /\ a = d * (a \div d) + (a % d)
           /\ a % d \in 0..d - 1 /\ a \div d \in Int
           /\ a \in Nat => a \div d \in Nat
OBVIOUS

\* ... which are determined by the sum they make up.
LEMMA DivisionUnique ==
    ASSUME NEW d \in Nat \ {0}, NEW q \in Int, NEW k \in Int,
           NEW r \in 0..d - 1, NEW s \in 0..d - 1, d * q + r = d * k + s
    PROVE  q = k /\ r = s
<1>1. ASSUME NEW a \in Int, NEW b \in Int, NEW x \in 0..d - 1, NEW y \in 0..d - 1,
             d * a + x = d * b + y, a < b
      PROVE  FALSE
  <2>1. d * (b - a) >= d
    <3>1. 1 <= b - a
      BY <1>1
    <3> QED  BY <3>1, Times
  <2>2. d * (b - a) = d * b - d * a
    OBVIOUS
  <2>3. d * a \in Int /\ d * b \in Int
    OBVIOUS
  <2> QED  BY <1>1, <2>1, <2>2, <2>3
<1>2. ~(q < k) /\ ~(k < q)
  BY <1>1
<1>3. q = k
  BY <1>2
<1> QED  BY <1>3

\* Dividing twice is dividing by the product.
LEMMA DivisionNested ==
    ASSUME NEW v \in Nat, NEW p \in Nat \ {0}, NEW b \in Nat \ {0}
    PROVE  (v \div p) \div b = v \div (b * p)
<1> DEFINE q == v \div p
           r == v % p
           k == q \div b
           s == q % b
           d == b * p
           sum == p * s + r
<1>1. v = p * q + r /\ r \in 0..p - 1 /\ q \in Nat
  <2>1. v \in Int
    OBVIOUS
  <2> QED  BY <2>1, Division
<1>2. q = b * k + s /\ s \in 0..b - 1 /\ k \in Nat
  <2>1. q \in Int /\ q \in Nat
    BY <1>1
  <2> HIDE DEF q
  <2> QED  BY <2>1, Division
<1>3. d \in Nat \ {0}
  OBVIOUS
<1> HIDE DEF q, r, k, s
<1>4. p * s <= p * (b - 1) /\ p * s \in Nat
  <2>1. s <= b - 1 /\ s \in Nat
    BY <1>2
  <2> QED  BY <2>1, Times
<1>5. p * (b - 1) = d - p
  OBVIOUS
<1>6. sum \in 0..d - 1
  BY <1>1, <1>3, <1>4, <1>5
<1>7. v = d * k + sum
  <2>1. p * (b * k + s) = d * k + p * s
    BY <1>2
  <2> QED  BY <1>1, <1>2, <2>1
<1> HIDE DEF d, sum
<1>8. v = d * (v \div d) + (v % d) /\ v % d \in 0..d - 1 /\ v \div d \in Nat
  <2>1. v \in Int
    OBVIOUS
  <2> QED  BY <1>3, <2>1, Division
<1>9. k = v \div d
  <2>1. k \in Int /\ v \div d \in Int /\ d * k + sum = d * (v \div d) + (v % d)
    BY <1>2, <1>7, <1>8
  <2> QED  BY <1>3, <1>6, <1>8, <2>1, DivisionUnique
<1> QED  BY <1>9 DEF k, q, d
-----------------------------------------------------------------------------
\* The recursion of Power is one.
LEMMA PowerRecursion ==
    ASSUME NEW base \in Nat \ {0}, NEW n \in Nat
    PROVE  \E f \in [0..n -> Nat \ {0}] :
              /\ f[0] = 1 /\ \A k \in 1..n : f[k] = base * f[k - 1]
              /\ Power(base, n) = f[n]
<1> DEFINE T == Nat \ {0}
           Def(f) == [k \in 0..n |-> IF k = 0 THEN 1 ELSE base * f[k - 1]]
           next == [k \in 1..n |-> [x \in T |-> base * x]]
           p == CHOOSE f : f = Def(f)
<1>1. next \in [1..n -> [T -> T]] /\ 1 \in T
  OBVIOUS
<1>2. PICK g \in [0..n -> T] : g[0] = 1 /\ \A k \in 1..n : g[k] = next[k][g[k - 1]]
  <2> HIDE DEF next, T
  <2> QED  BY <1>1, Recursion
<1>3. g = Def(g)
  <2>1. ASSUME NEW k \in 1..n PROVE g[k] = base * g[k - 1]
    <3>1. k - 1 \in 0..n
      OBVIOUS
    <3> QED  BY <1>2, <3>1
  <2> QED  BY <1>2, <2>1
<1>4. p = Def(p)
  BY <1>3
<1>5. Power(base, n) = p[n]
  BY DEF Power
<1> HIDE DEF p
<1>6. p[0] = 1 /\ \A k \in 1..n : p[k] = base * p[k - 1]
  BY <1>4
<1>7. \A k \in 0..n : p[k] \in T
  <2>1. ASSUME NEW k \in 1..n, p[k - 1] \in T PROVE p[k] \in T
    <3>1. ASSUME NEW x \in T PROVE base * x \in T
      OBVIOUS
    <3>2. p[k] = base * p[k - 1]
      BY <1>6
    <3> HIDE DEF T
    <3> QED  BY <2>1, <3>1, <3>2
  <2>2. p[0] \in T
    BY <1>6
  <2> HIDE DEF T
  <2> QED  BY <2>1, <2>2, RecursionTyped
<1>8. p \in [0..n -> T]
  BY <1>4, <1>7
<1> QED  BY <1>5, <1>6, <1>8

\* One digit more multiplies by the base.
LEMMA PowerStep ==
    ASSUME NEW base \in Nat \ {0}, NEW n \in Nat
    PROVE  /\ Power(base, n) \in Nat \ {0} /\ Power(base, 0) = 1
           /\ Power(base, n + 1) = base * Power(base, n)
<1>1. PICK f \in [0..n -> Nat \ {0}] :
         /\ f[0] = 1 /\ \A k \in 1..n : f[k] = base * f[k - 1]
         /\ Power(base, n) = f[n]
  BY PowerRecursion
<1>2. PICK g \in [0..n + 1 -> Nat \ {0}] :
         /\ g[0] = 1 /\ \A k \in 1..n + 1 : g[k] = base * g[k - 1]
         /\ Power(base, n + 1) = g[n + 1]
  <2>1. n + 1 \in Nat
    OBVIOUS
  <2> QED  BY <2>1, PowerRecursion
<1> DEFINE Same == {k \in 0..n : f[k] = g[k]}
<1>3. \A k \in 0..n : k \in Same
  <2>1. 0 \in Same
    BY <1>1, <1>2
  <2>2. ASSUME NEW k \in 0..n, k # n, k \in Same PROVE k + 1 \in Same
    <3>1. k + 1 \in 1..n /\ k + 1 \in 1..n + 1 /\ (k + 1) - 1 = k /\ k + 1 \in 0..n
      BY <2>2
    <3> QED  BY <1>1, <1>2, <2>2, <3>1
  <2> HIDE DEF Same
  <2> QED  BY <2>1, <2>2, Induction
<1>4. f[n] = g[n]
  BY <1>3
<1>5. Power(base, n + 1) = base * Power(base, n)
  <2>1. n + 1 \in 1..n + 1 /\ (n + 1) - 1 = n
    OBVIOUS
  <2> QED  BY <1>1, <1>2, <1>4, <2>1
<1>6. Power(base, n) \in Nat \ {0}
  BY <1>1
<1>7. Power(base, 0) = 1
  <2>1. 0 \in Nat
    OBVIOUS
  <2>2. PICK h \in [0..0 -> Nat \ {0}] : h[0] = 1 /\ Power(base, 0) = h[0]
    BY <2>1, PowerRecursion
  <2> QED  BY <2>2
<1> QED  BY <1>5, <1>6, <1>7

\* A power of a base is a divisor.
LEMMA PowerType ==
    ASSUME NEW base \in Nat \ {0}, NEW n \in Nat
    PROVE  Power(base, n) \in Nat \ {0}
BY PowerStep

\* f[i] is what the first i of n digits stand for.
Sums(f, base, d, n) == /\ \A i \in 0..n : f[i] \in Nat
                       /\ f[0] = 0 /\ \A i \in 1..n : f[i] = f[i - 1] * base + d[i]

\* There is a function that puts digits together one by one.
LEMMA Horner ==
    ASSUME NEW base \in Nat \ {0}, NEW n \in Nat, NEW d,
           \A i \in 1..n : d[i] \in Nat
    PROVE  \E f : Sums(f, base, d, n)
<1> DEFINE next == [i \in 1..n |-> [x \in Nat |-> x * base + d[i]]]
<1>1. next \in [1..n -> [Nat -> Nat]] /\ 0 \in Nat
  <2>1. ASSUME NEW i \in 1..n, NEW x \in Nat PROVE x * base + d[i] \in Nat
    <3>1. x * base \in Nat /\ d[i] \in Nat
      OBVIOUS
    <3> QED  BY <3>1
  <2> QED  BY <2>1
<1>2. PICK g \in [0..n -> Nat] : g[0] = 0 /\ \A i \in 1..n : g[i] = next[i][g[i - 1]]
  <2>1. PICK T, zero, step : T = Nat /\ zero = 0 /\ step = next
    OBVIOUS
  <2>2. zero \in T /\ step \in [1..n -> [T -> T]] /\ n \in Nat
    BY <1>1, <2>1
  <2>3. \E g \in [0..n -> T] :
           g[0] = zero /\ \A i \in 1..n : g[i] = step[i][g[i - 1]]
    BY ONLY <2>2, Recursion
  <2> HIDE DEF next
  <2> QED  BY <2>1, <2>3
<1>3. ASSUME NEW i \in 1..n PROVE g[i] = g[i - 1] * base + d[i]
  <2>1. i - 1 \in 0..n
    OBVIOUS
  <2> QED  BY <1>2, <2>1
<1> QED  BY <1>2, <1>3 DEF Sums

\* The recursion of Value is one.
LEMMA ValueRecursion ==
    ASSUME NEW base \in Nat \ {0}, NEW n \in Nat, NEW d \in [1..n -> Nat]
    PROVE  \E f : Sums(f, base, d, n) /\ Value(base, d) = f[n]
<1> DEFINE Def(f) == [i \in 0..n |-> IF i = 0 THEN 0 ELSE f[i - 1] * base + d[i]]
           u == CHOOSE f : f = Def(f)
<1>1. PICK h : Sums(h, base, d, n)
  <2>1. \A i \in 1..n : d[i] \in Nat
    OBVIOUS
  <2> QED  BY <2>1, Horner
<1> DEFINE g == [i \in 0..n |-> h[i]]
<1>2. ASSUME NEW i \in 1..n
      PROVE  g[i] = h[i - 1] * base + d[i] /\ g[i - 1] = h[i - 1]
  <2>1. i \in 0..n /\ i - 1 \in 0..n
    OBVIOUS
  <2> QED  BY <1>1, <2>1 DEF Sums
<1>3. g = Def(g)
  BY <1>1, <1>2 DEF Sums
<1>4. u = Def(u)
  BY <1>3
<1>5. Value(base, d) = u[n]
  <2>1. Len(d) = n
    OBVIOUS
  <2> QED  BY <2>1 DEF Value
<1> HIDE DEF u
<1>6. u[0] = 0 /\ \A i \in 1..n : u[i] = u[i - 1] * base + d[i]
  BY <1>4
<1>7. \A i \in 0..n : u[i] \in Nat
  <2>1. ASSUME NEW i \in 1..n, u[i - 1] \in Nat PROVE u[i] \in Nat
    <3>1. u[i - 1] * base \in Nat /\ d[i] \in Nat
      BY <2>1
    <3> QED  BY <1>6, <3>1
  <2>2. u[0] \in Nat
    BY <1>6
  <2> QED  BY <2>1, <2>2, RecursionTyped
<1> QED  BY <1>5, <1>6, <1>7 DEF Sums

\* What n digits stand for has no more than n digits.
LEMMA ValueRange ==
    ASSUME NEW base \in Nat \ {0}, NEW n \in Nat, NEW d \in [1..n -> 0..base - 1]
    PROVE  Value(base, d) \in 0..Power(base, n) - 1
<1>1. d \in [1..n -> Nat]
  OBVIOUS
<1>2. PICK f : Sums(f, base, d, n) /\ Value(base, d) = f[n]
  BY <1>1, ValueRecursion
<1> DEFINE Small == {i \in 0..n : f[i] + 1 <= Power(base, i)}
<1>3. 0 \in Small
  <2>1. Power(base, 0) = 1
    BY PowerStep
  <2> QED  BY <1>2, <2>1 DEF Sums
<1>4. ASSUME NEW i \in 0..n, i # n, i \in Small PROVE i + 1 \in Small
  <2>1. i + 1 \in 1..n /\ (i + 1) - 1 = i /\ i + 1 \in 0..n /\ i \in Nat
    BY <1>4
  <2>2. f[i + 1] = f[i] * base + d[i + 1] /\ d[i + 1] <= base - 1
    BY <1>2, <2>1 DEF Sums
  <2>3. (f[i] + 1) * base <= Power(base, i) * base
    <3>1. Power(base, i) \in Nat
      BY <2>1, PowerType
    <3>2. f[i] \in Nat /\ f[i] + 1 <= Power(base, i)
      BY <1>2, <1>4 DEF Sums
    <3> DEFINE a == f[i] + 1
               q == Power(base, i)
    <3>3. a \in Int /\ q \in Int /\ base \in Nat /\ a <= q
      BY <3>1, <3>2
    <3> HIDE DEF a, q
    <3>4. a * base <= q * base
      BY <3>3, Times
    <3> QED  BY <3>4 DEF a, q
  <2>4. Power(base, i + 1) = base * Power(base, i) /\ Power(base, i) \in Nat
    BY <2>1, PowerStep
  <2>5. f[i + 1] + 1 <= Power(base, i + 1)
    <3> DEFINE a == f[i] * base
               q == Power(base, i + 1)
               e == d[i + 1]
    <3>1. /\ (f[i] + 1) * base = a + base /\ Power(base, i) * base = q
          /\ a \in Nat /\ e \in Nat /\ q \in Nat
      <4>1. f[i] \in Nat /\ e \in Nat
        BY <1>2, <2>1 DEF Sums
      <4>2. (f[i] + 1) * base = a + base /\ a \in Nat
        BY <4>1
      <4>3. Power(base, i) * base = q /\ q \in Nat
        BY <2>4
      <4> QED  BY <4>1, <4>2, <4>3
    <3>2. a + base <= q /\ f[i + 1] = a + e /\ e <= base - 1
      BY <2>2, <2>3, <3>1
    <3> HIDE DEF a, q, e
    <3>3. f[i + 1] + 1 <= q
      BY <3>1, <3>2
    <3> QED  BY <3>3 DEF q
  <2> QED  BY <2>1, <2>5
<1>5. \A i \in 0..n : i \in Small
  <2> HIDE DEF Small
  <2> QED  BY <1>3, <1>4, Induction
<1>6. f[n] \in Nat /\ f[n] + 1 <= Power(base, n) /\ Power(base, n) \in Nat
  <2>1. Power(base, n) \in Nat
    BY PowerType
  <2> QED  BY <1>2, <1>5, <2>1 DEF Sums
<1> QED  BY <1>2, <1>6

\* A digit is one.
LEMMA DigitRange ==
    ASSUME NEW base \in Nat \ {0}, NEW v \in Nat, NEW n \in Nat, NEW i \in 1..n
    PROVE  Digit(base, v, n, i) \in 0..base - 1 /\ v \div Power(base, n - i) \in Nat
<1>1. n - i \in Nat
  OBVIOUS
<1>2. Power(base, n - i) \in Nat \ {0}
  BY <1>1, PowerStep
<1>3. v \div Power(base, n - i) \in Nat
  <2>1. v \in Int
    OBVIOUS
  <2> QED  BY <1>2, <2>1, Division
<1>4. \A x \in Int : x % base \in 0..base - 1
  BY Division
<1> QED  BY <1>3, <1>4 DEF Digit

\* A number that is shorter than n digits is what its n digits stand for:
\* nothing is lost between the code's shifts one way and the other.
THEOREM ValueOfDigits ==
    ASSUME NEW base \in Nat \ {0}, NEW v \in Nat, NEW n \in Nat, v < Power(base, n)
    PROVE  Value(base, DigitsOf(base, v, n)) = v
<1> DEFINE d == DigitsOf(base, v, n)
           p(k) == Power(base, k)
<1>1. \A k \in Nat : p(k) \in Nat \ {0} /\ p(0) = 1 /\ p(k + 1) = base * p(k)
  BY PowerStep
<1>2. d \in [1..n -> Nat] /\ \A i \in 1..n : d[i] = (v \div p(n - i)) % base
  <2>1. \A i \in 1..n : Digit(base, v, n, i) \in Nat
    BY DigitRange
  <2> QED  BY <2>1 DEF DigitsOf, Digit
<1> HIDE DEF d, p
<1>3. PICK f : Sums(f, base, d, n) /\ Value(base, d) = f[n]
  BY <1>2, ValueRecursion
<1> DEFINE Done == {i \in 0..n : f[i] = v \div p(n - i)}
<1>4. 0 \in Done
  <2>1. p(n) \in Nat \ {0} /\ v < p(n) /\ v \in 0..p(n) - 1
    BY <1>1 DEF p
  <2>2. v = p(n) * (v \div p(n)) + (v % p(n)) /\ v % p(n) \in 0..p(n) - 1
        /\ v \div p(n) \in Int
    <3>1. v \in Int
      OBVIOUS
    <3> QED  BY <2>1, <3>1, Division
  <2>3. v = p(n) * 0 + v
    BY <2>1
  <2>4. v \div p(n) = 0
    <3> DEFINE c == p(n)
               q == v \div c
               m == v % c
    <3>1. /\ c \in Nat \ {0} /\ q \in Int /\ 0 \in Int /\ m \in 0..c - 1
          /\ v \in 0..c - 1 /\ c * q + m = c * 0 + v
      BY <2>1, <2>2, <2>3
    <3> HIDE DEF c, q, m
    <3>2. q = 0
      BY <3>1, DivisionUnique
    <3> QED  BY <3>2 DEF q, c
  <2>5. n - 0 = n /\ 0 \in 0..n
    OBVIOUS
  <2> QED  BY <1>3, <2>4, <2>5 DEF Sums
<1>5. ASSUME NEW i \in 0..n, i # n, i \in Done PROVE i + 1 \in Done
  <2> DEFINE k == n - (i + 1)
             x == v \div p(k)
  <2>1. /\ i + 1 \in 1..n /\ (i + 1) - 1 = i /\ i + 1 \in 0..n /\ k \in Nat
        /\ n - i = k + 1
    BY <1>5
  <2>2. f[i + 1] = f[i] * base + d[i + 1] /\ d[i + 1] = x % base
    BY <1>2, <1>3, <2>1 DEF Sums
  <2>3. f[i] = v \div (base * p(k))
    BY <1>1, <1>5, <2>1
  <2>4. p(k) \in Nat \ {0}
    BY <1>1, <2>1
  <2>5. x \div base = f[i]
    BY <2>3, <2>4, DivisionNested
  <2>6. x \in Int
    <3>1. v \in Int
      OBVIOUS
    <3> QED  BY <2>4, <3>1, Division
  <2> HIDE DEF x
  <2>7. x = base * (x \div base) + (x % base) /\ x \div base \in Int /\ x % base \in Int
    <3>1. base \in Nat \ {0}
      OBVIOUS
    <3>2. x \div base \in Int /\ x % base \in 0..base - 1
      BY <2>6, <3>1, Division
    <3>3. x = base * (x \div base) + (x % base)
      BY <2>6, <3>1, Division
    <3> QED  BY <3>1, <3>2, <3>3
  <2>8. f[i + 1] = x
    BY <2>2, <2>5, <2>7
  <2> QED  BY <2>1, <2>8 DEF x
<1>6. \A i \in 0..n : i \in Done
  <2> HIDE DEF Done
  <2> QED  BY <1>4, <1>5, Induction
<1>7. f[n] = v \div p(0)
  <2>1. n \in 0..n /\ n - n = 0
    OBVIOUS
  <2> QED  BY <1>6, <2>1
<1>8. p(0) = 1
  BY <1>1
<1> QED  BY <1>3, <1>7, <1>8 DEF d

\* No two sequences of n digits stand for the same number.
LEMMA ValueInjective ==
    ASSUME NEW base \in Nat \ {0}, NEW n \in Nat, NEW d \in [1..n -> 0..base - 1],
           NEW e \in [1..n -> 0..base - 1], Value(base, d) = Value(base, e)
    PROVE  d = e
<1>1. d \in [1..n -> Nat] /\ e \in [1..n -> Nat]
  OBVIOUS
<1>2. PICK f : Sums(f, base, d, n) /\ Value(base, d) = f[n]
  BY <1>1, ValueRecursion
<1>3. PICK g : Sums(g, base, e, n) /\ Value(base, e) = g[n]
  BY <1>1, ValueRecursion
<1>4. ASSUME NEW i \in 1..n, f[i] = g[i] PROVE f[i - 1] = g[i - 1] /\ d[i] = e[i]
  <2>1. i - 1 \in 0..n
    OBVIOUS
  <2>2. /\ f[i - 1] \in Int /\ g[i - 1] \in Int
        /\ f[i] = f[i - 1] * base + d[i] /\ g[i] = g[i - 1] * base + e[i]
    BY <1>2, <1>3, <2>1 DEF Sums
  <2>3. d[i] \in 0..base - 1 /\ e[i] \in 0..base - 1
    OBVIOUS
  <2> DEFINE u == f[i - 1]
             w == g[i - 1]
             x == d[i]
             y == e[i]
  <2>4. u * base + x = w * base + y
    BY <1>4, <2>2
  <2>5. u \in Int /\ w \in Int /\ x \in 0..base - 1 /\ y \in 0..base - 1
    BY <2>2, <2>3
  <2> HIDE DEF u, w, x, y
  <2>6. /\ base \in Nat \ {0} /\ u \in Int /\ w \in Int /\ x \in 0..base - 1
        /\ y \in 0..base - 1 /\ base * u + x = base * w + y
    BY <2>4, <2>5
  <2>7. u = w
    BY ONLY <2>6, DivisionUnique
  <2>8. x = y
    BY ONLY <2>6, <2>7
  <2> QED  BY <2>7, <2>8 DEF u, w, x, y
<1> DEFINE S == {k \in 0..n : f[n - k] = g[n - k]}
<1>5. \A k \in 0..n : k \in S
  <2>1. 0 \in S
    <3>1. n - 0 = n /\ 0 \in 0..n
      OBVIOUS
    <3>2. f[n] = g[n]
      BY <1>2, <1>3
    <3>3. f[n - 0] = g[n - 0]
      BY <3>1, <3>2
    <3> QED  BY ONLY <3>1, <3>3
  <2>2. ASSUME NEW k \in 0..n, k # n, k \in S PROVE k + 1 \in S
    <3>1. n - k \in 1..n /\ k + 1 \in 0..n /\ (n - k) - 1 = n - (k + 1)
      BY <2>2
    <3>2. f[n - k] = g[n - k]
      BY <2>2
    <3>3. f[(n - k) - 1] = g[(n - k) - 1]
      BY <1>4, <3>1, <3>2
    <3> QED  BY <3>1, <3>3
  <2> HIDE DEF S
  <2> QED  BY <2>1, <2>2, Induction
<1>6. ASSUME NEW i \in 1..n PROVE d[i] = e[i]
  <2>1. n - i \in 0..n /\ n - (n - i) = i
    OBVIOUS
  <2>2. f[n - (n - i)] = g[n - (n - i)]
    BY <1>5, <2>1
  <2> QED  BY <1>4, <2>1, <2>2
<1> QED  BY <1>6
=============================================================================
