---------------------------- MODULE ArithmeticProofs --------------------------
(***************************************************************************)
(* Proofs about the two arithmetics that the primitives use.               *)
(*   Digits: a number is the value of its digits, for every base and any   *)
(*   number of them.                                                       *)
(*   Gf2: the polynomials over GF(2) modulo a polynomial are a ring.       *)
(*   PolyMul is additive on both sides and PolyMod on its argument, the    *)
(*   multiplication by x is a shift and a conditional exclusive or, and    *)
(*   the product modulo any polynomial is associative.                     *)
(* Induction over the naturals is an argument about the least              *)
(* counterexample, and recursive functions over an interval exist because  *)
(* such a recursion has a solution, and only one.                          *)
(***************************************************************************)
EXTENDS Digits, Gf2, FiniteSetTheorems, WellFoundedInduction, TLAPS

(* A set of natural numbers that is not empty has a least member.          *)
LEMMA LeastNatural ==
    ASSUME NEW T, T \subseteq Nat, T # {} PROVE \E m \in T : \A k \in T : m <= k
<1> DEFINE R == OpToRel(<, Nat)
<1>1. \A x, y \in Nat : <<x, y>> \in R <=> x < y
    BY DEF OpToRel
<1>2. IsWellFoundedOn(R, Nat)
    BY NatLessThanWellFounded, Zenon
<1> HIDE DEF R
<1>3. PICK m \in T : \A k \in T : ~(<<k, m>> \in R)
    BY <1>2, WFMin
<1>4. \A k \in T : ~(k < m)
    BY <1>1, <1>3
<1>5. m \in Nat /\ \A k \in T : k \in Nat
    OBVIOUS
<1>6. \A k \in T : m <= k
    BY <1>4, <1>5
<1> QED BY <1>6

(* A set with 0 that has with m also m + 1, up to n, has all of 0 .. n.    *)
LEMMA IntervalInduction ==
    ASSUME NEW n \in Nat, NEW Good, 0 \in Good,
           \A m \in 0 .. n - 1 : m \in Good => m + 1 \in Good
    PROVE  \A m \in 0 .. n : m \in Good
<1> DEFINE T == {m \in 0 .. n : m \notin Good}
<1> SUFFICES ASSUME T # {} PROVE FALSE
    OBVIOUS
<1>1. T \subseteq Nat
    OBVIOUS
<1>2. PICK m \in T : \A k \in T : m <= k
  <2> HIDE DEF T
  <2> QED BY <1>1, LeastNatural
<1>3. m \in 0 .. n /\ m \notin Good /\ m # 0
    BY <1>2
<1>4. m - 1 \in 0 .. n - 1 /\ m - 1 \notin T
  <2>1. m - 1 \in 0 .. n - 1 /\ ~(m <= m - 1)
      BY <1>3
  <2> QED BY <1>2, <2>1
<1>5. m - 1 \in Good
    BY <1>3, <1>4
<1>6. (m - 1) + 1 \in Good /\ (m - 1) + 1 = m
    BY <1>3, <1>4, <1>5
<1> QED BY <1>3, <1>6

(* f is the solution of a recursion over 0 .. n: a at 0, g for the others. *)
Solves(f, n, a, g) == f = [k \in 0 .. n |-> IF k = 0 THEN a ELSE g[<<k, f[k - 1]>>]]

LEMMA SolutionExists ==
    ASSUME NEW n \in Nat, NEW V, NEW a \in V, NEW g \in [(1 .. n) \X V -> V]
    PROVE  \E f \in [0 .. n -> V] : Solves(f, n, a, g)
<1> DEFINE Good == {m \in 0 .. n : \E f \in [0 .. m -> V] : Solves(f, m, a, g)}
<1>1. 0 \in Good
  <2> DEFINE f == [k \in 0 .. 0 |-> a]
  <2>1. f \in [0 .. 0 -> V] /\ Solves(f, 0, a, g)
      BY DEF Solves
  <2>2. \E h \in [0 .. 0 -> V] : Solves(h, 0, a, g)
    <3> HIDE DEF f
    <3> QED BY <2>1
  <2> QED BY <2>2
<1>2. ASSUME NEW m \in 0 .. n - 1, m \in Good PROVE m + 1 \in Good
  <2>1. PICK f \in [0 .. m -> V] : Solves(f, m, a, g)
      BY <1>2
  <2> DEFINE top == g[<<m + 1, f[m]>>]
             h == [k \in 0 .. m + 1 |-> IF k <= m THEN f[k] ELSE top]
  <2>2. m \in 0 .. m /\ m + 1 \in 1 .. n /\ m + 1 \in 0 .. n
      OBVIOUS
  <2>3. top \in V
      BY <2>2
  <2> HIDE DEF top
  <2>4. h \in [0 .. m + 1 -> V]
    <3>1. ASSUME NEW k \in 0 .. m + 1, k <= m PROVE f[k] \in V
      <4>1. k \in 0 .. m
          BY <3>1
      <4> QED BY <4>1
    <3> QED BY <2>3, <3>1
  <2>5. ASSUME NEW k \in 0 .. m + 1
        PROVE  h[k] = IF k = 0 THEN a ELSE g[<<k, h[k - 1]>>]
    <3>1. CASE k = m + 1
      <4>1. h[k] = top /\ h[k - 1] = f[m] /\ k # 0
          BY <3>1
      <4> QED BY <3>1, <4>1 DEF top
    <3>2. CASE k \in 0 .. m
      <4>1. h[k] = f[k] /\ (k # 0 => h[k - 1] = f[k - 1])
          BY <3>2
      <4>2. f[k] = IF k = 0 THEN a ELSE g[<<k, f[k - 1]>>]
          BY <2>1, <3>2 DEF Solves
      <4> QED BY <4>1, <4>2
    <3> QED BY <3>1, <3>2
  <2> HIDE DEF h
  <2>6. Solves(h, m + 1, a, g)
      BY <2>4, <2>5 DEF Solves
  <2>7. \E x \in [0 .. m + 1 -> V] : Solves(x, m + 1, a, g)
      BY <2>4, <2>6
  <2> QED BY <2>2, <2>7
<1>3. \A m \in 0 .. n : m \in Good
  <2> HIDE DEF Good
  <2> QED BY <1>1, <1>2, IntervalInduction
<1> QED BY <1>3

(* Solutions over two intervals agree on the smaller one.                  *)
LEMMA SolutionsAgree ==
    ASSUME NEW n \in Nat, NEW m \in 0 .. n, NEW a, NEW g, NEW f, NEW h,
           Solves(f, n, a, g), Solves(h, m, a, g)
    PROVE  \A k \in 0 .. m : f[k] = h[k]
<1> DEFINE Good == {k \in 0 .. m : f[k] = h[k]}
<1>1. \A k \in 0 .. n : f[k] = IF k = 0 THEN a ELSE g[<<k, f[k - 1]>>]
    BY DEF Solves
<1>2. \A k \in 0 .. m : h[k] = IF k = 0 THEN a ELSE g[<<k, h[k - 1]>>]
    BY DEF Solves
<1>3. 0 \in Good
  <2>1. 0 \in 0 .. n /\ 0 \in 0 .. m
      OBVIOUS
  <2>2. f[0] = a /\ h[0] = a
      BY <1>1, <1>2, <2>1
  <2> QED BY <2>1, <2>2
<1>4. ASSUME NEW k \in 0 .. m - 1, k \in Good PROVE k + 1 \in Good
  <2>1. k + 1 \in 0 .. n /\ k + 1 \in 0 .. m /\ k + 1 # 0 /\ (k + 1) - 1 = k
      OBVIOUS
  <2>2. f[k + 1] = g[<<k + 1, f[k]>>]
      BY <1>1, <2>1
  <2>3. h[k + 1] = g[<<k + 1, h[k]>>]
      BY <1>2, <2>1
  <2> QED BY <1>4, <2>1, <2>2, <2>3
<1>5. m \in Nat
    OBVIOUS
<1>6. \A k \in 0 .. m : k \in Good
  <2> HIDE DEF Good
  <2> QED BY <1>3, <1>4, <1>5, IntervalInduction
<1> QED BY <1>6
-----------------------------------------------------------------------------
(* The powers of a base: their recursion, written as Solves.               *)
WeightStep(base, n) == [x \in (1 .. n) \X Nat |-> base * x[2]]
Weights(base, n) == CHOOSE w : w = [k \in 0 .. n |-> IF k = 0 THEN 1 ELSE base * w[k - 1]]

LEMMA WeightsSolve ==
    ASSUME NEW base \in Nat, NEW n \in Nat
    PROVE  /\ Weights(base, n) \in [0 .. n -> Nat]
           /\ Weights(base, n) =
                [k \in 0 .. n |-> IF k = 0 THEN 1 ELSE base * Weights(base, n)[k - 1]]
           /\ \A m \in Nat : m <= n => Solves(Weights(base, m), m, 1, WeightStep(base, n))
<1> DEFINE Eq(w, m) == w = [k \in 0 .. m |-> IF k = 0 THEN 1 ELSE base * w[k - 1]]
<1>1. ASSUME NEW m \in Nat, NEW j \in Nat, m <= j, NEW w \in [0 .. m -> Nat]
      PROVE  Eq(w, m) <=> Solves(w, m, 1, WeightStep(base, j))
  <2>1. ASSUME NEW k \in 0 .. m, k # 0
        PROVE  WeightStep(base, j)[<<k, w[k - 1]>>] = base * w[k - 1]
    <3>1. k - 1 \in 0 .. m /\ k \in 1 .. j
        BY <1>1, <2>1
    <3>2. w[k - 1] \in Nat
        BY <3>1
    <3>3. <<k, w[k - 1]>> \in (1 .. j) \X Nat /\ <<k, w[k - 1]>>[2] = w[k - 1]
        BY <3>1, <3>2
    <3> QED BY <3>3 DEF WeightStep
  <2>2. [k \in 0 .. m |-> IF k = 0 THEN 1 ELSE base * w[k - 1]] =
        [k \in 0 .. m |-> IF k = 0 THEN 1 ELSE WeightStep(base, j)[<<k, w[k - 1]>>]]
      BY <2>1
  <2> QED BY <2>2 DEF Solves
<1>2. ASSUME NEW m \in Nat PROVE Weights(base, m) \in [0 .. m -> Nat] /\ Eq(Weights(base, m), m)
  <2>1. WeightStep(base, m) \in [(1 .. m) \X Nat -> Nat]
      BY DEF WeightStep
  <2>2. PICK w \in [0 .. m -> Nat] : Solves(w, m, 1, WeightStep(base, m))
      BY <2>1, SolutionExists
  <2>3. Eq(w, m)
      BY <1>1, <2>2
  <2>4. Eq(Weights(base, m), m)
    <3>1. \E x : x = [k \in 0 .. m |-> IF k = 0 THEN 1 ELSE base * x[k - 1]]
        BY <2>3
    <3> QED BY <3>1 DEF Weights
  <2> DEFINE W == Weights(base, m)
  <2>5. \A k \in 0 .. m : W[k] = IF k = 0 THEN 1 ELSE base * W[k - 1]
      BY <2>4
  <2> HIDE DEF W
  <2>6. 0 \in {k \in 0 .. m : W[k] \in Nat}
    <3>1. 0 \in 0 .. m
        OBVIOUS
    <3> QED BY <2>5, <3>1
  <2>7. ASSUME NEW k \in 0 .. m - 1, k \in {j \in 0 .. m : W[j] \in Nat}
        PROVE  k + 1 \in {j \in 0 .. m : W[j] \in Nat}
    <3>1. k + 1 \in 0 .. m /\ k + 1 # 0 /\ (k + 1) - 1 = k
        OBVIOUS
    <3>2. W[k + 1] = base * W[k]
        BY <2>5, <3>1
    <3> QED BY <2>7, <3>1, <3>2
  <2>8. \A k \in 0 .. m : k \in {j \in 0 .. m : W[j] \in Nat}
      BY <2>6, <2>7, IntervalInduction
  <2>9. W = [k \in 0 .. m |-> W[k]]
    <3>1. W = [k \in 0 .. m |-> IF k = 0 THEN 1 ELSE base * W[k - 1]]
        BY <2>4 DEF W
    <3> QED BY <3>1
  <2>10. W \in [0 .. m -> Nat]
      BY <2>8, <2>9
  <2> QED BY <2>4, <2>10 DEF W
<1>3. ASSUME NEW m \in Nat, m <= n PROVE Solves(Weights(base, m), m, 1, WeightStep(base, n))
    BY <1>1, <1>2, <1>3
<1> QED BY <1>2, <1>3

(* base^0 is 1, base^(n+1) is base times base^n, and a power of a positive *)
(* base is positive.                                                       *)
LEMMA WeightLaws ==
    ASSUME NEW base \in Nat \ {0}
    PROVE  /\ Weight(base, 0) = 1
           /\ \A n \in Nat : Weight(base, n) \in Nat \ {0}
           /\ \A n \in Nat : Weight(base, n + 1) = base * Weight(base, n)
<1>1. \A n : Weight(base, n) = Weights(base, n)[n]
    BY DEF Weight, Weights
<1>2. Weight(base, 0) = 1
  <2>1. Weights(base, 0) = [k \in 0 .. 0 |-> IF k = 0 THEN 1 ELSE base * Weights(base, 0)[k - 1]]
      BY WeightsSolve
  <2> QED BY <1>1, <2>1
<1>3. ASSUME NEW n \in Nat PROVE Weight(base, n + 1) = base * Weight(base, n)
  <2> DEFINE W == Weights(base, n + 1)
             g == WeightStep(base, n + 1)
  <2>1. n + 1 \in Nat /\ n <= n + 1 /\ n \in 0 .. n + 1 /\ n \in 0 .. n /\ n + 1 \in 0 .. n + 1
      OBVIOUS
  <2>2. W = [k \in 0 .. n + 1 |-> IF k = 0 THEN 1 ELSE base * W[k - 1]]
      BY <2>1, WeightsSolve
  <2>3. W[n + 1] = base * W[n]
    <3> HIDE DEF W
    <3>1. n + 1 # 0 /\ (n + 1) - 1 = n
        OBVIOUS
    <3> QED BY <2>1, <2>2, <3>1
  <2>4. Solves(W, n + 1, 1, g) /\ Solves(Weights(base, n), n, 1, g)
      BY <2>1, WeightsSolve
  <2>5. W[n] = Weights(base, n)[n]
    <3> HIDE DEF W, g
    <3> QED BY <2>1, <2>4, SolutionsAgree
  <2> QED BY <1>1, <2>3, <2>5
<1>4. ASSUME NEW n \in Nat PROVE Weight(base, n) \in Nat \ {0}
  <2> DEFINE Good == {k \in Nat : Weight(base, k) \in Nat \ {0}}
  <2>1. 0 \in Good
      BY <1>2
  <2>2. ASSUME NEW k \in 0 .. n - 1, k \in Good PROVE k + 1 \in Good
    <3> DEFINE x == Weight(base, k)
    <3>1. x \in Nat \ {0} /\ Weight(base, k + 1) = base * x /\ k + 1 \in Nat
        BY <1>3, <2>2
    <3> HIDE DEF x
    <3>2. base * x \in Nat \ {0}
        BY <3>1
    <3> QED BY <3>1, <3>2
  <2>3. \A k \in 0 .. n : k \in Good
    <3> HIDE DEF Good
    <3> QED BY <2>1, <2>2, IntervalInduction
  <2> QED BY <2>3
<1> QED BY <1>2, <1>3, <1>4

(* Division with remainder determines quotient and remainder.              *)
LEMMA QuotientUnique ==
    ASSUME NEW d \in Nat \ {0}, NEW q \in Nat, NEW r \in 0 .. d - 1,
           NEW s \in Nat, NEW t \in 0 .. d - 1, q * d + r = s * d + t
    PROVE  q = s /\ r = t
<1>1. ASSUME NEW a \in Nat, NEW b \in Nat, NEW y \in 0 .. d - 1, NEW z \in 0 .. d - 1,
             a * d + y = b * d + z, a < b
      PROVE  FALSE
  <2> DEFINE e == b - a - 1
  <2>1. e \in Nat /\ b = (a + 1) + e
      BY <1>1
  <2> HIDE DEF e
  <2>2. ((a + 1) + e) * d = a * d + d + e * d
      BY <2>1
  <2>3. e * d \in Nat /\ a * d \in Nat
      BY <2>1
  <2> QED BY <1>1, <2>1, <2>2, <2>3
<1>2. q = s
    BY <1>1
<1>3. q * d \in Nat
    OBVIOUS
<1> QED BY <1>2, <1>3

LEMMA DivideTwice ==
    ASSUME NEW x \in Nat, NEW p \in Nat \ {0}, NEW b \in Nat \ {0}
    PROVE  /\ (x \div p) \div b = x \div (b * p)
           /\ x % (b * p) = (x % p) + ((x \div p) % b) * p
<1> DEFINE q == x \div p
           r == x % p
           s == q \div b
           t == q % b
           d == b * p
<1>a. q = x \div p /\ r = x % p
    OBVIOUS
<1> HIDE DEF q, r
<1>1. q \in Nat /\ r \in 0 .. p - 1 /\ x = q * p + r
    BY <1>a
<1>b. s = q \div b /\ t = q % b
    OBVIOUS
<1> HIDE DEF s, t
<1>2. s \in Nat /\ t \in 0 .. b - 1 /\ q = s * b + t
    BY <1>1, <1>b
<1>3. d \in Nat \ {0}
    OBVIOUS
<1>4. x = s * d + (t * p + r)
  <2>1. (s * b + t) * p = s * (b * p) + t * p
      BY <1>2
  <2>2. s * (b * p) \in Nat /\ t * p \in Nat
      BY <1>2
  <2> QED BY <1>1, <1>2, <2>1, <2>2
<1>5. t * p + r \in 0 .. d - 1
  <2> DEFINE u == b - 1 - t
  <2>1. u \in Nat /\ b = (t + 1) + u
      BY <1>2
  <2> HIDE DEF u
  <2>2. ((t + 1) + u) * p = t * p + p + u * p
      BY <1>2, <2>1
  <2>3. t * p \in Nat /\ u * p \in Nat
      BY <1>2, <2>1
  <2> QED BY <1>1, <2>1, <2>2, <2>3
<1> DEFINE rest == t * p + r
           y == x \div d
           z == x % d
<1> HIDE DEF d, rest
<1>c. y = x \div d /\ z = x % d
    OBVIOUS
<1> HIDE DEF y, z
<1>6. y \in Nat /\ z \in 0 .. d - 1 /\ x = y * d + z
    BY <1>3, <1>c
<1>7. y = s /\ z = rest
  <2>1. x = s * d + rest /\ rest \in 0 .. d - 1
      BY <1>4, <1>5 DEF rest
  <2>2. y * d + z = s * d + rest
      BY <1>6, <2>1
  <2> QED BY <1>2, <1>3, <1>6, <2>1, <2>2, QuotientUnique
<1>8. t * p \in Nat
    BY <1>2
<1> QED BY <1>1, <1>7, <1>8 DEF d, q, r, s, t, rest, y, z
-----------------------------------------------------------------------------
ValueStep(d, base, n) == [x \in (1 .. n) \X Nat |-> x[2] + d[x[1]] * Weight(base, x[1] - 1)]
PartialValues(d, base, n) ==
    CHOOSE v : v = [k \in 0 .. n |-> IF k = 0 THEN 0 ELSE v[k - 1] + d[k] * Weight(base, k - 1)]

LEMMA ValuesSolve ==
    ASSUME NEW base \in Nat \ {0}, NEW n \in Nat, NEW d \in [1 .. n -> Nat]
    PROVE  PartialValues(d, base, n) =
             [k \in 0 .. n |-> IF k = 0 THEN 0
                               ELSE PartialValues(d, base, n)[k - 1] + d[k] * Weight(base, k - 1)]
<1> DEFINE g == ValueStep(d, base, n)
<1>1. \A k \in 1 .. n, x \in Nat : d[k] * Weight(base, k - 1) \in Nat /\ x + d[k] * Weight(base, k - 1) \in Nat
  <2> TAKE k \in 1 .. n, x \in Nat
  <2>1. Weight(base, k - 1) \in Nat
    <3>1. k - 1 \in Nat
        OBVIOUS
    <3> QED BY <3>1, WeightLaws
  <2> DEFINE w == Weight(base, k - 1)
  <2> HIDE DEF w
  <2>2. w \in Nat /\ d[k] \in Nat
      BY <2>1 DEF w
  <2>3. d[k] * w \in Nat /\ x + d[k] * w \in Nat
      BY <2>2
  <2> QED BY <2>3 DEF w
<1>2. g \in [(1 .. n) \X Nat -> Nat]
  <2>1. ASSUME NEW x \in (1 .. n) \X Nat
        PROVE  x[2] + d[x[1]] * Weight(base, x[1] - 1) \in Nat
    <3>1. x[1] \in 1 .. n /\ x[2] \in Nat
        OBVIOUS
    <3> QED BY <1>1, <3>1
  <2> QED BY <2>1 DEF ValueStep
<1>3. PICK v \in [0 .. n -> Nat] : Solves(v, n, 0, g)
  <2> HIDE DEF g
  <2> QED BY <1>2, SolutionExists
<1>4. ASSUME NEW k \in 0 .. n, k # 0
      PROVE  g[<<k, v[k - 1]>>] = v[k - 1] + d[k] * Weight(base, k - 1)
  <2>1. k \in 1 .. n /\ k - 1 \in 0 .. n
      BY <1>4
  <2>2. <<k, v[k - 1]>> \in (1 .. n) \X Nat
      BY <2>1
  <2> QED BY <2>2 DEF ValueStep
<1>5. v = [k \in 0 .. n |-> IF k = 0 THEN 0 ELSE v[k - 1] + d[k] * Weight(base, k - 1)]
  <2> HIDE DEF g
  <2>1. v = [k \in 0 .. n |-> IF k = 0 THEN 0 ELSE g[<<k, v[k - 1]>>]]
      BY <1>3 DEF Solves
  <2> QED BY <1>4, <2>1
<1> QED BY <1>5 DEF PartialValues

DigitsOf(x, base, n) == [k \in 1 .. n |-> Digit(x, base, k - 1)]

(* The first k digits of a number give its remainder modulo base^k.        *)
LEMMA DigitsGiveRemainder ==
    ASSUME NEW base \in Nat \ {0}, NEW n \in Nat, NEW x \in Nat
    PROVE  \A k \in 0 .. n : PartialValues(DigitsOf(x, base, n), base, n)[k] = x % Weight(base, k)
<1> DEFINE d == DigitsOf(x, base, n)
           v == PartialValues(d, base, n)
           Good == {k \in 0 .. n : v[k] = x % Weight(base, k)}
<1>1. d \in [1 .. n -> Nat]
  <2>1. ASSUME NEW k \in 1 .. n PROVE Digit(x, base, k - 1) \in Nat
    <3> DEFINE w == Weight(base, k - 1)
    <3>1. w \in Nat \ {0}
      <4>1. k - 1 \in Nat
          OBVIOUS
      <4> QED BY <4>1, WeightLaws
    <3> HIDE DEF w
    <3> DEFINE q == x \div w
    <3>2. q = x \div w
        OBVIOUS
    <3> HIDE DEF q
    <3>3. q \in Nat
        BY <3>1, <3>2
    <3>4. q % base \in Nat
        BY <3>3
    <3> QED BY <3>4 DEF Digit, w, q
  <2> QED BY <2>1 DEF DigitsOf
<1>2. \A k \in 0 .. n : v[k] = IF k = 0 THEN 0 ELSE v[k - 1] + d[k] * Weight(base, k - 1)
  <2>1. v = [k \in 0 .. n |-> IF k = 0 THEN 0 ELSE v[k - 1] + d[k] * Weight(base, k - 1)]
      BY <1>1, ValuesSolve
  <2> HIDE DEF v
  <2> QED BY <2>1
<1> HIDE DEF v
<1>3. 0 \in Good
  <2>1. 0 \in 0 .. n
      OBVIOUS
  <2>2. v[0] = 0 /\ Weight(base, 0) = 1
      BY <1>2, <2>1, WeightLaws
  <2>3. x % 1 = 0
      OBVIOUS
  <2> QED BY <2>1, <2>2, <2>3
<1>4. ASSUME NEW k \in 0 .. n - 1, k \in Good PROVE k + 1 \in Good
  <2> DEFINE w == Weight(base, k)
  <2>1. k + 1 \in 0 .. n /\ k + 1 \in 1 .. n /\ k + 1 # 0 /\ (k + 1) - 1 = k /\ k \in Nat
      OBVIOUS
  <2>2. v[k + 1] = v[k] + d[k + 1] * w
      BY <1>2, <2>1
  <2>3. d[k + 1] = (x \div w) % base
      BY <2>1 DEF Digit, DigitsOf
  <2>4. w \in Nat \ {0} /\ Weight(base, k + 1) = base * w
      BY <2>1, WeightLaws
  <2>5. v[k] = x % w
      BY <1>4
  <2> HIDE DEF w
  <2>6. x % (base * w) = (x % w) + ((x \div w) % base) * w
      BY <2>4, DivideTwice
  <2>7. v[k + 1] = x % Weight(base, k + 1)
      BY <2>2, <2>3, <2>4, <2>5, <2>6
  <2> QED BY <2>1, <2>7
<1>5. \A k \in 0 .. n : k \in Good
  <2> HIDE DEF Good
  <2> QED BY <1>3, <1>4, IntervalInduction
<1> QED BY <1>5 DEF v

(* Decoding the n digits of a number below base^n gives it back: nothing   *)
(* that fits a length field is lost when serialize writes it and           *)
(* deserialize reads it, or when ghash stores a bit length.                *)
THEOREM ValueOfDigits ==
    ASSUME NEW base \in Nat \ {0}, NEW n \in Nat, NEW x \in 0 .. Weight(base, n) - 1
    PROVE  Value([k \in 1 .. n |-> Digit(x, base, k - 1)], base, n) = x
<1> DEFINE d == DigitsOf(x, base, n)
           w == Weight(base, n)
<1>1. n \in 0 .. n /\ w \in Nat \ {0}
    BY WeightLaws
<1>2. x \in Nat /\ x < w
    BY <1>1
<1>3. PartialValues(d, base, n)[n] = x % w
    BY <1>1, <1>2, DigitsGiveRemainder
<1>4. Value(d, base, n) = PartialValues(d, base, n)[n]
    BY DEF Value, PartialValues
<1> HIDE DEF w, d
<1>5. x % w = x
    BY <1>1, <1>2
<1> QED BY <1>3, <1>4, <1>5 DEF d, DigitsOf
-----------------------------------------------------------------------------
(* Polynomials over GF(2): sums.                                           *)
LEMMA XorIn == \A a, b, x : x \in a ++ b <=> ((x \in a) <=> ~(x \in b))
BY DEF ++, SymDiff

LEMMA XorLaws ==
    /\ \A a : a ++ a = {} /\ a ++ {} = a /\ {} ++ a = a
    /\ \A a, b : a ++ b = b ++ a
    /\ \A a, b, c : (a ++ b) ++ c = a ++ (b ++ c)
<1>1. \A a : a ++ a = {} /\ a ++ {} = a /\ {} ++ a = a
    BY DEF ++, SymDiff
<1>2. \A a, b : a ++ b = b ++ a
    BY DEF ++, SymDiff
<1>3. \A a, b, c : (a ++ b) ++ c = a ++ (b ++ c)
    BY DEF ++, SymDiff
<1> QED BY <1>1, <1>2, <1>3

LEMMA XorBounds ==
    ASSUME NEW S, NEW a, a \subseteq S, NEW b, b \subseteq S PROVE a ++ b \subseteq S
BY DEF ++, SymDiff

(* Members that occur in one of two sets are odd in number if those of one *)
(* of the sets are, and not of the other.                                  *)
LEMMA OddXor ==
    ASSUME NEW S, IsFiniteSet(S), NEW T, IsFiniteSet(T)
    PROVE  Odd(S ++ T) <=> (Odd(S) <=> ~Odd(T))
<1> DEFINE s == Cardinality(S)
           t == Cardinality(T)
           c == Cardinality(S \cap T)
           d == Cardinality(S ++ T)
<1>1. IsFiniteSet(S \cap T) /\ IsFiniteSet(S \cup T)
    BY FS_Intersection, FS_Union
<1>2. s \in Nat /\ t \in Nat /\ c \in Nat
    BY <1>1, FS_CardinalityType
<1>3. Cardinality(S \cup T) = s + t - c
    BY FS_Union
<1>4. d = Cardinality(S \cup T) - c
  <2>1. S ++ T = (S \cup T) \ (S \cap T) /\ (S \cup T) \cap (S \cap T) = S \cap T
      BY DEF ++, SymDiff
  <2>2. Cardinality((S \cup T) \ (S \cap T)) =
          Cardinality(S \cup T) - Cardinality((S \cup T) \cap (S \cap T))
      BY <1>1, FS_Difference
  <2> QED BY <2>1, <2>2
<1>5. d = s + t - 2 * c
  <2> HIDE DEF s, t, c, d
  <2> QED BY <1>2, <1>3, <1>4
<1>6. d % 2 = 1 <=> (s % 2 = 1 <=> ~(t % 2 = 1))
  <2> HIDE DEF s, t, c, d
  <2> QED BY <1>2, <1>5
<1> QED BY <1>6 DEF Odd

LEMMA OddSmall == ~Odd({}) /\ \A x : Odd({x})
<1>1. Cardinality({}) = 0 /\ \A x : Cardinality({x}) = 1
    BY FS_EmptySet, FS_Singleton
<1> QED BY <1>1 DEF Odd
-----------------------------------------------------------------------------
(* Products.  An exponent occurs in a product if the ways to make it as a  *)
(* sum are odd in number.                                                  *)
LEMMA TimesXIn ==
    ASSUME NEW a, a \subseteq Int, NEW n \in Int
    PROVE  \A x : x \in TimesX(a, n) <=> x \in Int /\ x - n \in a
<1> TAKE x
<1>1. ASSUME x \in TimesX(a, n) PROVE x \in Int /\ x - n \in a
  <2>1. PICK i \in a : x = i + n
      BY <1>1 DEF TimesX
  <2>2. i \in Int /\ x - n = i
      BY <2>1
  <2> QED BY <2>1, <2>2
<1>2. ASSUME x \in Int, x - n \in a PROVE x \in TimesX(a, n)
  <2>1. x = (x - n) + n
      BY <1>2
  <2> QED BY <1>2, <2>1 DEF TimesX
<1> QED BY <1>1, <1>2

LEMMA TimesXBounds ==
    ASSUME NEW d \in Int, NEW a, a \subseteq 0 .. d, NEW n \in Nat
    PROVE  TimesX(a, n) \subseteq 0 .. d + n
BY DEF TimesX

(* The exponents of a that an exponent of b makes k.                       *)
Ways(a, b, k) == {i \in a : k - i \in b}

LEMMA MulIn ==
    ASSUME NEW a, a \subseteq Int, NEW b, b \subseteq Int, NEW k \in Int
    PROVE  k \in PolyMul(a, b) <=> Odd(Ways(a, b, k))
<1>1. ASSUME Odd(Ways(a, b, k)) PROVE k \in {i + j : i \in a, j \in b}
  <2>1. Ways(a, b, k) # {}
      BY <1>1, OddSmall
  <2>2. PICK i \in a : k - i \in b
      BY <2>1 DEF Ways
  <2>3. k = i + (k - i)
      OBVIOUS
  <2> QED BY <2>2, <2>3
<1>2. k \in PolyMul(a, b) <=> k \in {i + j : i \in a, j \in b} /\ Odd(Ways(a, b, k))
    BY DEF PolyMul, Ways
<1> QED BY <1>1, <1>2

LEMMA MulBounds ==
    ASSUME NEW c \in Int, NEW d \in Int, NEW a, a \subseteq 0 .. c, NEW b, b \subseteq 0 .. d
    PROVE  PolyMul(a, b) \subseteq 0 .. c + d
<1> SUFFICES ASSUME NEW k \in PolyMul(a, b) PROVE k \in 0 .. c + d
    OBVIOUS
<1>1. PICK i \in a, j \in b : k = i + j
    BY DEF PolyMul
<1>2. i \in 0 .. c /\ j \in 0 .. d
    OBVIOUS
<1> QED BY <1>1, <1>2

LEMMA IntervalSubsetFinite ==
    ASSUME NEW d \in Int, NEW a, a \subseteq 0 .. d, NEW S, S \subseteq a
    PROVE  IsFiniteSet(S) /\ S \subseteq Int /\ a \subseteq Int
<1>1. IsFiniteSet(0 .. d)
    BY FS_Interval
<1>2. S \in SUBSET (0 .. d) /\ 0 .. d \subseteq Int
    OBVIOUS
<1> QED BY <1>1, <1>2, FS_Subset

(* The product distributes over sums.                                      *)
LEMMA MulXorRight ==
    ASSUME NEW c \in Int, NEW d \in Int, NEW a \in SUBSET (0 .. c)
    PROVE  \A p, q \in SUBSET (0 .. d) : PolyMul(a, p ++ q) = PolyMul(a, p) ++ PolyMul(a, q)
<1> TAKE p, q \in SUBSET (0 .. d)
<1>1. p ++ q \subseteq 0 .. d
    BY XorBounds
<1>2. a \subseteq Int /\ p \subseteq Int /\ q \subseteq Int /\ p ++ q \subseteq Int
    BY <1>1
<1>3. ASSUME NEW k \in Int
      PROVE  k \in PolyMul(a, p ++ q) <=> (k \in PolyMul(a, p) <=> ~(k \in PolyMul(a, q)))
  <2> DEFINE S == Ways(a, p, k)
             T == Ways(a, q, k)
             U == Ways(a, p ++ q, k)
  <2>1. U = S ++ T
    <3>1. \A i \in a : i \in U <=> (i \in S <=> ~(i \in T))
        BY XorIn DEF Ways
    <3>2. \A i : i \in S ++ T <=> (i \in S <=> ~(i \in T))
        BY XorIn
    <3>3. \A i : (i \in U => i \in a) /\ (i \in S => i \in a) /\ (i \in T => i \in a)
        BY DEF Ways
    <3> HIDE DEF U, S, T
    <3>4. \A i : i \in U <=> i \in S ++ T
        BY <3>1, <3>2, <3>3
    <3> QED BY <3>4
  <2>2. IsFiniteSet(S) /\ IsFiniteSet(T)
    <3>1. S \subseteq a /\ T \subseteq a
        BY DEF Ways
    <3> HIDE DEF S, T
    <3> QED BY <3>1, IntervalSubsetFinite
  <2>3. k \in PolyMul(a, p) <=> Odd(S)
      BY <1>2, MulIn
  <2>4. k \in PolyMul(a, q) <=> Odd(T)
      BY <1>2, MulIn
  <2>5. k \in PolyMul(a, p ++ q) <=> Odd(U)
      BY <1>2, MulIn
  <2> HIDE DEF S, T, U
  <2>6. Odd(U) <=> (Odd(S) <=> ~Odd(T))
      BY <2>1, <2>2, OddXor
  <2> QED BY <2>3, <2>4, <2>5, <2>6
<1>4. PolyMul(a, p ++ q) \subseteq Int /\ PolyMul(a, p) \subseteq Int /\ PolyMul(a, q) \subseteq Int
  <2>1. c + d \in Int /\ 0 .. c + d \subseteq Int
      OBVIOUS
  <2> QED BY <1>1, <2>1, MulBounds
<1>5. \A k : k \in PolyMul(a, p) ++ PolyMul(a, q) <=> (k \in PolyMul(a, p) <=> ~(k \in PolyMul(a, q)))
    BY XorIn
<1>6. \A k : k \in PolyMul(a, p ++ q) <=> k \in PolyMul(a, p) ++ PolyMul(a, q)
    BY <1>3, <1>4, <1>5
<1> QED BY <1>6

LEMMA MulXorLeft ==
    ASSUME NEW c \in Int, NEW d \in Int, NEW b \in SUBSET (0 .. d)
    PROVE  \A p, q \in SUBSET (0 .. c) : PolyMul(p ++ q, b) = PolyMul(p, b) ++ PolyMul(q, b)
<1> TAKE p, q \in SUBSET (0 .. c)
<1>1. p ++ q \subseteq 0 .. c
    BY XorBounds
<1>2. b \subseteq Int /\ p \subseteq Int /\ q \subseteq Int /\ p ++ q \subseteq Int
    BY <1>1
<1>3. ASSUME NEW k \in Int
      PROVE  k \in PolyMul(p ++ q, b) <=> (k \in PolyMul(p, b) <=> ~(k \in PolyMul(q, b)))
  <2> DEFINE S == Ways(p, b, k)
             T == Ways(q, b, k)
             U == Ways(p ++ q, b, k)
  <2>1. U = S ++ T
    <3>1. \A i : /\ i \in U <=> (i \in p ++ q /\ k - i \in b)
                 /\ i \in S <=> (i \in p /\ k - i \in b)
                 /\ i \in T <=> (i \in q /\ k - i \in b)
        BY DEF Ways
    <3>2. \A i : /\ i \in S ++ T <=> (i \in S <=> ~(i \in T))
                 /\ i \in p ++ q <=> (i \in p <=> ~(i \in q))
        BY XorIn
    <3> HIDE DEF U, S, T
    <3>3. \A i : i \in U <=> i \in S ++ T
        BY <3>1, <3>2
    <3> QED BY <3>3
  <2>2. IsFiniteSet(S)
    <3>1. S \subseteq p
        BY DEF Ways
    <3> HIDE DEF S
    <3> QED BY <3>1, IntervalSubsetFinite
  <2>3. IsFiniteSet(T)
    <3>1. T \subseteq q
        BY DEF Ways
    <3> HIDE DEF T
    <3> QED BY <3>1, IntervalSubsetFinite
  <2>4. k \in PolyMul(p, b) <=> Odd(S)
      BY <1>2, MulIn
  <2>5. k \in PolyMul(q, b) <=> Odd(T)
      BY <1>2, MulIn
  <2>6. k \in PolyMul(p ++ q, b) <=> Odd(U)
      BY <1>2, MulIn
  <2> HIDE DEF S, T, U
  <2>7. Odd(U) <=> (Odd(S) <=> ~Odd(T))
      BY <2>1, <2>2, <2>3, OddXor
  <2> QED BY <2>4, <2>5, <2>6, <2>7
<1>4. PolyMul(p ++ q, b) \subseteq Int /\ PolyMul(p, b) \subseteq Int /\ PolyMul(q, b) \subseteq Int
  <2>1. c + d \in Int /\ 0 .. c + d \subseteq Int
      OBVIOUS
  <2> QED BY <1>1, <2>1, MulBounds
<1>5. \A k : k \in PolyMul(p, b) ++ PolyMul(q, b) <=> (k \in PolyMul(p, b) <=> ~(k \in PolyMul(q, b)))
    BY XorIn
<1>6. \A k : k \in PolyMul(p ++ q, b) <=> k \in PolyMul(p, b) ++ PolyMul(q, b)
    BY <1>3, <1>4, <1>5
<1> QED BY <1>6

(* A product with a power of x, on either side.                            *)
LEMMA MulPower ==
    ASSUME NEW d \in Int, NEW a, a \subseteq 0 .. d, NEW n \in Nat
    PROVE  PolyMul(a, {n}) = TimesX(a, n) /\ PolyMul({n}, a) = TimesX(a, n)
<1>1. a \subseteq Int /\ {n} \subseteq Int /\ {n} \subseteq 0 .. n /\ n \in Int
    OBVIOUS
<1>2. PolyMul(a, {n}) \subseteq Int /\ PolyMul({n}, a) \subseteq Int
  <2>1. PolyMul(a, {n}) \subseteq 0 .. d + n
      BY <1>1, MulBounds
  <2>2. PolyMul({n}, a) \subseteq 0 .. n + d
      BY <1>1, MulBounds
  <2> QED BY <2>1, <2>2
<1>3. ASSUME NEW k \in Int
      PROVE  /\ k \in PolyMul(a, {n}) <=> k \in TimesX(a, n)
             /\ k \in PolyMul({n}, a) <=> k \in TimesX(a, n)
  <2>0. \A i \in a : k - i \in {n} <=> i = k - n
      BY <1>1
  <2>1. k \in TimesX(a, n) <=> k - n \in a
      BY <1>1, TimesXIn
  <2>2. k \in PolyMul(a, {n}) <=> Odd(Ways(a, {n}, k))
      BY <1>1, MulIn
  <2>3. k \in PolyMul({n}, a) <=> Odd(Ways({n}, a, k))
      BY <1>1, MulIn
  <2>4. CASE k - n \in a
    <3>1. Ways(a, {n}, k) = {k - n}
        BY <2>0, <2>4 DEF Ways
    <3>2. Ways({n}, a, k) = {n}
        BY <2>4 DEF Ways
    <3> QED BY <2>1, <2>2, <2>3, <2>4, <3>1, <3>2, OddSmall
  <2>5. CASE ~(k - n \in a)
    <3>1. Ways(a, {n}, k) = {}
        BY <2>0, <2>5 DEF Ways
    <3>2. Ways({n}, a, k) = {}
        BY <2>5 DEF Ways
    <3> QED BY <2>1, <2>2, <2>3, <2>5, <3>1, <3>2, OddSmall
  <2> QED BY <2>4, <2>5
<1>4. \A k : k \in TimesX(a, n) => k \in Int
    BY <1>1, TimesXIn
<1>5. \A k : /\ k \in PolyMul(a, {n}) <=> k \in TimesX(a, n)
             /\ k \in PolyMul({n}, a) <=> k \in TimesX(a, n)
    BY <1>2, <1>3, <1>4
<1> QED BY <1>5

LEMMA MulZero == \A a : PolyMul(a, {}) = {} /\ PolyMul({}, a) = {}
BY DEF PolyMul

LEMMA MulTimesX ==
    ASSUME NEW c \in Int, NEW d \in Int
    PROVE  \A a \in SUBSET (0 .. c), b \in SUBSET (0 .. d) : PolyMul(a, TimesX(b, 1)) = TimesX(PolyMul(a, b), 1)
<1> TAKE a \in SUBSET (0 .. c), b \in SUBSET (0 .. d)
<1>1. a \subseteq Int /\ b \subseteq Int
    OBVIOUS
<1>0. \A x : x \in TimesX(b, 1) <=> x \in Int /\ x - 1 \in b
  <2>1. b \subseteq Int /\ 1 \in Int
      OBVIOUS
  <2> QED BY ONLY <2>1, TimesXIn
<1>2. TimesX(b, 1) \subseteq 0 .. d + 1
    BY TimesXBounds
<1>3. PolyMul(a, TimesX(b, 1)) \subseteq 0 .. c + (d + 1) /\ PolyMul(a, b) \subseteq 0 .. c + d
  <2>1. d + 1 \in Int
      OBVIOUS
  <2>2. PolyMul(a, b) \subseteq 0 .. c + d
      BY MulBounds
  <2> QED BY <1>2, <2>1, <2>2, MulBounds
<1>4. PolyMul(a, TimesX(b, 1)) \subseteq Int /\ PolyMul(a, b) \subseteq Int /\ TimesX(b, 1) \subseteq Int
    BY <1>2, <1>3
<1>5. ASSUME NEW k \in Int PROVE k \in PolyMul(a, TimesX(b, 1)) <=> k - 1 \in PolyMul(a, b)
  <2>1. k - 1 \in Int
      OBVIOUS
  <2>2. k \in PolyMul(a, TimesX(b, 1)) <=> Odd(Ways(a, TimesX(b, 1), k))
      BY <1>1, <1>4, MulIn
  <2>3. k - 1 \in PolyMul(a, b) <=> Odd(Ways(a, b, k - 1))
      BY <1>1, <2>1, MulIn
  <2>4. Ways(a, TimesX(b, 1), k) = Ways(a, b, k - 1)
    <3>1. ASSUME NEW i \in a PROVE k - i \in TimesX(b, 1) <=> (k - 1) - i \in b
      <4>1. i \in Int /\ k - i \in Int /\ (k - i) - 1 = (k - 1) - i
          BY <1>1
      <4> QED BY <1>0, <4>1
    <3> QED BY <3>1 DEF Ways
  <2> QED BY <2>2, <2>3, <2>4
<1>6. \A k : k \in TimesX(PolyMul(a, b), 1) <=> k \in Int /\ k - 1 \in PolyMul(a, b)
    BY <1>4, TimesXIn
<1>7. \A k : k \in PolyMul(a, TimesX(b, 1)) <=> k \in TimesX(PolyMul(a, b), 1)
    BY <1>4, <1>5, <1>6
<1> QED BY <1>7

LEMMA TimesXXor ==
    \A a, b \in SUBSET Int, n \in Int : TimesX(a ++ b, n) = TimesX(a, n) ++ TimesX(b, n)
<1> TAKE a, b \in SUBSET Int, n \in Int
<1>1. a ++ b \subseteq Int
    BY XorBounds
<1>2. \A x : x \in TimesX(a ++ b, n) <=> x \in Int /\ x - n \in a ++ b
    BY <1>1, TimesXIn
<1>3. \A x : x \in TimesX(a, n) <=> x \in Int /\ x - n \in a
    BY TimesXIn
<1>4. \A x : x \in TimesX(b, n) <=> x \in Int /\ x - n \in b
    BY TimesXIn
<1>5. \A x : x \in TimesX(a, n) ++ TimesX(b, n) <=> (x \in TimesX(a, n) <=> ~(x \in TimesX(b, n)))
    BY XorIn
<1>6. \A x : x - n \in a ++ b <=> (x - n \in a <=> ~(x - n \in b))
    BY XorIn
<1>7. \A x : x \in TimesX(a ++ b, n) <=> x \in TimesX(a, n) ++ TimesX(b, n)
    BY <1>2, <1>3, <1>4, <1>5, <1>6
<1> QED BY <1>7

LEMMA TimesXTwice ==
    ASSUME NEW a, a \subseteq Int, NEW m \in Int, NEW n \in Int
    PROVE  TimesX(TimesX(a, m), n) = TimesX(a, m + n)
<1>1. TimesX(a, m) \subseteq Int
    BY TimesXIn
<1>2. \A x : x \in TimesX(TimesX(a, m), n) <=> x \in Int /\ x - n \in TimesX(a, m)
    BY <1>1, TimesXIn
<1>3. \A x : x \in TimesX(a, m + n) <=> x \in Int /\ x - (m + n) \in a
  <2>1. m + n \in Int
      OBVIOUS
  <2> QED BY <2>1, TimesXIn
<1>4. \A x \in Int : x - n \in TimesX(a, m) <=> x - (m + n) \in a
  <2> TAKE x \in Int
  <2>1. x - n \in Int /\ (x - n) - m = x - (m + n)
      OBVIOUS
  <2>2. x - n \in TimesX(a, m) <=> x - n \in Int /\ (x - n) - m \in a
      BY TimesXIn
  <2> QED BY <2>1, <2>2
<1>5. \A x : x \in TimesX(TimesX(a, m), n) <=> x \in TimesX(a, m + n)
    BY <1>2, <1>3, <1>4
<1> QED BY <1>5

LEMMA TimesXTrivial == (\A n : TimesX({}, n) = {}) /\ (\A a \in SUBSET Int : TimesX(a, 0) = a)
<1>1. \A n : TimesX({}, n) = {}
    BY DEF TimesX
<1>2. ASSUME NEW a \in SUBSET Int PROVE TimesX(a, 0) = a
  <2>1. a \subseteq Int /\ 0 \in Int /\ \A x \in Int : x - 0 = x
      OBVIOUS
  <2>2. \A x : x \in TimesX(a, 0) <=> x \in Int /\ x - 0 \in a
      BY <2>1, TimesXIn
  <2>3. \A x : x \in TimesX(a, 0) <=> x \in a
      BY <2>1, <2>2
  <2> QED BY <2>3
<1> QED BY <1>1, <1>2
-----------------------------------------------------------------------------
(* Remainders modulo m, of degree d.                                       *)
Modulus(m, d) == d \in Nat \ {0} /\ m \subseteq 0 .. d /\ d \in m

LEMMA MaxOfModulus ==
    ASSUME NEW d, NEW m, Modulus(m, d) PROVE Max(m) = d
<1>1. d \in m /\ (\A z \in m : d >= z) /\ \A z \in m : z \in Int
    BY DEF Modulus
<1>2. \A x \in m : (\A z \in m : x >= z) => x = d
    BY <1>1
<1> QED BY <1>1, <1>2 DEF Max

CancelStep(m, d, top, n) == [x \in (1 .. n) \X SUBSET Int |-> Cancel(x[2], m, d, top + 1 - x[1])]
Remainders(a, m, d, top) ==
    CHOOSE r : r = [n \in 0 .. top + 1 - d |-> IF n = 0 THEN a ELSE Cancel(r[n - 1], m, d, top + 1 - n)]

LEMMA CancelTyped ==
    ASSUME NEW d, NEW m, Modulus(m, d), NEW k \in Int, NEW p \in SUBSET Int
    PROVE  Cancel(p, m, d, k) \in SUBSET Int
<1>1. m \subseteq Int /\ k - d \in Int
    BY DEF Modulus
<1>2. TimesX(m, k - d) \subseteq Int
    BY <1>1, TimesXIn
<1>3. p ++ TimesX(m, k - d) \subseteq Int
    BY <1>2, XorBounds
<1> QED BY <1>3 DEF Cancel

LEMMA RemaindersSolve ==
    ASSUME NEW d, NEW m, Modulus(m, d), NEW top \in Int, d - 1 <= top, NEW a \in SUBSET Int
    PROVE  /\ Remainders(a, m, d, top) \in [0 .. top + 1 - d -> SUBSET Int]
           /\ Remainders(a, m, d, top)[0] = a
           /\ \A n \in 1 .. top + 1 - d :
                Remainders(a, m, d, top)[n] = Cancel(Remainders(a, m, d, top)[n - 1], m, d, top + 1 - n)
           /\ PolyMod(a, m, top) = Remainders(a, m, d, top)[top + 1 - d]
<1> DEFINE N == top + 1 - d
           g == CancelStep(m, d, top, N)
           V == SUBSET Int
<1>1. N \in Nat /\ d \in Int
    BY DEF Modulus
<1>2. g \in [(1 .. N) \X V -> V]
  <2>1. ASSUME NEW x \in (1 .. N) \X V PROVE Cancel(x[2], m, d, top + 1 - x[1]) \in V
    <3>1. x[2] \in V /\ top + 1 - x[1] \in Int
        BY <1>1
    <3> QED BY <3>1, CancelTyped
  <2> QED BY <2>1 DEF CancelStep
<1>3. PICK v \in [0 .. N -> V] : Solves(v, N, a, g)
  <2> HIDE DEF g, V, N
  <2>1. a \in V
      BY DEF V
  <2> QED BY <1>1, <1>2, <2>1, SolutionExists
<1>4. ASSUME NEW w, NEW n \in 0 .. N, n # 0, w[n - 1] \in V
      PROVE  g[<<n, w[n - 1]>>] = Cancel(w[n - 1], m, d, top + 1 - n)
  <2>1. n \in 1 .. N
      BY <1>1, <1>4
  <2>2. <<n, w[n - 1]>> \in (1 .. N) \X V
      BY <1>4, <2>1
  <2> QED BY <2>2 DEF CancelStep
<1> HIDE DEF g
<1>5. v = [n \in 0 .. N |-> IF n = 0 THEN a ELSE Cancel(v[n - 1], m, d, top + 1 - n)]
  <2>1. v = [n \in 0 .. N |-> IF n = 0 THEN a ELSE g[<<n, v[n - 1]>>]]
      BY <1>3 DEF Solves
  <2>2. ASSUME NEW n \in 0 .. N, n # 0 PROVE g[<<n, v[n - 1]>>] = Cancel(v[n - 1], m, d, top + 1 - n)
    <3>1. n - 1 \in 0 .. N
        BY <1>1, <2>2
    <3>2. v[n - 1] \in V
        BY <1>3, <3>1
    <3> QED BY <1>4, <2>2, <3>2
  <2> QED BY <2>1, <2>2
<1> DEFINE R == Remainders(a, m, d, top)
<1>6. R = [n \in 0 .. N |-> IF n = 0 THEN a ELSE Cancel(R[n - 1], m, d, top + 1 - n)]
    BY <1>5 DEF Remainders
<1>7. PolyMod(a, m, top) = R[N]
  <2>1. Max(m) = d
      BY MaxOfModulus
  <2> QED BY <2>1 DEF PolyMod, Remainders
<1> HIDE DEF R, N
<1>8. \A n \in 0 .. N : R[n] = IF n = 0 THEN a ELSE Cancel(R[n - 1], m, d, top + 1 - n)
    BY <1>6
<1>9. R[0] = a
  <2>1. 0 \in 0 .. N
      BY <1>1
  <2> QED BY <1>8, <2>1
<1>10. \A n \in 1 .. N : R[n] = Cancel(R[n - 1], m, d, top + 1 - n)
    BY <1>1, <1>8
<1> DEFINE Good == {n \in 0 .. N : R[n] \in V}
<1>11. 0 \in Good
  <2>1. 0 \in 0 .. N
      BY <1>1
  <2>2. R[0] \in V
      BY <1>9
  <2> QED BY <2>1, <2>2
<1>12. ASSUME NEW n \in 0 .. N - 1, n \in Good PROVE n + 1 \in Good
  <2>1. n + 1 \in 1 .. N /\ n + 1 \in 0 .. N /\ (n + 1) - 1 = n /\ top + 1 - (n + 1) \in Int
      BY <1>1
  <2>2. R[n + 1] = Cancel(R[n], m, d, top + 1 - (n + 1))
      BY <1>10, <2>1
  <2>3. R[n] \in SUBSET Int
      BY <1>12
  <2>4. R[n + 1] \in V
      BY <2>1, <2>2, <2>3, CancelTyped
  <2> QED BY <2>1, <2>4
<1>13. \A n \in 0 .. N : n \in Good
  <2> HIDE DEF Good
  <2> QED BY <1>1, <1>11, <1>12, IntervalInduction
<1>14. R \in [0 .. N -> V]
  <2>1. R = [n \in 0 .. N |-> R[n]]
      BY <1>6
  <2> QED BY <1>13, <2>1
<1> QED BY <1>7, <1>9, <1>10, <1>14 DEF R, N

LEMMA CancelXor ==
    ASSUME NEW d, NEW m, NEW k, NEW p, NEW q
    PROVE  Cancel(p ++ q, m, d, k) = Cancel(p, m, d, k) ++ Cancel(q, m, d, k)
<1> DEFINE c == TimesX(m, k - d)
<1>1. /\ Cancel(p ++ q, m, d, k) = IF k \in p ++ q THEN (p ++ q) ++ c ELSE p ++ q
      /\ Cancel(p, m, d, k) = IF k \in p THEN p ++ c ELSE p
      /\ Cancel(q, m, d, k) = IF k \in q THEN q ++ c ELSE q
    BY DEF Cancel
<1> HIDE DEF c
<1>2. k \in p ++ q <=> (k \in p <=> ~(k \in q))
    BY XorIn
<1>3. /\ (p ++ q) ++ c = (p ++ c) ++ q
      /\ (p ++ q) ++ c = p ++ (q ++ c)
      /\ p ++ q = (p ++ c) ++ (q ++ c)
    BY DEF ++, SymDiff
<1> QED BY <1>1, <1>2, <1>3

LEMMA CancelBounds ==
    ASSUME NEW d, NEW m, Modulus(m, d), NEW k \in Int, d <= k, NEW p, p \subseteq 0 .. k
    PROVE  Cancel(p, m, d, k) \subseteq 0 .. k - 1
<1> DEFINE c == TimesX(m, k - d)
<1>1. m \subseteq 0 .. d /\ m \subseteq Int /\ d \in Int /\ k - d \in Nat /\ d \in m
    BY DEF Modulus
<1>2. c \subseteq 0 .. k /\ k \in c
  <2>1. c \subseteq 0 .. d + (k - d)
      BY <1>1, TimesXBounds
  <2>2. d + (k - d) = k /\ k - (k - d) = d
      BY <1>1
  <2>3. k \in c <=> k \in Int /\ k - (k - d) \in m
    <3>1. k - d \in Int
        BY <1>1
    <3> QED BY <1>1, <3>1, TimesXIn
  <2> QED BY <1>1, <2>1, <2>2, <2>3
<1>3. Cancel(p, m, d, k) = IF k \in p THEN p ++ c ELSE p
    BY DEF Cancel
<1> HIDE DEF c
<1>4. \A x \in 0 .. k : x # k => x \in 0 .. k - 1
    OBVIOUS
<1>5. CASE k \in p
  <2>1. k \notin p ++ c
      BY <1>2, <1>5, XorIn
  <2>2. p ++ c \subseteq 0 .. k
      BY <1>2, XorBounds
  <2>3. \A x \in p ++ c : x \in 0 .. k - 1
      BY <1>4, <2>1, <2>2
  <2> QED BY <1>3, <1>5, <2>3
<1>6. CASE k \notin p
    BY <1>3, <1>4, <1>6
<1> QED BY <1>5, <1>6

LEMMA CancelTimesX ==
    ASSUME NEW d, NEW m, Modulus(m, d), NEW k \in Int, NEW p \in SUBSET Int
    PROVE  TimesX(Cancel(p, m, d, k), 1) = Cancel(TimesX(p, 1), m, d, k + 1)
<1> DEFINE c == TimesX(m, k - d)
<1>1. m \subseteq Int /\ k - d \in Int /\ p \subseteq Int /\ 1 \in Int
      /\ (k - d) + 1 = (k + 1) - d /\ k + 1 \in Int /\ (k + 1) - 1 = k
    BY DEF Modulus
<1>2. c \subseteq Int
    BY <1>1, TimesXIn
<1>3. TimesX(c, 1) = TimesX(m, (k - d) + 1)
    BY <1>1, TimesXTwice
<1>4. k + 1 \in TimesX(p, 1) <=> k \in p
  <2>1. \A x : x \in TimesX(p, 1) <=> x \in Int /\ x - 1 \in p
      BY ONLY <1>1, TimesXIn
  <2> QED BY <1>1, <2>1
<1>5. Cancel(TimesX(p, 1), m, d, k + 1) = IF k \in p THEN TimesX(p, 1) ++ TimesX(c, 1) ELSE TimesX(p, 1)
    BY <1>1, <1>3, <1>4 DEF Cancel
<1>6. Cancel(p, m, d, k) = IF k \in p THEN p ++ c ELSE p
    BY DEF Cancel
<1> HIDE DEF c
<1>7. TimesX(p ++ c, 1) = TimesX(p, 1) ++ TimesX(c, 1)
  <2>1. p \in SUBSET Int /\ c \in SUBSET Int /\ 1 \in Int
      BY <1>1, <1>2
  <2> QED BY <2>1, TimesXXor, Zenon
<1> QED BY <1>5, <1>6, <1>7

(* A remainder has a lower degree than m, ...                              *)
LEMMA ModBounds ==
    ASSUME NEW d, NEW m, Modulus(m, d), NEW top \in Int, d - 1 <= top, NEW a, a \subseteq 0 .. top
    PROVE  PolyMod(a, m, top) \subseteq 0 .. d - 1
<1> DEFINE N == top + 1 - d
           R == Remainders(a, m, d, top)
           Good == {n \in 0 .. N : R[n] \subseteq 0 .. top - n}
<1>1. N \in Nat /\ d \in Int /\ a \in SUBSET Int
    BY DEF Modulus
<1>2. /\ R[0] = a
      /\ \A n \in 1 .. N : R[n] = Cancel(R[n - 1], m, d, top + 1 - n)
      /\ PolyMod(a, m, top) = R[N]
    BY <1>1, RemaindersSolve
<1> HIDE DEF R
<1>3. 0 \in Good
  <2>1. 0 \in 0 .. N /\ top - 0 = top
      BY <1>1
  <2> QED BY <1>2, <2>1
<1>4. ASSUME NEW n \in 0 .. N - 1, n \in Good PROVE n + 1 \in Good
  <2> DEFINE k == top - n
  <2>1. /\ n + 1 \in 1 .. N /\ n + 1 \in 0 .. N /\ (n + 1) - 1 = n
        /\ top + 1 - (n + 1) = k /\ k \in Int /\ d <= k /\ top - (n + 1) = k - 1
      BY <1>1
  <2>2. R[n + 1] = Cancel(R[n], m, d, k)
      BY <1>2, <2>1
  <2>3. R[n] \subseteq 0 .. k
      BY <1>4
  <2> HIDE DEF k
  <2>4. Cancel(R[n], m, d, k) \subseteq 0 .. k - 1
      BY <2>1, <2>3, CancelBounds
  <2> QED BY <2>1, <2>2, <2>4
<1>5. N \in 0 .. N /\ top - N = d - 1
    BY <1>1
<1>6. \A n \in 0 .. N : n \in Good
  <2> HIDE DEF Good, N
  <2> QED BY <1>1, <1>3, <1>4, IntervalInduction
<1> QED BY <1>2, <1>5, <1>6

(* ... and is additive, ...                                                *)
LEMMA ModXor ==
    ASSUME NEW d, NEW m, Modulus(m, d), NEW top \in Int, d - 1 <= top,
           NEW a \in SUBSET Int, NEW b \in SUBSET Int
    PROVE  PolyMod(a ++ b, m, top) = PolyMod(a, m, top) ++ PolyMod(b, m, top)
<1> DEFINE N == top + 1 - d
           A == Remainders(a, m, d, top)
           B == Remainders(b, m, d, top)
           C == Remainders(a ++ b, m, d, top)
           Good == {n \in 0 .. N : C[n] = A[n] ++ B[n]}
<1>1. N \in Nat /\ d \in Int
    BY DEF Modulus
<1>2. /\ A[0] = a
      /\ \A n \in 1 .. N : A[n] = Cancel(A[n - 1], m, d, top + 1 - n)
      /\ PolyMod(a, m, top) = A[N]
    BY RemaindersSolve
<1>3. /\ B[0] = b
      /\ \A n \in 1 .. N : B[n] = Cancel(B[n - 1], m, d, top + 1 - n)
      /\ PolyMod(b, m, top) = B[N]
    BY RemaindersSolve
<1>4. /\ C[0] = a ++ b
      /\ \A n \in 1 .. N : C[n] = Cancel(C[n - 1], m, d, top + 1 - n)
      /\ PolyMod(a ++ b, m, top) = C[N]
  <2>1. a ++ b \in SUBSET Int
      BY XorBounds
  <2> QED BY <2>1, RemaindersSolve
<1> HIDE DEF A, B, C
<1>5. 0 \in Good
  <2>1. 0 \in 0 .. N
      BY <1>1
  <2> QED BY <1>2, <1>3, <1>4, <2>1
<1>6. ASSUME NEW n \in 0 .. N - 1, n \in Good PROVE n + 1 \in Good
  <2> DEFINE k == top + 1 - (n + 1)
  <2>1. n + 1 \in 1 .. N /\ n + 1 \in 0 .. N /\ (n + 1) - 1 = n
      BY <1>1
  <2>2. /\ A[n + 1] = Cancel(A[n], m, d, k)
        /\ B[n + 1] = Cancel(B[n], m, d, k)
        /\ C[n + 1] = Cancel(C[n], m, d, k)
      BY <1>2, <1>3, <1>4, <2>1
  <2>3. C[n] = A[n] ++ B[n]
      BY <1>6
  <2> HIDE DEF k
  <2>4. C[n + 1] = A[n + 1] ++ B[n + 1]
      BY <2>2, <2>3, CancelXor
  <2> QED BY <2>1, <2>4
<1>7. N \in 0 .. N
    BY <1>1
<1>8. \A n \in 0 .. N : n \in Good
  <2> HIDE DEF Good, N
  <2> QED BY <1>1, <1>5, <1>6, IntervalInduction
<1> QED BY <1>2, <1>3, <1>4, <1>7, <1>8

(* ... and of what has a lower degree already it is the same.              *)
LEMMA ModSmall ==
    ASSUME NEW d, NEW m, Modulus(m, d), NEW top \in Int, d - 1 <= top, NEW a, a \subseteq 0 .. d - 1
    PROVE  PolyMod(a, m, top) = a
<1> DEFINE N == top + 1 - d
           R == Remainders(a, m, d, top)
           Good == {n \in 0 .. N : R[n] = a}
<1>1. N \in Nat /\ d \in Int /\ a \in SUBSET Int
    BY DEF Modulus
<1>2. /\ R[0] = a
      /\ \A n \in 1 .. N : R[n] = Cancel(R[n - 1], m, d, top + 1 - n)
      /\ PolyMod(a, m, top) = R[N]
    BY <1>1, RemaindersSolve
<1> HIDE DEF R
<1>3. 0 \in Good
  <2>1. 0 \in 0 .. N
      BY <1>1
  <2> QED BY <1>2, <2>1
<1>4. ASSUME NEW n \in 0 .. N - 1, n \in Good PROVE n + 1 \in Good
  <2> DEFINE k == top + 1 - (n + 1)
  <2>1. n + 1 \in 1 .. N /\ n + 1 \in 0 .. N /\ (n + 1) - 1 = n /\ k \notin a
      BY <1>1
  <2>2. R[n + 1] = Cancel(a, m, d, k)
      BY <1>2, <1>4, <2>1
  <2> HIDE DEF k
  <2>3. R[n + 1] = a
      BY <2>1, <2>2 DEF Cancel
  <2> QED BY <2>1, <2>3
<1>5. N \in 0 .. N
    BY <1>1
<1>6. \A n \in 0 .. N : n \in Good
  <2> HIDE DEF Good, N
  <2> QED BY <1>1, <1>3, <1>4, IntervalInduction
<1> QED BY <1>2, <1>5, <1>6

(* One more factor x is taken into a remainder by one more cancellation.   *)
ModX(v, m, d) == Cancel(TimesX(v, 1), m, d, d)

LEMMA ModTimesX ==
    ASSUME NEW d, NEW m, Modulus(m, d), NEW top \in Int, d <= top, NEW a, a \subseteq 0 .. top - 1
    PROVE  PolyMod(TimesX(a, 1), m, top) = ModX(PolyMod(a, m, top), m, d)
<1> DEFINE N == top + 1 - d
           b == TimesX(a, 1)
           A == Remainders(a, m, d, top)
           B == Remainders(b, m, d, top)
           Good == {n \in 0 .. N - 1 : B[n] = TimesX(A[n + 1], 1)}
<1>1. N \in Nat /\ N - 1 \in Nat /\ d \in Int /\ d - 1 <= top /\ a \in SUBSET Int
    BY DEF Modulus
<1>2. b \in SUBSET Int
  <2>1. a \subseteq Int /\ 1 \in Int
      BY <1>1
  <2> QED BY ONLY <2>1, TimesXIn
<1>3. /\ A \in [0 .. N -> SUBSET Int]
      /\ A[0] = a
      /\ \A n \in 1 .. N : A[n] = Cancel(A[n - 1], m, d, top + 1 - n)
      /\ PolyMod(a, m, top) = A[N]
  <2>1. d - 1 <= top /\ a \in SUBSET Int
      BY <1>1
  <2>2. A \in [0 .. N -> SUBSET Int]
      BY <2>1, RemaindersSolve
  <2>3. A[0] = a /\ PolyMod(a, m, top) = A[N]
      BY <2>1, RemaindersSolve
  <2>4. \A n \in 1 .. N : A[n] = Cancel(A[n - 1], m, d, top + 1 - n)
      BY <2>1, RemaindersSolve
  <2> QED BY <2>2, <2>3, <2>4
<1>4. /\ B[0] = b
      /\ \A n \in 1 .. N : B[n] = Cancel(B[n - 1], m, d, top + 1 - n)
      /\ PolyMod(b, m, top) = B[N]
  <2> HIDE DEF b
  <2> QED BY <1>1, <1>2, RemaindersSolve
<1> HIDE DEF A, B
<1>5. 0 \in Good
  <2>1. 0 \in 0 .. N - 1 /\ 1 \in 1 .. N /\ 1 - 1 = 0 /\ top + 1 - 1 = top /\ top \notin a
      BY <1>1
  <2>2. A[1] = Cancel(a, m, d, top)
      BY <1>3, <2>1
  <2>3. A[1] = a
      BY <2>1, <2>2 DEF Cancel
  <2> QED BY <1>4, <2>1, <2>3
<1>6. ASSUME NEW n \in 0 .. (N - 1) - 1, n \in Good PROVE n + 1 \in Good
  <2> DEFINE k == top - (n + 1)
  <2>1. /\ n + 1 \in 1 .. N /\ n + 1 \in 0 .. N - 1 /\ (n + 1) - 1 = n
        /\ (n + 1) + 1 \in 1 .. N /\ ((n + 1) + 1) - 1 = n + 1
        /\ top + 1 - (n + 1) = k + 1 /\ top + 1 - ((n + 1) + 1) = k /\ k \in Int /\ n + 1 \in 0 .. N
      BY <1>1
  <2>2. B[n + 1] = Cancel(B[n], m, d, k + 1)
      BY <1>4, <2>1
  <2>3. A[(n + 1) + 1] = Cancel(A[n + 1], m, d, k)
      BY <1>3, <2>1
  <2>4. B[n] = TimesX(A[n + 1], 1)
      BY <1>6
  <2>5. A[n + 1] \in SUBSET Int
      BY <1>3, <2>1
  <2> HIDE DEF k
  <2>6. TimesX(Cancel(A[n + 1], m, d, k), 1) = Cancel(TimesX(A[n + 1], 1), m, d, k + 1)
      BY <2>1, <2>5, CancelTimesX
  <2>7. B[n + 1] = TimesX(A[(n + 1) + 1], 1)
      BY <2>2, <2>3, <2>4, <2>6
  <2> QED BY <2>1, <2>7
<1>7. \A n \in 0 .. N - 1 : n \in Good
  <2> DEFINE M == N - 1
  <2>1. M \in Nat
      BY <1>1
  <2>2. \A n \in 0 .. M - 1 : n \in Good => n + 1 \in Good
      BY <1>6
  <2> HIDE DEF Good, N, M
  <2>3. \A n \in 0 .. M : n \in Good
      BY <1>5, <2>1, <2>2, IntervalInduction
  <2> QED BY <2>3 DEF M
<1>8. N - 1 \in 0 .. N - 1 /\ (N - 1) + 1 = N /\ N \in 1 .. N /\ top + 1 - N = d
    BY <1>1
<1>9. B[N - 1] = TimesX(A[N], 1)
    BY <1>7, <1>8
<1>10. B[N] = Cancel(B[N - 1], m, d, d)
    BY <1>4, <1>8
<1> QED BY <1>3, <1>4, <1>9, <1>10 DEF ModX

LEMMA ModXZero ==
    ASSUME NEW d, NEW m PROVE ModX({}, m, d) = {}
BY TimesXTrivial DEF ModX, Cancel

LEMMA ModXTyped ==
    ASSUME NEW d, NEW m, Modulus(m, d), NEW v, v \subseteq 0 .. d - 1
    PROVE  ModX(v, m, d) \subseteq 0 .. d - 1
<1>1. d \in Int /\ d <= d /\ d - 1 \in Int /\ (d - 1) + 1 = d /\ 1 \in Nat
    BY DEF Modulus
<1>2. TimesX(v, 1) \subseteq 0 .. d
  <2> DEFINE e == d - 1
  <2>1. e \in Int /\ v \subseteq 0 .. e /\ e + 1 = d
      BY <1>1
  <2> HIDE DEF e
  <2>2. TimesX(v, 1) \subseteq 0 .. e + 1
      BY <1>1, <2>1, TimesXBounds
  <2> QED BY <2>1, <2>2
<1>3. Cancel(TimesX(v, 1), m, d, d) \subseteq 0 .. d - 1
    BY <1>1, <1>2, CancelBounds
<1> QED BY <1>3 DEF ModX

(* Powers of x times the modulus leave no remainder.                       *)
LEMMA ModOfModulus ==
    ASSUME NEW d, NEW m, Modulus(m, d), NEW top \in Int, d <= top
    PROVE  \A n \in 0 .. top - d : PolyMod(TimesX(m, n), m, top) = {}
<1> DEFINE L == top - d
           Good == {n \in 0 .. L : PolyMod(TimesX(m, n), m, top) = {}}
<1>1. /\ d \in Nat /\ L \in Nat /\ m \in SUBSET Int /\ m \subseteq 0 .. d /\ d \in m
      /\ d - 1 <= top /\ top + 1 - d \in Nat
    BY DEF Modulus
<1>2. PolyMod(m, m, top) = {}
  <2> DEFINE R == Remainders(m, m, d, top)
             Same == {n \in 0 .. L : R[n] = m}
  <2>1. /\ R[0] = m
        /\ \A n \in 1 .. top + 1 - d : R[n] = Cancel(R[n - 1], m, d, top + 1 - n)
        /\ PolyMod(m, m, top) = R[top + 1 - d]
      BY <1>1, RemaindersSolve
  <2> HIDE DEF R
  <2>2. 0 \in Same
    <3>1. 0 \in 0 .. L
        BY <1>1
    <3> QED BY <2>1, <3>1
  <2>3. ASSUME NEW n \in 0 .. L - 1, n \in Same PROVE n + 1 \in Same
    <3> DEFINE k == top + 1 - (n + 1)
    <3>1. n + 1 \in 1 .. top + 1 - d /\ n + 1 \in 0 .. L /\ (n + 1) - 1 = n /\ k \notin m
        BY <1>1
    <3>2. R[n + 1] = Cancel(m, m, d, k)
        BY <2>1, <2>3, <3>1
    <3> HIDE DEF k
    <3>3. R[n + 1] = m
        BY <3>1, <3>2 DEF Cancel
    <3> QED BY <3>1, <3>3
  <2>4. \A n \in 0 .. L : n \in Same
    <3> HIDE DEF Same, L
    <3> QED BY <1>1, <2>2, <2>3, IntervalInduction
  <2>5. R[L] = m
    <3>1. L \in 0 .. L
        BY <1>1
    <3> QED BY <2>4, <3>1
  <2>6. R[top + 1 - d] = Cancel(m, m, d, d)
    <3>1. top + 1 - d \in 1 .. top + 1 - d /\ (top + 1 - d) - 1 = L /\ top + 1 - (top + 1 - d) = d
        BY <1>1
    <3> QED BY <2>1, <2>5, <3>1
  <2>7. Cancel(m, m, d, d) = {}
    <3>1. TimesX(m, d - d) = m
      <4>1. d - d = 0
          BY <1>1
      <4> QED BY <1>1, <4>1, TimesXTrivial
    <3> QED BY <1>1, <3>1, XorLaws DEF Cancel
  <2> QED BY <2>1, <2>6, <2>7
<1>3. 0 \in Good
  <2>1. 0 \in 0 .. L /\ TimesX(m, 0) = m
      BY <1>1, TimesXTrivial
  <2> QED BY <1>2, <2>1
<1>4. ASSUME NEW n \in 0 .. L - 1, n \in Good PROVE n + 1 \in Good
  <2> DEFINE a == TimesX(m, n)
  <2>1. n \in Int /\ n + 1 \in 0 .. L /\ d + n <= top - 1 /\ n \in Nat
      BY <1>1
  <2>2. a \subseteq 0 .. top - 1
    <3>1. a \subseteq 0 .. d + n
        BY <1>1, <2>1, TimesXBounds
    <3>2. 0 .. d + n \subseteq 0 .. top - 1
        BY <1>1, <2>1
    <3> QED BY <3>1, <3>2
  <2>3. TimesX(a, 1) = TimesX(m, n + 1)
    <3>1. m \subseteq Int /\ 1 \in Int
        BY <1>1
    <3> QED BY ONLY <2>1, <3>1, TimesXTwice
  <2>4. PolyMod(a, m, top) = {}
      BY <1>4
  <2> HIDE DEF a
  <2>5. PolyMod(TimesX(a, 1), m, top) = ModX({}, m, d)
    <3>1. PolyMod(TimesX(a, 1), m, top) = ModX(PolyMod(a, m, top), m, d)
        BY <2>2, ModTimesX
    <3> QED BY <2>4, <3>1
  <2>6. PolyMod(TimesX(m, n + 1), m, top) = {}
      BY <2>3, <2>5, ModXZero
  <2> QED BY <2>1, <2>6
<1>5. \A n \in 0 .. L : n \in Good
  <2> HIDE DEF Good, L
  <2> QED BY <1>1, <1>3, <1>4, IntervalInduction
<1> QED BY <1>5
-----------------------------------------------------------------------------
(* The polynomials of a degree below d, multiplied modulo m.               *)
Residues(d) == SUBSET (0 .. d - 1)
ModMul(a, b, m, d) == PolyMod(PolyMul(a, b), m, 2 * d - 1)
ModPower(a, n, m, d) == PolyMod(TimesX(a, n), m, 2 * d - 1)

LEMMA Degrees ==
    ASSUME NEW d, NEW m, Modulus(m, d)
    PROVE  /\ d \in Nat \ {0} /\ d - 1 \in Int /\ 2 * d - 1 \in Int /\ d - 1 <= 2 * d - 1 /\ d <= 2 * d - 1
           /\ \A v \in Residues(d) : v \subseteq 0 .. d - 1 /\ v \in SUBSET Int
           /\ m \subseteq 0 .. d /\ m \in SUBSET Int
BY DEF Modulus, Residues

LEMMA ProductBounds ==
    ASSUME NEW d, NEW m, Modulus(m, d), NEW a \in Residues(d), NEW b \in Residues(d)
    PROVE  /\ PolyMul(a, b) \subseteq 0 .. (2 * d - 1) - 1
           /\ PolyMul(a, b) \subseteq 0 .. 2 * d - 1
           /\ PolyMul(a, b) \in SUBSET Int
<1> DEFINE e == d - 1
<1>1. e \in Int /\ a \subseteq 0 .. e /\ b \subseteq 0 .. e
    BY Degrees
<1>2. d \in Int /\ e + e = (2 * d - 1) - 1
    BY Degrees
<1> HIDE DEF e
<1>3. PolyMul(a, b) \subseteq 0 .. e + e
    BY <1>1, MulBounds
<1>4. PolyMul(a, b) \subseteq 0 .. (2 * d - 1) - 1
    BY <1>2, <1>3
<1> QED BY <1>2, <1>4

LEMMA ModMulTyped ==
    ASSUME NEW d, NEW m, Modulus(m, d), NEW a \in Residues(d), NEW b \in Residues(d)
    PROVE  ModMul(a, b, m, d) \in Residues(d)
<1> DEFINE top == 2 * d - 1
           p == PolyMul(a, b)
<1>1. top \in Int /\ d - 1 <= top
    BY Degrees
<1>2. p \subseteq 0 .. top
    BY ProductBounds
<1> HIDE DEF top, p
<1>3. PolyMod(p, m, top) \subseteq 0 .. d - 1
    BY <1>1, <1>2, ModBounds
<1> QED BY <1>3 DEF ModMul, Residues, top, p

LEMMA ModMulXorRight ==
    ASSUME NEW d, NEW m, Modulus(m, d), NEW a \in Residues(d), NEW b \in Residues(d), NEW c \in Residues(d)
    PROVE  ModMul(a, b ++ c, m, d) = ModMul(a, b, m, d) ++ ModMul(a, c, m, d)
<1> DEFINE e == d - 1
           top == 2 * d - 1
           p == PolyMul(a, b)
           q == PolyMul(a, c)
<1>1. e \in Int /\ a \subseteq 0 .. e /\ b \subseteq 0 .. e /\ c \subseteq 0 .. e /\ top \in Int /\ e <= top
    BY Degrees
<1>2. p \in SUBSET Int /\ q \in SUBSET Int
    BY ProductBounds
<1>3. PolyMul(a, b ++ c) = p ++ q
  <2> DEFINE D == 0 .. e
  <2>1. e \in Int /\ a \in SUBSET D /\ b \in SUBSET D /\ c \in SUBSET D
      BY <1>1
  <2> HIDE DEF e
  <2> QED BY <2>1, MulXorRight, Zenon
<1>4. d - 1 <= top
    BY <1>1
<1> HIDE DEF p, q, e, top
<1>5. PolyMod(p ++ q, m, top) = PolyMod(p, m, top) ++ PolyMod(q, m, top)
    BY <1>1, <1>2, <1>4, ModXor
<1> QED BY <1>3, <1>5 DEF ModMul, p, q, top

LEMMA ModMulXorLeft ==
    ASSUME NEW d, NEW m, Modulus(m, d), NEW a \in Residues(d), NEW b \in Residues(d), NEW c \in Residues(d)
    PROVE  ModMul(a ++ b, c, m, d) = ModMul(a, c, m, d) ++ ModMul(b, c, m, d)
<1> DEFINE e == d - 1
           top == 2 * d - 1
           p == PolyMul(a, c)
           q == PolyMul(b, c)
<1>1. e \in Int /\ a \subseteq 0 .. e /\ b \subseteq 0 .. e /\ c \subseteq 0 .. e /\ top \in Int /\ e <= top
    BY Degrees
<1>2. p \in SUBSET Int /\ q \in SUBSET Int
    BY ProductBounds
<1>3. PolyMul(a ++ b, c) = p ++ q
  <2> DEFINE D == 0 .. e
  <2>1. e \in Int /\ a \in SUBSET D /\ b \in SUBSET D /\ c \in SUBSET D
      BY <1>1
  <2> HIDE DEF e
  <2> QED BY <2>1, MulXorLeft, Zenon
<1>4. d - 1 <= top
    BY <1>1
<1> HIDE DEF p, q, e, top
<1>5. PolyMod(p ++ q, m, top) = PolyMod(p, m, top) ++ PolyMod(q, m, top)
    BY <1>1, <1>2, <1>4, ModXor
<1> QED BY <1>3, <1>5 DEF ModMul, p, q, top

LEMMA ModMulTrivial ==
    ASSUME NEW d, NEW m, Modulus(m, d), NEW a \in Residues(d)
    PROVE  ModMul(a, {}, m, d) = {} /\ ModMul({}, a, m, d) = {} /\ ModMul({0}, a, m, d) = a
<1> DEFINE top == 2 * d - 1
           e == d - 1
<1>1. e \in Int /\ a \subseteq 0 .. e /\ a \in SUBSET Int /\ top \in Int /\ e <= top /\ {} \subseteq 0 .. e
    BY Degrees
<1>2. PolyMul(a, {}) = {} /\ PolyMul({}, a) = {}
    BY MulZero
<1>3. PolyMul({0}, a) = a
  <2>1. 0 \in Nat
      OBVIOUS
  <2> HIDE DEF e
  <2>2. PolyMul({0}, a) = TimesX(a, 0)
      BY <1>1, <2>1, MulPower
  <2> QED BY <1>1, <2>2, TimesXTrivial
<1>4. PolyMod({}, m, top) = {} /\ PolyMod(a, m, top) = a
  <2> HIDE DEF top
  <2>1. PolyMod({}, m, top) = {}
      BY <1>1, ModSmall
  <2> QED BY <1>1, <2>1, ModSmall
<1> QED BY <1>2, <1>3, <1>4 DEF ModMul

(* The part of a below x^(n+1).                                            *)
LEMMA NextPower ==
    ASSUME NEW d \in Nat, NEW a, a \subseteq 0 .. d - 1, NEW n \in 0 .. d - 1
    PROVE  /\ a \cap (0 .. n) =
                IF n \in a THEN (a \cap (0 .. n - 1)) ++ {n} ELSE a \cap (0 .. n - 1)
           /\ a \cap (0 .. n) \in Residues(d) /\ a \cap (0 .. n - 1) \in Residues(d) /\ {n} \in Residues(d)
<1>1. \A x \in 0 .. d - 1 : x \in 0 .. n <=> (x \in 0 .. n - 1 \/ x = n)
    OBVIOUS
<1>2. n \notin 0 .. n - 1
    OBVIOUS
<1>3. a \cap (0 .. n) \subseteq 0 .. d - 1 /\ a \cap (0 .. n - 1) \subseteq 0 .. d - 1 /\ {n} \subseteq 0 .. d - 1
    OBVIOUS
<1> DEFINE I == 0 .. n
           J == 0 .. n - 1
           D == 0 .. d - 1
<1> HIDE DEF I, J, D
<1>4. a \subseteq D /\ (\A x \in D : x \in I <=> (x \in J \/ x = n)) /\ n \notin J /\ n \in D
    BY <1>1, <1>2 DEF I, J, D
<1>5. a \cap I = IF n \in a THEN (a \cap J) ++ {n} ELSE a \cap J
    BY <1>4 DEF ++, SymDiff
<1> QED BY <1>3, <1>5 DEF Residues, I, J

(* Multiples of the modulus leave no remainder.                            *)
LEMMA MulByModulus ==
    ASSUME NEW d, NEW m, Modulus(m, d), NEW a \in Residues(d)
    PROVE  PolyMod(PolyMul(a, m), m, 2 * d - 1) = {}
<1> DEFINE top == 2 * d - 1
           Lower(n) == a \cap (0 .. n - 1)
           Good == {n \in 0 .. d : PolyMod(PolyMul(Lower(n), m), m, top) = {}}
<1>1. /\ d \in Nat /\ top \in Int /\ d - 1 <= top /\ a \subseteq 0 .. d - 1 /\ d - 1 \in Int
      /\ m \in SUBSET (0 .. d) /\ d \in Int /\ d <= top /\ top - d = d - 1
    BY Degrees
<1>2. 0 \in Good
  <2>1. 0 \in 0 .. d /\ Lower(0) = {}
      BY <1>1
  <2>2. PolyMul({}, m) = {} /\ {} \subseteq 0 .. d - 1
      BY MulZero
  <2> HIDE DEF top
  <2>3. PolyMod({}, m, top) = {}
      BY <1>1, <2>2, ModSmall
  <2> QED BY <2>1, <2>2, <2>3
<1>3. ASSUME NEW n \in 0 .. d - 1, n \in Good PROVE n + 1 \in Good
  <2> DEFINE b == Lower(n)
             p == PolyMul(b, m)
             q == TimesX(m, n)
  <2>1. n + 1 \in 0 .. d /\ (n + 1) - 1 = n /\ n \in Nat
      BY <1>1
  <2>2. /\ Lower(n + 1) = IF n \in a THEN b ++ {n} ELSE b
        /\ b \subseteq 0 .. d - 1 /\ {n} \subseteq 0 .. d - 1
    <3>1. a \cap (0 .. n) = IF n \in a THEN b ++ {n} ELSE b
        BY <1>1, NextPower
    <3>2. Lower(n + 1) = a \cap (0 .. n)
        BY <2>1
    <3>3. b \in Residues(d) /\ {n} \in Residues(d)
        BY <1>1, NextPower
    <3> QED BY <3>1, <3>2, <3>3 DEF Residues
  <2>3. PolyMod(p, m, top) = {}
      BY <1>3
  <2> HIDE DEF Lower, b
  <2>4. CASE n \notin a
      BY <2>1, <2>2, <2>3, <2>4
  <2>5. CASE n \in a
    <3>1. PolyMul(b ++ {n}, m) = p ++ PolyMul({n}, m)
      <4> DEFINE e == d - 1
                 D == 0 .. e
      <4>1. e \in Int /\ b \in SUBSET D /\ {n} \in SUBSET D
          BY <1>1, <2>2
      <4>2. d \in Int /\ m \in SUBSET (0 .. d)
          BY <1>1
      <4> HIDE DEF e
      <4>3. \A x, z \in SUBSET (0 .. e) : PolyMul(x ++ z, m) = PolyMul(x, m) ++ PolyMul(z, m)
          BY ONLY <4>1, <4>2, MulXorLeft, Zenon
      <4> QED BY ONLY <4>1, <4>3, Zenon
    <3>2. PolyMul({n}, m) = q
        BY <1>1, <2>1, MulPower
    <3>3. p \in SUBSET Int /\ q \in SUBSET Int
      <4> DEFINE e == d - 1
      <4>1. e \in Int /\ b \subseteq 0 .. e /\ m \subseteq 0 .. d
          BY <1>1, <2>2
      <4> HIDE DEF e
      <4>2. p \subseteq 0 .. e + d
          BY <1>1, <4>1, MulBounds
      <4>3. q \subseteq 0 .. d + n
          BY <1>1, <2>1, TimesXBounds
      <4> QED BY <4>2, <4>3
    <3>4. PolyMod(q, m, top) = {}
      <4>1. n \in 0 .. top - d
          BY <1>1
      <4> HIDE DEF top
      <4> QED BY <1>1, <4>1, ModOfModulus
    <3> HIDE DEF p, q, top
    <3>5. PolyMod(p ++ q, m, top) = PolyMod(p, m, top) ++ PolyMod(q, m, top)
        BY <1>1, <3>3, ModXor
    <3>6. PolyMod(PolyMul(Lower(n + 1), m), m, top) = {} ++ {}
        BY <2>2, <2>3, <2>5, <3>1, <3>2, <3>4, <3>5
    <3>7. {} ++ {} = {}
        BY XorLaws
    <3> QED BY <2>1, <3>6, <3>7
  <2> QED BY <2>4, <2>5
<1>4. \A n \in 0 .. d : n \in Good
  <2> HIDE DEF Good
  <2> QED BY <1>1, <1>2, <1>3, IntervalInduction
<1>5. d \in 0 .. d /\ Lower(d) = a
  <2>1. d \in 0 .. d
      BY <1>1
  <2>2. a \cap (0 .. d - 1) = a
      BY <1>1
  <2> QED BY <2>1, <2>2
<1>6. PolyMod(PolyMul(Lower(d), m), m, top) = {}
    BY <1>4, <1>5
<1> QED BY <1>5, <1>6

(* A factor x may be taken in before or after the multiplication.          *)
LEMMA ModMulX ==
    ASSUME NEW d, NEW m, Modulus(m, d), NEW a \in Residues(d), NEW b \in Residues(d)
    PROVE  ModMul(a, ModX(b, m, d), m, d) = ModX(ModMul(a, b, m, d), m, d)
<1> DEFINE top == 2 * d - 1
           xb == TimesX(b, 1)
           p == PolyMul(a, b)
           e == d - 1
           D == 0 .. d
<1>1. /\ d \in Int /\ e \in Int /\ e + 1 = d /\ 1 \in Nat /\ top \in Int /\ d - 1 <= top /\ d <= top
      /\ a \subseteq 0 .. e /\ b \subseteq 0 .. e /\ m \in SUBSET D /\ m \in SUBSET Int
    BY Degrees
<1>2. xb \in SUBSET D
  <2> HIDE DEF e
  <2>1. xb \subseteq 0 .. e + 1
      BY <1>1, TimesXBounds
  <2> QED BY <1>1, <2>1
<1>3. PolyMul(a, xb) = TimesX(p, 1)
  <2>1. e \in Int /\ a \in SUBSET (0 .. e) /\ b \in SUBSET (0 .. e)
      BY <1>1
  <2> HIDE DEF e
  <2> QED BY <2>1, MulTimesX, Zenon
<1>4. p \subseteq 0 .. top - 1
    BY ProductBounds
<1>5. PolyMod(PolyMul(a, xb), m, top) = ModX(PolyMod(p, m, top), m, d)
  <2> HIDE DEF p, top, xb
  <2>1. PolyMod(TimesX(p, 1), m, top) = ModX(PolyMod(p, m, top), m, d)
      BY <1>1, <1>4, ModTimesX
  <2> QED BY ONLY <1>3, <2>1
<1>6. ModX(b, m, d) = IF d \in xb THEN xb ++ m ELSE xb
  <2>1. d - d = 0 /\ TimesX(m, 0) = m
      BY <1>1, TimesXTrivial
  <2> QED BY <2>1 DEF ModX, Cancel
<1>7. CASE d \notin xb
    BY <1>5, <1>6, <1>7 DEF ModMul
<1>8. CASE d \in xb
  <2> DEFINE q == PolyMul(a, xb)
             r == PolyMul(a, m)
  <2>1. a \in SUBSET (0 .. e)
      BY <1>1
  <2> HIDE DEF xb, top, e
  <2>2. PolyMul(a, xb ++ m) = q ++ r
    <3>1. d \in Int /\ e \in Int /\ xb \in SUBSET (0 .. d) /\ m \in SUBSET (0 .. d)
        BY <1>1, <1>2
    <3>2. \A x, z \in SUBSET (0 .. d) : PolyMul(a, x ++ z) = PolyMul(a, x) ++ PolyMul(a, z)
        BY ONLY <2>1, <3>1, MulXorRight, Zenon
    <3> QED BY ONLY <3>1, <3>2, Zenon
  <2>3. q \in SUBSET Int /\ r \in SUBSET Int
    <3>1. q \subseteq 0 .. e + d /\ r \subseteq 0 .. e + d
        BY <1>1, <1>2, <2>1, MulBounds
    <3> QED BY <3>1
  <2>4. PolyMod(r, m, top) = {}
      BY MulByModulus DEF top
  <2> HIDE DEF q, r
  <2>5. PolyMod(q ++ r, m, top) = PolyMod(q, m, top) ++ PolyMod(r, m, top)
      BY <1>1, <2>3, ModXor
  <2>6. PolyMod(q ++ r, m, top) = PolyMod(q, m, top)
      BY <2>4, <2>5, XorLaws
  <2>7. ModX(b, m, d) = xb ++ m
      BY <1>6, <1>8
  <2> QED BY <1>5, <2>2, <2>6, <2>7 DEF ModMul, q, top
<1> QED BY <1>7, <1>8

(* ModPower(a, n, m, d) is a times x^n.                                    *)
LEMMA ModPowerNext ==
    ASSUME NEW d, NEW m, Modulus(m, d), NEW a \in Residues(d)
    PROVE  /\ ModPower(a, 0, m, d) = a
           /\ \A n \in 0 .. d : ModPower(a, n, m, d) \in Residues(d)
           /\ \A n \in 0 .. d - 1 : ModPower(a, n + 1, m, d) = ModX(ModPower(a, n, m, d), m, d)
<1> DEFINE top == 2 * d - 1
           e == d - 1
<1>1. /\ d \in Nat /\ top \in Int /\ d - 1 <= top /\ d <= top /\ e \in Int /\ a \subseteq 0 .. d - 1
      /\ a \subseteq 0 .. e /\ a \in SUBSET Int /\ \A n \in 0 .. d : e + n <= top
    BY Degrees
<1>2. ModPower(a, 0, m, d) = a
  <2> HIDE DEF top
  <2>1. PolyMod(a, m, top) = a
      BY <1>1, ModSmall
  <2>2. TimesX(a, 0) = a
      BY <1>1, TimesXTrivial
  <2> QED BY <2>1, <2>2 DEF ModPower, top
<1>3. \A n \in Nat : TimesX(a, n) \subseteq 0 .. e + n
  <2> HIDE DEF e
  <2> QED BY <1>1, TimesXBounds
<1>4. ASSUME NEW n \in 0 .. d PROVE ModPower(a, n, m, d) \in Residues(d)
  <2> DEFINE p == TimesX(a, n)
  <2>1. p \subseteq 0 .. top
    <3>1. n \in Nat /\ e + n <= top
        BY <1>1
    <3>2. p \subseteq 0 .. e + n
        BY <1>3, <3>1
    <3> QED BY <1>1, <3>1, <3>2
  <2> HIDE DEF p, top
  <2>2. PolyMod(p, m, top) \subseteq 0 .. d - 1
      BY <1>1, <2>1, ModBounds
  <2> QED BY <2>2 DEF ModPower, Residues, p, top
<1>5. ASSUME NEW n \in 0 .. d - 1 PROVE ModPower(a, n + 1, m, d) = ModX(ModPower(a, n, m, d), m, d)
  <2> DEFINE p == TimesX(a, n)
  <2>1. n \in Nat /\ n \in Int /\ e + n <= top - 1 /\ 1 \in Int /\ a \subseteq Int
      BY <1>1
  <2>2. p \subseteq 0 .. top - 1
    <3>1. p \subseteq 0 .. e + n
        BY <1>3, <2>1
    <3> QED BY <1>1, <2>1, <3>1
  <2>3. TimesX(p, 1) = TimesX(a, n + 1)
      BY ONLY <2>1, TimesXTwice
  <2> HIDE DEF p, top
  <2>4. PolyMod(TimesX(p, 1), m, top) = ModX(PolyMod(p, m, top), m, d)
      BY <1>1, <2>2, ModTimesX
  <2> QED BY <2>3, <2>4 DEF ModPower, p, top
<1> QED BY <1>2, <1>4, <1>5

LEMMA ModMulPower ==
    ASSUME NEW d, NEW m, Modulus(m, d), NEW a \in Residues(d), NEW b \in Residues(d)
    PROVE  \A n \in 0 .. d :
             ModMul(a, ModPower(b, n, m, d), m, d) = ModPower(ModMul(a, b, m, d), n, m, d)
<1> DEFINE p == ModMul(a, b, m, d)
           Good == {n \in 0 .. d : ModMul(a, ModPower(b, n, m, d), m, d) = ModPower(p, n, m, d)}
<1>1. d \in Nat /\ p \in Residues(d)
    BY Degrees, ModMulTyped
<1>2. /\ ModPower(b, 0, m, d) = b
      /\ \A n \in 0 .. d : ModPower(b, n, m, d) \in Residues(d)
      /\ \A n \in 0 .. d - 1 : ModPower(b, n + 1, m, d) = ModX(ModPower(b, n, m, d), m, d)
    BY ModPowerNext
<1>3. p = ModMul(a, b, m, d)
    OBVIOUS
<1> HIDE DEF p
<1>4. /\ ModPower(p, 0, m, d) = p
      /\ \A n \in 0 .. d - 1 : ModPower(p, n + 1, m, d) = ModX(ModPower(p, n, m, d), m, d)
    BY <1>1, ModPowerNext
<1>5. 0 \in Good
  <2>1. 0 \in 0 .. d
      BY <1>1
  <2> QED BY <1>2, <1>3, <1>4, <2>1
<1>6. ASSUME NEW n \in 0 .. d - 1, n \in Good PROVE n + 1 \in Good
  <2> DEFINE x == ModPower(b, n, m, d)
  <2>1. n + 1 \in 0 .. d /\ n \in 0 .. d
      BY <1>1
  <2>2. x \in Residues(d) /\ ModPower(b, n + 1, m, d) = ModX(x, m, d)
      BY <1>2, <2>1
  <2>3. ModMul(a, x, m, d) = ModPower(p, n, m, d)
      BY <1>6
  <2>4. ModPower(p, n + 1, m, d) = ModX(ModPower(p, n, m, d), m, d)
      BY <1>4
  <2> HIDE DEF x
  <2>5. ModMul(a, ModX(x, m, d), m, d) = ModX(ModMul(a, x, m, d), m, d)
      BY <2>2, ModMulX
  <2>6. ModMul(a, ModPower(b, n + 1, m, d), m, d) = ModPower(p, n + 1, m, d)
      BY <2>2, <2>3, <2>4, <2>5
  <2> QED BY <2>1, <2>6
<1>7. \A n \in 0 .. d : n \in Good
  <2> HIDE DEF Good
  <2> QED BY <1>1, <1>5, <1>6, IntervalInduction
<1> QED BY <1>7 DEF p

(* A product bit by bit: the terms of c are taken in one after the other.  *)
LEMMA ModMulNext ==
    ASSUME NEW d, NEW m, Modulus(m, d), NEW a \in Residues(d), NEW c \in Residues(d), NEW n \in 0 .. d - 1
    PROVE  ModMul(a, c \cap (0 .. n), m, d) =
             IF n \in c THEN ModMul(a, c \cap (0 .. n - 1), m, d) ++ ModPower(a, n, m, d)
             ELSE ModMul(a, c \cap (0 .. n - 1), m, d)
<1> DEFINE u == c \cap (0 .. n)
           v == c \cap (0 .. n - 1)
           e == d - 1
<1>1. d \in Nat /\ c \subseteq 0 .. d - 1 /\ e \in Int /\ a \subseteq 0 .. e /\ n \in Nat
    BY Degrees
<1>2. u = IF n \in c THEN v ++ {n} ELSE v
    BY <1>1, NextPower
<1>3. v \in Residues(d) /\ {n} \in Residues(d)
    BY <1>1, NextPower
<1>4. PolyMul(a, {n}) = TimesX(a, n)
  <2> HIDE DEF e
  <2> QED BY <1>1, MulPower
<1>5. ModMul(a, {n}, m, d) = ModPower(a, n, m, d)
    BY <1>4 DEF ModMul, ModPower
<1> HIDE DEF u, v
<1>6. ModMul(a, v ++ {n}, m, d) = ModMul(a, v, m, d) ++ ModMul(a, {n}, m, d)
    BY <1>3, ModMulXorRight
<1>7. ModMul(a, u, m, d) = IF n \in c THEN ModMul(a, v, m, d) ++ ModPower(a, n, m, d) ELSE ModMul(a, v, m, d)
    BY <1>2, <1>5, <1>6
<1> QED BY <1>7 DEF u, v

(* The powers of c below n.                                                *)
Below(c, n) == c \cap (0 .. n - 1)

LEMMA ModMulBelow ==
    ASSUME NEW d, NEW m, Modulus(m, d), NEW a \in Residues(d), NEW c \in Residues(d), NEW n \in 0 .. d - 1
    PROVE  ModMul(a, Below(c, n + 1), m, d) =
             IF n \in c THEN ModMul(a, Below(c, n), m, d) ++ ModPower(a, n, m, d)
             ELSE ModMul(a, Below(c, n), m, d)
<1>1. d \in Nat
    BY DEF Modulus
<1>2. Below(c, n + 1) = c \cap (0 .. n) /\ Below(c, n) = c \cap (0 .. n - 1)
    BY <1>1 DEF Below
<1>3. ModMul(a, c \cap (0 .. n), m, d) =
        IF n \in c THEN ModMul(a, c \cap (0 .. n - 1), m, d) ++ ModPower(a, n, m, d)
        ELSE ModMul(a, c \cap (0 .. n - 1), m, d)
    BY ModMulNext
<1> QED BY ONLY <1>2, <1>3

(* Multiplication modulo any polynomial is associative.                    *)
THEOREM ModMulAssociative ==
    ASSUME NEW d, NEW m, Modulus(m, d), NEW a \in Residues(d), NEW b \in Residues(d), NEW c \in Residues(d)
    PROVE  ModMul(ModMul(a, b, m, d), c, m, d) = ModMul(a, ModMul(b, c, m, d), m, d)
<1> DEFINE p == ModMul(a, b, m, d)
           Lower(n) == c \cap (0 .. n - 1)
           Good == {n \in 0 .. d : ModMul(p, Lower(n), m, d) = ModMul(a, ModMul(b, Lower(n), m, d), m, d)}
<1>1. d \in Nat /\ p \in Residues(d) /\ c \subseteq 0 .. d - 1
    BY Degrees, ModMulTyped
<1>2. 0 \in Good
  <2>1. 0 \in 0 .. d /\ Lower(0) = {}
      BY <1>1
  <2>2. ModMul(p, {}, m, d) = {} /\ ModMul(b, {}, m, d) = {} /\ ModMul(a, {}, m, d) = {}
    <3> HIDE DEF p
    <3> QED BY <1>1, ModMulTrivial
  <2> QED BY <2>1, <2>2
<1>3. ASSUME NEW n \in 0 .. d - 1, n \in Good PROVE n + 1 \in Good
  <2> DEFINE v == Lower(n)
             w == Lower(n + 1)
             x == ModPower(b, n, m, d)
  <2>1. n + 1 \in 0 .. d /\ (n + 1) - 1 = n /\ n \in 0 .. d
      BY <1>1
  <2>2. w = c \cap (0 .. n) /\ v = c \cap (0 .. n - 1)
      BY <2>1
  <2>3. v \in Residues(d) /\ w \in Residues(d)
    <3>1. c \cap (0 .. n) \in Residues(d) /\ c \cap (0 .. n - 1) \in Residues(d)
        BY <1>1, NextPower
    <3> QED BY <2>2, <3>1
  <2>4. ModMul(p, v, m, d) = ModMul(a, ModMul(b, v, m, d), m, d)
      BY <1>3
  <2> HIDE DEF Lower, v, w, p
  <2>5. ModMul(p, w, m, d) =
          IF n \in c THEN ModMul(p, v, m, d) ++ ModPower(p, n, m, d) ELSE ModMul(p, v, m, d)
    <3>1. ModMul(p, c \cap (0 .. n), m, d) =
            IF n \in c THEN ModMul(p, c \cap (0 .. n - 1), m, d) ++ ModPower(p, n, m, d)
            ELSE ModMul(p, c \cap (0 .. n - 1), m, d)
        BY <1>1, ModMulNext
    <3> QED BY <2>2, <3>1
  <2>6. ModMul(b, w, m, d) = IF n \in c THEN ModMul(b, v, m, d) ++ x ELSE ModMul(b, v, m, d)
      BY <2>2, ModMulNext
  <2>7. x \in Residues(d) /\ ModMul(b, v, m, d) \in Residues(d)
      BY <2>1, <2>3, ModPowerNext, ModMulTyped
  <2>8. ModMul(a, x, m, d) = ModPower(p, n, m, d)
      BY <2>1, ModMulPower DEF p
  <2> HIDE DEF x
  <2>9. ModMul(a, ModMul(b, v, m, d) ++ x, m, d) = ModMul(a, ModMul(b, v, m, d), m, d) ++ ModMul(a, x, m, d)
      BY <2>7, ModMulXorRight
  <2>10. ModMul(p, w, m, d) = ModMul(a, ModMul(b, w, m, d), m, d)
      BY <2>4, <2>5, <2>6, <2>8, <2>9
  <2> QED BY <2>1, <2>10 DEF w
<1>4. \A n \in 0 .. d : n \in Good
  <2> HIDE DEF Good
  <2> QED BY <1>1, <1>2, <1>3, IntervalInduction
<1>5. d \in 0 .. d /\ Lower(d) = c
  <2>1. d \in 0 .. d
      BY <1>1
  <2>2. c \cap (0 .. d - 1) = c
      BY <1>1
  <2> QED BY <2>1, <2>2
<1>6. ModMul(p, Lower(d), m, d) = ModMul(a, ModMul(b, Lower(d), m, d), m, d)
    BY <1>4, <1>5
<1> QED BY <1>5, <1>6
=============================================================================
