---------------------------- MODULE LedgerProofs ----------------------------
(***************************************************************************)
(* Proofs about Money, Quantity and Ledger for integers of every width and *)
(* floats of every precision: for 2^63 and 2^53 in particular.             *)
(***************************************************************************)
EXTENDS Ledger, WellFoundedInduction, TLAPS

-----------------------------------------------------------------------------
(* Running totals.                                                          *)

\* Induction from lo to n, in the form the provers can use: a set that has lo
\* and with every number the next one has them all.
LEMMA Induct ==
    ASSUME NEW lo \in Int, NEW n \in Int, NEW T,
           lo \in T, \A i \in lo..n : i # lo /\ i - 1 \in T => i \in T
    PROVE  lo..n \subseteq T
  <1> DEFINE R == OpToRel(<, Nat)
             U == {x \in Nat : lo + x <= n /\ lo + x \notin T}
  <1> SUFFICES ASSUME NEW k \in lo..n, k \notin T PROVE FALSE
    OBVIOUS
  <1>1. k - lo \in U
    <2>1. k - lo \in Nat /\ lo + (k - lo) = k /\ k <= n
      OBVIOUS
    <2> QED
      BY <2>1
  <1>2. U \subseteq Nat /\ U # {}
    BY Zenon, <1>1
  <1>3. \A x, y \in Nat : <<y, x>> \in R <=> y < x
    BY DEF OpToRel
  <1>4. PICK x \in U : \A y \in U : ~ (<<y, x>> \in R)
    <2> HIDE DEF R, U
    <2>1. IsWellFoundedOn(R, Nat)
      BY Zenon, NatLessThanWellFounded DEF R
    <2> QED
      BY Zenon, <1>2, <2>1, WFMin
  <1>5. x \in Nat /\ lo + x <= n /\ lo + x \notin T /\ x # 0
    <2>1. lo + 0 = lo
      OBVIOUS
    <2> QED
      BY Zenon, <1>4, <2>1
  <1>6. x - 1 \in Nat /\ x - 1 < x /\ lo + (x - 1) <= n
    BY <1>5
  <1>7. x - 1 \notin U
    <2> HIDE DEF R, U
    <2> QED
      BY Zenon, <1>2, <1>3, <1>4, <1>6
  <1>8. lo + (x - 1) \in T
    BY <1>6, <1>7
  <1>9. lo + x \in lo..n /\ lo + x # lo /\ (lo + x) - 1 = lo + (x - 1)
    BY <1>5
  <1> QED
    BY <1>5, <1>8, <1>9

\* A recursive function of the numbers from lo to n exists: a is its value at
\* lo, and step makes the next value of the last one.
Steps(step, lo, n, V) == step \in [lo..n -> [V -> V]]
Iteration(g, lo, n, V, a, step) ==
    /\ g \in [lo..n -> V] /\ g[lo] = a
    /\ \A i \in lo..n : i # lo => g[i] = step[i][g[i - 1]]
LEMMA Iterates ==
    ASSUME NEW lo \in Int, NEW n \in Int, lo <= n, NEW V, NEW a \in V,
           NEW step, Steps(step, lo, n, V)
    PROVE  \E g : Iteration(g, lo, n, V, a, step)
  <1> DEFINE Good(g, m) == /\ g \in [lo..m -> V] /\ g[lo] = a
                           /\ \A i \in lo..m : i # lo => g[i] = step[i][g[i - 1]]
             T == {m \in lo..n : \E g : Good(g, m)}
  <1> USE DEF Steps
  <1>1. lo \in T
    <2> DEFINE g == [i \in lo..lo |-> a]
    <2>1. lo..lo = {lo}
      OBVIOUS
    <2>2. Good(g, lo)
      BY <2>1
    <2>3. lo \in lo..n
      OBVIOUS
    <2> HIDE DEF Good, g
    <2> QED
      BY <2>2, <2>3
  <1>2. ASSUME NEW m \in lo..n, m # lo, m - 1 \in T PROVE m \in T
    <2>1. PICK g : Good(g, m - 1)
      BY <1>2
    <2> DEFINE h == [i \in lo..m |-> IF i = m THEN step[m][g[m - 1]] ELSE g[i]]
    <2>2. m - 1 \in lo..(m - 1) /\ m \in Int /\ lo \in lo..(m - 1) /\ lo # m
      BY <1>2
    <2>3. step[m][g[m - 1]] \in V
      BY <2>1, <2>2
    <2>4. \A i \in lo..m : i # m => i \in lo..(m - 1)
      BY <2>2
    <2>5. h \in [lo..m -> V]
      BY <2>1, <2>3, <2>4
    <2>6. h[lo] = a
      BY <2>1, <2>2
    <2>7. ASSUME NEW i \in lo..m, i # lo PROVE h[i] = step[i][h[i - 1]]
      <3>1. i \in lo..m /\ i - 1 \in lo..m /\ i - 1 # m
        BY <2>2, <2>7
      <3>2. h[i - 1] = g[i - 1]
        BY <3>1
      <3>3. CASE i = m
        BY <3>1, <3>2, <3>3
      <3>4. CASE i # m
        <4>1. i \in lo..(m - 1)
          BY <2>2, <3>4
        <4> QED
          BY <2>1, <2>7, <3>1, <3>2, <3>4, <4>1
      <3> QED
        BY <3>3, <3>4
    <2>8. Good(h, m)
      BY Zenon, <2>5, <2>6, <2>7
    <2> HIDE DEF Good, h
    <2> QED
      BY <2>2, <2>8
  <1>3. n \in lo..n
    OBVIOUS
  <1> HIDE DEF T
  <1>4. n \in T
    BY Zenon, <1>1, <1>2, <1>3, Induct
  <1> USE DEF T
  <1>5. PICK g : Good(g, n)
    BY <1>4
  <1> QED
    BY <1>5 DEF Iteration

\* The sum of the numbers of f at a set of places: it does not depend on the
\* order in which they are added.
Adds(S, f, n) ==
    /\ S \in [SUBSET (1..n) -> Int] /\ S[{}] = 0
    /\ \A A \in SUBSET (1..n) : \A i \in (1..n) \ A : S[A \cup {i}] = S[A] + f[i]
LEMMA AddsExists ==
    ASSUME NEW n \in Nat, NEW f, \A i \in 1..n : f[i] \in Int
    PROVE  \E S : Adds(S, f, n)
  <1> DEFINE T == {m \in 0..n : \E S : Adds(S, f, m)}
  <1>1. 0 \in T
    <2> DEFINE S == [A \in SUBSET (1..0) |-> 0]
    <2>1. 1..0 = {}
      OBVIOUS
    <2>2. Adds(S, f, 0)
      BY <2>1 DEF Adds
    <2> QED
      BY <2>2
  <1>2. ASSUME NEW m \in 0..n, m # 0, m - 1 \in T PROVE m \in T
    <2>1. PICK S : Adds(S, f, m - 1)
      BY <1>2
    <2> DEFINE P == 1..(m - 1)
               N == [A \in SUBSET (1..m) |-> IF m \in A THEN S[A \ {m}] + f[m] ELSE S[A]]
    <2>2. m \in 1..n /\ 1..m = P \cup {m} /\ m \notin P
      BY <1>2
    <2>3. \A A \in SUBSET (1..m) : /\ A \ {m} \in SUBSET P
                                   /\ m \notin A => A \in SUBSET P
      BY <2>2
    <2>4. S \in [SUBSET P -> Int] /\ S[{}] = 0 /\ f[m] \in Int
      BY <2>1, <2>2 DEF Adds
    <2>5. \A A \in SUBSET P : \A i \in P \ A : S[A \cup {i}] = S[A] + f[i] /\ S[A] \in Int
      BY Zenon, <2>1 DEF Adds
    <2> HIDE DEF P
    <2>6. N \in [SUBSET (1..m) -> Int] /\ N[{}] = 0
      <3>1. ASSUME NEW A \in SUBSET (1..m)
            PROVE  (IF m \in A THEN S[A \ {m}] + f[m] ELSE S[A]) \in Int
        <4>1. S[A \ {m}] \in Int /\ (m \notin A => S[A] \in Int)
          BY Zenon, <2>3, <2>4
        <4> QED
          BY <2>4, <4>1
      <3>2. {} \in SUBSET (1..m) /\ m \notin {}
        OBVIOUS
      <3> QED
        BY <2>4, <3>1, <3>2
    <2>7. ASSUME NEW A \in SUBSET (1..m), NEW i \in (1..m) \ A
          PROVE  N[A \cup {i}] = N[A] + f[i]
      <3>1. CASE i = m
        <4>1. (A \cup {i}) \ {m} = A /\ m \notin A /\ A \cup {i} \in SUBSET (1..m)
          BY <3>1
        <4> QED
          BY <3>1, <4>1
      <3>2. CASE i # m /\ m \in A
        <4> DEFINE B == A \ {m}
        <4>1. /\ (A \cup {i}) \ {m} = B \cup {i} /\ m \in A \cup {i} /\ A \cup {i} \in SUBSET (1..m)
              /\ B \in SUBSET P /\ i \in P \ B
          BY <2>2, <2>3, <3>2
        <4>2. S[B \cup {i}] = S[B] + f[i] /\ S[B] \in Int
          BY <2>5, <4>1
        <4>3. N[A \cup {i}] = (S[B] + f[i]) + f[m] /\ N[A] = S[B] + f[m]
          BY <3>2, <4>1, <4>2
        <4>4. f[i] \in Int /\ f[m] \in Int
          BY <2>2
        <4> QED
          BY ONLY <4>2, <4>3, <4>4
      <3>3. CASE i # m /\ m \notin A
        <4>1. m \notin A \cup {i} /\ A \cup {i} \in SUBSET (1..m) /\ A \in SUBSET P /\ i \in P \ A
          BY <2>2, <2>3, <3>3
        <4> QED
          BY <2>5, <3>3, <4>1
      <3> QED
        BY <3>1, <3>2, <3>3
    <2> HIDE DEF N
    <2>8. Adds(N, f, m)
      BY <2>6, <2>7 DEF Adds
    <2> QED
      BY <2>2, <2>8
  <1>3. n \in 0..n /\ n \in Int /\ 0 \in Int
    OBVIOUS
  <1> HIDE DEF T
  <1>4. n \in T
    BY Zenon, <1>1, <1>2, <1>3, Induct
  <1> USE DEF T
  <1> QED
    BY <1>4

\* Total is the last of the running totals.
RunningTotal(t, f, n) ==
    t \in [0..n -> Int] /\ t[0] = 0 /\ \A i \in 1..n : t[i] = t[i - 1] + f[i]
LEMMA TotalIs ==
    ASSUME NEW f, NEW n \in Nat, Len(f) = n, \A i \in 1..n : f[i] \in Int
    PROVE  \E t : RunningTotal(t, f, n) /\ Total(f) = t[n]
  <1> DEFINE step == [i \in 0..n |-> [x \in Int |-> IF i = 0 THEN 0 ELSE x + f[i]]]
             Eq(t) == t = [i \in 0..n |-> IF i = 0 THEN 0 ELSE t[i - 1] + f[i]]
             upTo == CHOOSE t : Eq(t)
  <1>1. /\ \A i \in 0..n : i # 0 => i \in 1..n
        /\ \A i \in 1..n : i \in 0..n /\ i - 1 \in 0..n /\ i # 0
        /\ 0 \in 0..n /\ n \in 0..n /\ n \in Int /\ 0 \in Int /\ 0 <= n
    OBVIOUS
  <1>2. PICK g : Iteration(g, 0, n, Int, 0, step)
    <2>1. Steps(step, 0, n, Int)
      BY <1>1 DEF Steps
    <2> HIDE DEF step
    <2> QED
      BY ONLY <1>1, <2>1, Iterates
  <1>3. g \in [0..n -> Int] /\ g[0] = 0 /\ \A i \in 1..n : g[i] = g[i - 1] + f[i]
    BY Zenon, <1>1, <1>2 DEF Iteration
  <1>4. Eq(g)
    BY <1>1, <1>3
  <1>5. Eq(upTo)
    BY ONLY <1>4
  <1>6. upTo[0] = 0 /\ \A i \in 1..n : upTo[i] = upTo[i - 1] + f[i]
    <2> HIDE DEF upTo
    <2> QED
      BY ONLY <1>1, <1>5
  <1> HIDE DEF upTo
  <1>7. \A i \in 0..n : upTo[i] = g[i]
    <2> DEFINE T == {i \in 0..n : upTo[i] = g[i]}
    <2>1. 0 \in T
      BY <1>1, <1>3, <1>6
    <2>2. \A i \in 0..n : i # 0 /\ i - 1 \in T => i \in T
      BY <1>1, <1>3, <1>6
    <2> HIDE DEF T
    <2>3. 0..n \subseteq T
      BY Zenon, <1>1, <2>1, <2>2, Induct
    <2> QED
      BY <2>3 DEF T
  <1>8. Total(f) = upTo[n]
    BY DEF Total, upTo
  <1> QED
    BY Zenon, <1>1, <1>3, <1>7, <1>8 DEF RunningTotal

\* In every order the running total ends at the same sum.
Reorders(g, f, p, n) ==
    p \in Bijection(1..n, 1..n) /\ g = [i \in 1..n |-> f[p[i]]]
LEMMA TotalOfOrder ==
    ASSUME NEW f, NEW n \in Nat, NEW S, Adds(S, f, n), NEW p, NEW g, Reorders(g, f, p, n),
           NEW t, RunningTotal(t, g, n)
    PROVE  t[n] = S[1..n]
  <1> DEFINE Image(i) == {p[j] : j \in 1..i}
             T == {i \in 0..n : t[i] = S[Image(i)]}
  <1>1. /\ p \in [1..n -> 1..n] /\ \A i \in 1..n : \E j \in 1..n : p[j] = i
        /\ \A i, j \in 1..n : p[i] = p[j] => i = j
        /\ \A i \in 1..n : g[i] = f[p[i]]
    BY DEF Reorders, Bijection, Injection, Surjection, IsInjective
  <1>2. 0 \in T
    <2>1. Image(0) = {} /\ 0 \in 0..n
      OBVIOUS
    <2> QED
      BY Zenon, <2>1 DEF RunningTotal, Adds
  <1>3. ASSUME NEW i \in 0..n, i # 0, i - 1 \in T PROVE i \in T
    <2>1. i \in 1..n /\ 1..i = (1..(i - 1)) \cup {i} /\ i \notin 1..(i - 1) /\ 1..(i - 1) \subseteq 1..n
      BY <1>3
    <2>2. Image(i) = Image(i - 1) \cup {p[i]}
      BY <2>1
    <2>3. Image(i - 1) \in SUBSET (1..n)
      BY <1>1, <2>1
    <2>4. p[i] \in (1..n) \ Image(i - 1)
      BY <1>1, <2>1
    <2> HIDE DEF Image
    <2>5. S[Image(i)] = S[Image(i - 1)] + f[p[i]]
      <3>1. \A A \in SUBSET (1..n) : \A j \in (1..n) \ A : S[A \cup {j}] = S[A] + f[j]
        BY Zenon DEF Adds
      <3>2. S[Image(i - 1) \cup {p[i]}] = S[Image(i - 1)] + f[p[i]]
        BY ONLY <2>3, <2>4, <3>1
      <3> QED
        BY ONLY <2>2, <3>2
    <2>6. t[i] = t[i - 1] + f[p[i]]
      BY <1>1, <2>1 DEF RunningTotal
    <2> QED
      BY <1>3, <2>5, <2>6
  <1>4. n \in T
    <2>1. n \in 0..n /\ n \in Int /\ 0 \in Int
      OBVIOUS
    <2> HIDE DEF T
    <2> QED
      BY <1>2, <1>3, <2>1, Induct
  <1>5. Image(n) = 1..n
    BY <1>1
  <1> QED
    BY Zenon, <1>4, <1>5

\* So an order of a list has the list's total.
LEMMA OrderTotal ==
    ASSUME NEW n \in Nat, NEW f \in [1..n -> Int], NEW p \in Bijection(1..n, 1..n)
    PROVE  /\ Total(f) \in Int
           /\ \E t : RunningTotal(t, [i \in 1..n |-> f[p[i]]], n) /\ t[n] = Total(f)
  <1> DEFINE g == [i \in 1..n |-> f[p[i]]]
             id == [i \in 1..n |-> i]
  <1>1. p \in [1..n -> 1..n] /\ id \in Bijection(1..n, 1..n)
    BY DEF Bijection, Injection, Surjection, IsInjective
  <1>2. g \in [1..n -> Int]
    BY <1>1
  <1>3. \A h \in [1..n -> Int] : h \in Seq(Int) /\ Len(h) = n
    OBVIOUS
  <1>4. PICK S : Adds(S, f, n)
    BY AddsExists
  <1>5. PICK u : RunningTotal(u, f, n) /\ Total(f) = u[n]
    BY <1>3, TotalIs
  <1>6. Reorders(f, f, id, n) /\ Reorders(g, f, p, n)
    BY <1>1 DEF Reorders
  <1> HIDE DEF g, id
  <1>7. PICK t : RunningTotal(t, g, n)
    BY <1>2, <1>3, TotalIs
  <1>8. u[n] = S[1..n]
    BY <1>4, <1>5, <1>6, TotalOfOrder
  <1>9. t[n] = S[1..n]
    BY <1>4, <1>6, <1>7, TotalOfOrder
  <1>10. Total(f) \in Int
    BY <1>5 DEF RunningTotal
  <1> QED
    BY Zenon, <1>5, <1>7, <1>8, <1>9, <1>10 DEF g

-----------------------------------------------------------------------------

-----------------------------------------------------------------------------
(* Floats.                                                                  *)

\* Money computes with these floats.
LEMMA SameFloats ==
    /\ \A num, den : M!Float(num, den) = Float(num, den)
    /\ \A x : M!ToFloat(x) = ToFloat(x)
    /\ \A x : M!Round(x) = Round(x)
  <1>4. \A x, u : M!RoundEven(x, u) = RoundEven(x, u) /\ M!Magnitude(x) = Magnitude(x)
    BY DEF M!RoundEven, RoundEven, M!Magnitude, Magnitude
  <1>5. \A num, den : M!Ulp(num, den) = Ulp(num, den)
    BY Zenon DEF M!Ulp, Ulp, M!Magnitude, Magnitude
  <1>6. \A num, den : M!Float(num, den) = Float(num, den)
    <2> TAKE num, den
    <2>1. M!RoundEven(M!Magnitude(num), den * M!Ulp(num, den))
            = RoundEven(Magnitude(num), den * Ulp(num, den))
      BY Zenon, <1>4, <1>5
    <2> QED
      BY Zenon, <2>1 DEF M!Float, Float
  <1>7. \A x : M!ToFloat(x) = ToFloat(x)
    <2> TAKE x
    <2>1. M!Magnitude(x) = Magnitude(x) /\ M!Float(x * Scale, 1) = Float(x * Scale, 1)
      BY Zenon, <1>4, <1>6
    <2> QED
      BY ONLY Zenon, <2>1 DEF M!ToFloat, ToFloat
  <1>8. \A x : M!Round(x) = Round(x)
    BY Zenon DEF M!Round, Round
  <1> QED
    BY <1>6, <1>7, <1>8

\* The gap between the floats around a number is the smallest that fits.
LEMMA UlpIs ==
    ASSUME NEW num \in Nat, NEW den \in Nat \ {0}, num <= Precision * den * Scale
    PROVE  \E u \in Nat \ {0} :
             /\ Ulp(num, den) = u
             /\ u = 1 \/ \E v \in Nat : u = 2 * v /\ Precision * den * v < num
  <1> DEFINE Fits(u) == num <= Precision * den * u
             R == OpToRel(<, Nat)
             U == {u \in Ulps : Fits(u)}
  <1>0. Ulps \subseteq Nat \ {0} /\ Scale \in Ulps
    BY FloatAssumption
  <1>1. U \subseteq Nat /\ Scale \in U
    BY Zenon, <1>0
  <1>2. \A x, y \in Nat : <<y, x>> \in R <=> y < x
    BY DEF OpToRel
  <1>3. PICK m \in U : \A y \in U : ~ (<<y, m>> \in R)
    <2> HIDE DEF R, U
    <2>1. IsWellFoundedOn(R, Nat)
      BY Zenon, NatLessThanWellFounded DEF R
    <2>2. U # {}
      BY <1>1
    <2> QED
      BY Zenon, <1>1, <2>1, <2>2, WFMin
  <1>4. m \in Ulps /\ Fits(m) /\ \A v \in Ulps : v < m => ~Fits(v)
    BY Zenon, <1>0, <1>1, <1>2, <1>3
  <1>5. Magnitude(num) = num
    BY DEF Magnitude
  <1>6. Ulp(num, den) = CHOOSE u \in Ulps : Fits(u) /\ \A v \in Ulps : v < u => ~Fits(v)
    BY Zenon, <1>5 DEF Ulp
  <1> DEFINE u == Ulp(num, den)
  <1>7. u \in Ulps /\ Fits(u) /\ \A v \in Ulps : v < u => ~Fits(v)
    <2> HIDE DEF Fits
    <2> QED
      BY Zenon, <1>4, <1>6
  <1> HIDE DEF u
  <1>8. u = 1 \/ \E v \in Nat : u = 2 * v /\ Precision * den * v < num
    <2> SUFFICES ASSUME u # 1 PROVE \E v \in Nat : u = 2 * v /\ Precision * den * v < num
      OBVIOUS
    <2>1. PICK v \in Ulps : u = 2 * v
      BY <1>7, FloatAssumption
    <2>2. v \in Nat \ {0} /\ v < u
      BY <1>0, <2>1
    <2>3. ~Fits(v)
      BY <1>7, <2>2
    <2>4. Precision * den * v \in Int
      BY <2>2, IntAssumption
    <2>5. Precision * den * v < num
      BY <2>3, <2>4
    <2> QED
      BY <2>1, <2>2, <2>5
  <1> QED
    BY <1>0, <1>7, <1>8 DEF u

\* RoundEven picks a multiple at most half a unit away.
LEMMA NearMultiple ==
    ASSUME NEW x \in Nat, NEW w \in Nat \ {0}
    PROVE  \E k \in Nat : /\ RoundEven(x, w) = k * w
                          /\ 2 * (x - k * w) <= w /\ 2 * (k * w - x) <= w
  <1> DEFINE q == x \div w
             r == x % w
  <1>1. q \in Nat /\ r \in 0..(w - 1) /\ x = w * q + r
    OBVIOUS
  <1> HIDE DEF q, r
  <1>2. x - r = q * w /\ (q + 1) * w = q * w + w
    BY <1>1
  <1>3. \/ RoundEven(x, w) = q * w /\ 2 * r <= w
        \/ RoundEven(x, w) = q * w + w /\ 2 * r >= w
    <2>1. RoundEven(x, w) = IF 2 * (x - (q * w)) < w
                               \/ (2 * (x - (q * w)) = w /\ ((q * w) \div w) % 2 = 0)
                            THEN q * w ELSE q * w + w
      BY <1>2 DEF RoundEven, r
    <2>2. x - q * w = r /\ q * w \in Nat
      BY <1>1
    <2> QED
      BY <1>1, <2>1, <2>2
  <1>4. q * w \in Nat /\ q + 1 \in Nat /\ x = q * w + r
    BY <1>1
  <1>5. CASE RoundEven(x, w) = q * w /\ 2 * r <= w
    <2>1. 2 * (x - q * w) <= w /\ 2 * (q * w - x) <= w
      BY <1>1, <1>4, <1>5
    <2> QED
      BY <1>1, <1>5, <2>1
  <1>6. CASE RoundEven(x, w) = q * w + w /\ 2 * r >= w
    <2>1. 2 * (x - (q + 1) * w) <= w /\ 2 * ((q + 1) * w - x) <= w
      BY <1>1, <1>2, <1>4, <1>6
    <2> QED
      BY <1>2, <1>4, <1>6, <2>1
  <1> QED
    BY <1>3, <1>5, <1>6

\* A float is off its number by one part in Precision at most, unless the
\* number is so small that the quantum cuts its digits.
LEMMA FloatError ==
    ASSUME NEW num \in Nat, NEW den \in Nat \ {0},
           num <= Precision * den * Scale, Precision * den <= 2 * num
    PROVE  \E b \in Nat : /\ Float(num, den) = b
                          /\ Precision * (den * b) <= Precision * num + num
                          /\ Precision * num <= Precision * (den * b) + num
  <1> DEFINE P == Precision
  <1>0. P \in Nat \ {0}
    BY IntAssumption
  <1> HIDE DEF P
  <1>1. PICK u \in Nat \ {0} :
           /\ Ulp(num, den) = u
           /\ u = 1 \/ \E v \in Nat : u = 2 * v /\ P * den * v < num
    BY UlpIs DEF P
  <1>2. den * u \in Nat \ {0}
    BY <1>1
  <1>3. PICK k \in Nat : /\ RoundEven(num, den * u) = k * (den * u)
                         /\ 2 * (num - k * (den * u)) <= den * u
                         /\ 2 * (k * (den * u) - num) <= den * u
    BY <1>2, NearMultiple
  <1> DEFINE b == k * u
  <1>4. b \in Nat /\ k * (den * u) = den * b
    BY <1>1
  <1>5. (den * b) \div den = b
    <2> HIDE DEF b
    <2> QED
      BY <1>4
  <1>6. Float(num, den) = b
    <2>1. Magnitude(num) = num /\ ~(num < 0)
      BY DEF Magnitude
    <2> QED
      BY ONLY Zenon, <1>1, <1>3, <1>4, <1>5, <2>1 DEF Float
  <1> HIDE DEF b
  <1> DEFINE d == den * b
  <1>7. d \in Nat /\ 2 * (num - d) <= den * u /\ 2 * (d - num) <= den * u
    BY <1>3, <1>4
  <1> HIDE DEF d
  <1>8. P * (den * u) <= 2 * num
    <2>1. CASE u = 1
      BY <2>1 DEF P
    <2>2. ASSUME NEW v \in Nat, u = 2 * v, P * den * v < num PROVE P * (den * u) <= 2 * num
      <3>1. P * (den * u) = 2 * (P * den * v) /\ P * den * v \in Nat
        BY <1>0, <2>2
      <3> QED
        BY <2>2, <3>1
    <2> QED
      BY <1>1, <2>1, <2>2
  <1>9. \A e \in Int : 2 * e <= den * u => P * e <= num
    <2> TAKE e \in Int
    <2> HAVE 2 * e <= den * u
    <2>1. P * (2 * e) <= P * (den * u)
      BY <1>0, <1>2
    <2>2. P * (2 * e) = 2 * (P * e) /\ P * e \in Int /\ P * (den * u) \in Int
      BY <1>0, <1>2
    <2> QED
      BY <1>8, <2>1, <2>2
  <1>10. P * (num - d) <= num /\ P * (d - num) <= num
    BY <1>7, <1>9
  <1>11. P * (num - d) = P * num - P * d /\ P * (d - num) = P * d - P * num
         /\ P * num \in Int /\ P * d \in Int
    BY <1>0, <1>7
  <1>12. P * d <= P * num + num /\ P * num <= P * d + num
    BY <1>10, <1>11
  <1> QED
    BY <1>4, <1>6, <1>12 DEF P, d

\* Small numbers: nothing is nearest to nothing.
LEMMA FloatOfZero ==
    ASSUME NEW den \in Nat \ {0} PROVE Float(0, den) = 0
  <1>0. 0 <= Precision * den * Scale
    <2>1. Precision \in Nat /\ Scale \in Nat
      BY IntAssumption, FloatAssumption
    <2> QED
      BY <2>1
  <1>1. PICK u \in Nat \ {0} : Ulp(0, den) = u
    BY <1>0, UlpIs
  <1>2. den * u \in Nat \ {0}
    OBVIOUS
  <1>3. PICK k \in Nat : RoundEven(0, den * u) = k * (den * u) /\ 2 * (k * (den * u) - 0) <= den * u
    BY <1>2, NearMultiple
  <1>4. k = 0
    <2> SUFFICES ASSUME k >= 1 PROVE FALSE
      OBVIOUS
    <2>1. k * (den * u) >= den * u
      BY <1>2
    <2> QED
      BY <1>2, <1>3, <2>1
  <1>5. RoundEven(0, den * u) = 0
    BY <1>2, <1>3, <1>4
  <1> QED
    BY <1>1, <1>5 DEF Float, Magnitude

\* Both roundings together move the amount by less than half a cent.
LEMMA TwoRoundings ==
    ASSUME NEW c \in Nat \ {0}, 4 * c < Precision
    PROVE  \E a, b \in Nat : /\ Float(c * Scale, 100) = a /\ Float(a * 100, 1) = b
                             /\ 2 * b < 2 * (c * Scale) + Scale
                             /\ 2 * (c * Scale) < 2 * b + Scale
  <1> DEFINE P == Precision
             S == Scale
             n == c * S
  <1>0. P \in Nat \ {0} /\ S \in Nat \ {0} /\ 50 * P <= S /\ 4 * c + 1 <= P
    BY IntAssumption, FloatAssumption
  <1> HIDE DEF P, S
  <1>1. n \in Nat /\ S <= n /\ 4 * n + S <= P * S
    <2>1. S <= n
      BY <1>0
    <2>2. (4 * c + 1) * S <= P * S
      BY <1>0
    <2>3. (4 * c + 1) * S = 4 * n + S
      BY <1>0
    <2> QED
      BY <1>0, <2>1, <2>2, <2>3
  <1> HIDE DEF n
  <1>2. P * S \in Nat /\ P * 100 * S = 100 * (P * S) /\ P * 1 * S = P * S
    BY <1>0
  <1>3. n <= P * 100 * S /\ P * 100 <= 2 * n
    BY <1>0, <1>1, <1>2
  <1>4. PICK a \in Nat : /\ Float(n, 100) = a
                         /\ P * (100 * a) <= P * n + n /\ P * n <= P * (100 * a) + n
    BY <1>1, <1>3, FloatError DEF P, S
  <1> DEFINE h == a * 100
  <1>5. h \in Nat /\ h = 100 * a
    OBVIOUS
  <1> HIDE DEF h
  <1>6. P * h <= P * n + n /\ P * n <= P * h + n /\ P * h \in Nat /\ P * n \in Nat
    BY <1>0, <1>1, <1>4, <1>5
  <1>7. h <= 2 * n
    <2> SUFFICES ASSUME h >= 2 * n + 1 PROVE FALSE
      BY <1>1, <1>5
    <2>1. P * (2 * n + 1) <= P * h
      BY <1>0, <1>1, <1>5
    <2>2. P * (2 * n + 1) = 2 * (P * n) + P
      BY <1>0, <1>1
    <2>3. n <= P * n
      BY <1>0, <1>1
    <2> QED
      BY <1>0, <1>1, <1>6, <2>1, <2>2, <2>3
  <1>8. 2 * h >= n
    <2> SUFFICES ASSUME 2 * h + 1 <= n PROVE FALSE
      BY <1>1, <1>5
    <2>1. P * (2 * h + 1) <= P * n
      BY <1>0, <1>1, <1>5
    <2>2. P * (2 * h + 1) = 2 * (P * h) + P
      BY <1>0, <1>5
    <2>3. 2 * n <= P * n
      <3>1. 2 <= P
        BY <1>0
      <3> QED
        BY <1>0, <1>1, <3>1
    <2> QED
      BY <1>0, <1>1, <1>6, <2>1, <2>2, <2>3
  <1>9. h <= P * 1 * S /\ P * 1 <= 2 * h
    BY <1>0, <1>1, <1>2, <1>5, <1>7, <1>8
  <1>10. PICK b \in Nat : /\ Float(h, 1) = b
                          /\ P * b <= P * h + h /\ P * h <= P * b + h
    <2>1. PICK b \in Nat : /\ Float(h, 1) = b
                           /\ P * (1 * b) <= P * h + h /\ P * h <= P * (1 * b) + h
      BY <1>5, <1>9, FloatError DEF P, S
    <2> QED
      BY <2>1
  <1> DEFINE e == IF b >= n THEN b - n ELSE n - b
  <1>11. e \in Nat /\ P * e <= n + h
    <2>1. P * (b - n) = P * b - P * n /\ P * (n - b) = P * n - P * b /\ P * b \in Nat
      BY <1>0, <1>1, <1>10
    <2> QED
      BY <1>1, <1>5, <1>6, <1>10, <2>1
  <1> HIDE DEF e
  <1>12. P * (P * e) <= 2 * (P * n) + n
    <2>1. P * (P * e) <= P * (n + h)
      BY <1>0, <1>1, <1>5, <1>11
    <2>2. P * (n + h) = P * n + P * h
      BY <1>0, <1>1, <1>5
    <2>3. P * (P * e) \in Nat
      BY <1>0, <1>11
    <2> QED
      BY <1>1, <1>6, <2>1, <2>2, <2>3
  <1>13. 2 * e < S
    <2> SUFFICES ASSUME S <= 2 * e PROVE FALSE
      BY <1>0, <1>11
    <2>1. P * (P * S) <= 2 * (P * (P * e))
      <3>1. P * S <= P * (2 * e)
        BY <1>0, <1>11
      <3>2. P * (P * S) <= P * (P * (2 * e))
        BY <1>0, <1>11, <3>1
      <3>3. P * (P * (2 * e)) = 2 * (P * (P * e))
        BY <1>0, <1>11
      <3> QED
        BY <3>2, <3>3
    <2>2. P * (4 * n + S) <= P * (P * S)
      BY <1>0, <1>1, <1>2
    <2>3. P * (4 * n + S) = 4 * (P * n) + P * S
      BY <1>0, <1>1
    <2>4. 2 * (P * (P * e)) <= 4 * (P * n) + 2 * n
      <3>1. P * (P * e) \in Nat
        BY <1>0, <1>11
      <3> QED
        BY <1>1, <1>6, <1>12, <3>1
    <2>5. P * S <= 2 * n
      <3>1. P * (P * S) \in Nat /\ P * (P * e) \in Nat
        BY <1>0, <1>11
      <3> QED
        BY <1>1, <1>2, <1>6, <2>1, <2>2, <2>3, <2>4, <3>1
    <2> QED
      BY <1>0, <1>1, <1>2, <2>5
  <1>14. 2 * b < 2 * n + S /\ 2 * n < 2 * b + S
    BY <1>0, <1>1, <1>10, <1>13 DEF e
  <1> QED
    BY <1>4, <1>10, <1>14 DEF n, h, S

\* Signs do not matter.
LEMMA FloatIsOdd ==
    ASSUME NEW num \in Nat, NEW den \in Nat \ {0}
    PROVE  Float(-num, den) = -Float(num, den)
  <1>1. CASE num = 0
    BY <1>1, FloatOfZero
  <1>2. CASE num # 0
    <2>1. Magnitude(-num) = num /\ Magnitude(num) = num /\ -num < 0 /\ ~(num < 0)
      BY <1>2 DEF Magnitude
    <2>2. Ulp(-num, den) = Ulp(num, den)
      BY Zenon, <2>1 DEF Ulp
    <2> QED
      BY ONLY Zenon, <2>1, <2>2 DEF Float
  <1> QED
    BY <1>1, <1>2

\* math.Round finds the whole number less than a half away.
LEMMA RoundIs ==
    ASSUME NEW b \in Nat, NEW c \in Nat \ {0},
           2 * b < 2 * (c * Scale) + Scale, 2 * (c * Scale) < 2 * b + Scale
    PROVE  Round(b) = c /\ Round(-b) = -c
  <1> DEFINE S == Scale
             n == c * S
             x == 2 * b + S
  <1>0. S \in Nat \ {0}
    BY FloatAssumption
  <1> HIDE DEF S
  <1>1. n \in Nat /\ S <= n
    BY <1>0
  <1>2. c * (2 * S) = 2 * n /\ 2 * S \in Nat \ {0}
    BY <1>0
  <1>3. 2 * b < 2 * n + S /\ 2 * n < 2 * b + S
    BY DEF S
  <1> HIDE DEF n
  <1>4. b > 0 /\ x \in Nat /\ c * (2 * S) <= x /\ x < c * (2 * S) + 2 * S
    BY <1>0, <1>1, <1>2, <1>3
  <1> HIDE DEF x
  <1>5. x \div (2 * S) = c
    <2> DEFINE w == 2 * S
    <2>1. w \in Nat \ {0} /\ c * w <= x /\ x < c * w + w
      BY <1>2, <1>4
    <2> HIDE DEF w
    <2>2. PICK q \in Nat, r \in 0..(w - 1) : x \div w = q /\ x = w * q + r
      BY <1>4, <2>1
    <2>3. ~(q >= c + 1)
      <3> SUFFICES ASSUME q >= c + 1 PROVE FALSE
        OBVIOUS
      <3>1. w * q >= w * (c + 1)
        BY <2>1
      <3>2. w * (c + 1) = c * w + w /\ c * w \in Nat /\ w * q \in Nat
        BY <2>1
      <3> QED
        BY <1>4, <2>1, <2>2, <3>1, <3>2
    <2>4. ~(q + 1 <= c)
      <3> SUFFICES ASSUME q + 1 <= c PROVE FALSE
        OBVIOUS
      <3>1. w * (q + 1) <= w * c
        BY <2>1
      <3>2. w * (q + 1) = w * q + w /\ w * c = c * w /\ c * w \in Nat /\ w * q \in Nat
        BY <2>1
      <3> QED
        BY <1>4, <2>1, <2>2, <3>1, <3>2
    <2> QED
      BY <2>2, <2>3, <2>4 DEF w
  <1>6. b >= 0 /\ ~(-b >= 0) /\ -(-b) = b
    BY <1>4
  <1> QED
    BY <1>5, <1>6, Zenon DEF Round, x, S

\* Hence the cents come back, of a debt as of a credit.
LEMMA CentsReturn ==
    ASSUME NEW c \in Int, 4 * Magnitude(c) < Precision
    PROVE  Round(Float(Float(ToFloat(c), 100) * 100, 1)) = c
  <1>0. Scale \in Nat \ {0} /\ Precision \in Nat \ {0}
    BY IntAssumption, FloatAssumption
  <1>1. ToFloat(c) = c * Scale
    <2>1. Magnitude(c) <= Precision
      BY <1>0 DEF Magnitude
    <2> QED
      BY Zenon, <2>1 DEF ToFloat
  <1>2. CASE c = 0
    <2>1. c * Scale = 0 /\ 0 * 100 = 0
      BY <1>0, <1>2
    <2>2. Float(0, 100) = 0 /\ Float(0, 1) = 0
      BY FloatOfZero
    <2>3. Round(0) = 0
      BY <1>0 DEF Round
    <2> QED
      BY ONLY <1>1, <1>2, <2>1, <2>2, <2>3
  <1>3. CASE c > 0
    <2>1. c \in Nat \ {0} /\ 4 * c < Precision
      BY <1>3 DEF Magnitude
    <2>2. PICK a, b \in Nat : /\ Float(c * Scale, 100) = a /\ Float(a * 100, 1) = b
                              /\ 2 * b < 2 * (c * Scale) + Scale
                              /\ 2 * (c * Scale) < 2 * b + Scale
      BY <2>1, TwoRoundings
    <2> QED
      BY ONLY <1>1, <2>1, <2>2, RoundIs
  <1>4. CASE c < 0
    <2> DEFINE d == -c
    <2>1. d \in Nat \ {0} /\ 4 * d < Precision /\ c = -d
      BY <1>4 DEF Magnitude
    <2> HIDE DEF d
    <2>2. PICK a, b \in Nat : /\ Float(d * Scale, 100) = a /\ Float(a * 100, 1) = b
                              /\ 2 * b < 2 * (d * Scale) + Scale
                              /\ 2 * (d * Scale) < 2 * b + Scale
      BY <2>1, TwoRoundings
    <2>3. d * Scale \in Nat /\ c * Scale = -(d * Scale)
      BY <1>0, <2>1
    <2>4. Float(c * Scale, 100) = -a
      BY <2>2, <2>3, FloatIsOdd
    <2>5. a * 100 \in Nat /\ (-a) * 100 = -(a * 100)
      OBVIOUS
    <2>6. Float((-a) * 100, 1) = -b
      BY <2>2, <2>5, FloatIsOdd
    <2>7. Round(-b) = c
      BY ONLY <2>1, <2>2, RoundIs
    <2> QED
      BY ONLY <1>1, <2>4, <2>6, <2>7
  <1> QED
    BY <1>2, <1>3, <1>4

USE IntAssumption DEF MinInt, Modulus, Ints

-----------------------------------------------------------------------------
(* Arithmetic.                                                              *)

\* Money and Quantity compute with the same integers.
LEMMA SameIntegers ==
    /\ \A x : M!Wrap(x) = Wrap(x) /\ Q!Wrap(x) = Wrap(x)
    /\ \A x : Q!WrapProduct(x) = WrapProduct(x)
    /\ \A x : M!FromFloat(x) = FromFloat(x)
  <1> USE DEF M!MinInt, M!Modulus, M!Ints, Q!MinInt, Q!Modulus, Q!Ints
  <1>1. \A x : M!Wrap(x) = Wrap(x) /\ Q!Wrap(x) = Wrap(x)
    BY DEF M!Wrap, Q!Wrap, Wrap
  <1>2. \A x : Q!WrapProduct(x) = WrapProduct(x)
    BY DEF Q!WrapProduct, WrapProduct
  <1>3. \A x : M!FromFloat(x) = FromFloat(x)
    BY DEF M!FromFloat, FromFloat
  <1> QED
    BY <1>1, <1>2, <1>3

\* A sum or difference of two integers wraps into the range, by a multiple
\* of Modulus.
LEMMA WrapInRange ==
    ASSUME NEW a \in Ints, NEW b \in Ints
    PROVE  /\ Wrap(a + b) \in Ints /\ Wrap(a + b) - (a + b) \in {-Modulus, 0, Modulus}
           /\ Wrap(a - b) \in Ints /\ Wrap(a - b) - (a - b) \in {-Modulus, 0, Modulus}
  BY DEF Wrap

\* A product wraps into the range.
LEMMA WrapProductInRange ==
    ASSUME NEW x \in Int PROVE WrapProduct(x) \in Ints
  <1>1. Modulus \in Nat \ {0} /\ x - MinInt \in Int
    OBVIOUS
  <1> HIDE DEF Modulus
  <1>2. (x - MinInt) % Modulus \in 0..(Modulus - 1)
    BY <1>1
  <1> USE DEF Modulus
  <1>3. \A y \in 0..(Modulus - 1) : y + MinInt \in Ints
    OBVIOUS
  <1> QED
    BY <1>2, <1>3 DEF WrapProduct

\* x is what is left of y in the width of the integers.
Represents(x, y) == x \in Ints /\ \E q \in Int : x = y + q * Modulus

\* A number that fits is represented by itself alone.
LEMMA RepresentsExactly ==
    ASSUME NEW x, NEW y \in Ints, Represents(x, y)
    PROVE  x = y
  <1>1. PICK q \in Int : x = y + q * Modulus
    BY DEF Represents
  <1>2. x \in Ints /\ Modulus \in Nat /\ Modulus > 0
    BY DEF Represents
  <1>3. x - y < Modulus /\ x - y > -Modulus
    BY <1>2
  <1>4. \A e \in Int : e * Modulus < Modulus /\ e * Modulus > -Modulus => e = 0
    <2> HIDE DEF Modulus
    <2> SUFFICES ASSUME NEW e \in Int, e # 0
                 PROVE  e * Modulus >= Modulus \/ e * Modulus <= -Modulus
      BY <1>2
    <2>1. CASE e >= 1
      BY <1>2, <2>1
    <2>2. CASE e <= -1
      BY <1>2, <2>2
    <2> QED
      BY <2>1, <2>2
  <1>5. x \in Int /\ y \in Int
    BY <1>2
  <1> HIDE DEF Modulus, Ints, MinInt
  <1>6. q * Modulus = x - y
    BY <1>1, <1>2, <1>5
  <1>7. q = 0
    BY <1>3, <1>4, <1>6
  <1> QED
    BY <1>1, <1>2, <1>5, <1>7

\* Money.Add, and SumMoney, which is a chain of them: if the sum so far is
\* what the width leaves of the exact sum s, so it is after the next Add.
\* Hence an exact total that fits an int64 is returned, whatever the partial
\* sums before it did.
THEOREM PartialSumsMayWrap ==
    ASSUME NEW m, NEW other, m.currency = other.currency,
           NEW s \in Int, Represents(m.amount, s), other.amount \in Ints
    PROVE  /\ M!Add(m, other).ok
           /\ Represents(M!Add(m, other).value.amount, s + other.amount)
           /\ s + other.amount \in Ints =>
                  M!Add(m, other).value.amount = s + other.amount
  <1> DEFINE a == m.amount
             b == other.amount
             sum == Wrap(a + b)
  <1>1. M!Add(m, other).ok /\ M!Add(m, other).value.amount = sum
    BY SameIntegers DEF M!Add, M!Ok, M!Money
  <1>2. a \in Ints /\ b \in Ints
    BY DEF Represents
  <1>3. PICK q \in Int : a = s + q * Modulus
    BY DEF Represents
  <1>4. sum \in Ints /\ sum - (a + b) \in {-Modulus, 0, Modulus}
    BY Zenon, <1>2, WrapInRange
  <1>5. PICK d \in {-1, 0, 1} : sum = a + b + d * Modulus
    BY <1>2, <1>4
  <1> HIDE DEF a, b, sum
  <1>6. Modulus \in Nat /\ Modulus > 0 /\ b \in Int /\ q + d \in Int
    BY <1>2, <1>3, <1>5
  <1>7. sum = s + b + (q + d) * Modulus
    <2> HIDE DEF Modulus
    <2> QED
      BY <1>3, <1>5, <1>6
  <1>8. Represents(sum, s + b)
    BY <1>4, <1>6, <1>7 DEF Represents
  <1>9. s + b \in Ints => sum = s + b
    BY <1>8, RepresentsExactly
  <1> QED
    BY <1>1, <1>8, <1>9 DEF b

UnitOrNone == Units \cup {""}
Quantities == [value : Ints, unit : UnitOrNone]
Naturals0 == {q \in Quantities : q.value >= 0}

\* Quantity.Add "returns an error if ... the result would overflow": the test
\* newValue < q.value is exact for non-negative quantities.
THEOREM AddDetectsOverflow ==
    ASSUME NEW q \in Naturals0, NEW other \in Naturals0
    PROVE  /\ Q!Add(q, other).ok <=> ~Q!Clash(q, other) /\ q.value + other.value <= MaxInt
           /\ Q!Add(q, other).ok => Q!Add(q, other).value.value = q.value + other.value
  <1> DEFINE a == q.value
             b == other.value
  <1>1. a \in Ints /\ b \in Ints /\ a >= 0 /\ b >= 0
    BY DEF Naturals0, Quantities
  <1>2. Q!Add(q, other) = IF Q!Clash(q, other) \/ Wrap(a + b) < a THEN Q!Failed
                          ELSE Q!Ok(Q!Quantity(Wrap(a + b), Q!CommonUnit(q, other)))
    BY SameIntegers DEF Q!Add
  <1> HIDE DEF a, b
  <1>3. /\ Wrap(a + b) < a <=> a + b > MaxInt
        /\ a + b <= MaxInt => Wrap(a + b) = a + b
    BY <1>1 DEF Wrap
  <1>4. a + b > MaxInt <=> ~(a + b <= MaxInt)
    BY <1>1
  <1>5. \A v : Q!Ok(v).ok /\ Q!Ok(v).value = v /\ ~Q!Failed.ok
    BY DEF Q!Ok, Q!Failed
  <1>6. \A v, u : Q!Quantity(v, u).value = v
    BY DEF Q!Quantity
  <1> QED
    BY <1>2, <1>3, <1>4, <1>5, <1>6 DEF a, b

\* Stock that was added can be taken out again: after a successful Add,
\* CanSubtract holds and Subtract returns the value there was.
THEOREM SubtractUndoesAdd ==
    ASSUME NEW q \in Naturals0, NEW other \in Naturals0, Q!Add(q, other).ok
    PROVE  LET sum == Q!Add(q, other).value
               back == Q!Subtract(sum, other)
           IN  Q!CanSubtract(sum, other) /\ back.ok /\ back.value.value = q.value
  <1> DEFINE a == q.value
             b == other.value
             sum == Q!Add(q, other).value
  <1>1. a \in Ints /\ b \in Ints /\ a >= 0 /\ b >= 0
    BY DEF Naturals0, Quantities
  <1>2. sum.value = a + b /\ a + b <= MaxInt /\ ~Q!Clash(q, other)
    BY AddDetectsOverflow
  <1>3. sum.unit = Q!CommonUnit(q, other)
    BY <1>2 DEF Q!Add, Q!Ok, Q!Quantity, Q!Failed
  <1>4. ~Q!Clash(sum, other)
    BY Zenon, <1>2, <1>3 DEF Q!Clash, Q!CommonUnit
  <1> HIDE DEF sum
  <1>5. Wrap(a + b - b) = a /\ ~(b > a + b) /\ a + b >= b
    BY <1>1, <1>2 DEF Wrap
  <1>6. \A t : t = a + b => Wrap(t - b) = a
    BY <1>1, <1>2 DEF Wrap
  <1>7. Q!CanSubtract(sum, other)
    BY <1>2, <1>4, <1>5 DEF Q!CanSubtract
  <1>8. Q!Subtract(sum, other) = Q!Ok(Q!Quantity(Wrap(sum.value - b), Q!CommonUnit(sum, other)))
    BY <1>2, <1>4, <1>5, SameIntegers DEF Q!Subtract
  <1>9. Q!Subtract(sum, other).ok /\ Q!Subtract(sum, other).value.value = a
    <2>1. Wrap(sum.value - b) = a
      BY ONLY <1>2, <1>6 DEF sum, a, b
    <2> QED
      BY ONLY <1>8, <2>1 DEF Q!Ok, Q!Quantity, sum, a, b
  <1> QED
    BY <1>7, <1>9 DEF sum

\* MarshalJSON and UnmarshalJSON of a quantity: a plain number or an object,
\* it comes back with its value and its unit.
THEOREM QuantityJSONRoundTrip ==
    ASSUME NEW q \in Naturals0
    PROVE  Q!UnmarshalJSON(Q!MarshalJSON(q)) = [ok |-> TRUE, value |-> q]
  <1>1. q = [value |-> q.value, unit |-> q.unit] /\ ~(q.value < 0)
    <2>1. q \in Quantities /\ q.value >= 0
      BY DEF Naturals0
    <2>2. \A V, U : \A x \in [value : V, unit : U] : x = [value |-> x.value, unit |-> x.unit]
      OBVIOUS
    <2>3. q = [value |-> q.value, unit |-> q.unit]
      BY ONLY <2>1, <2>2 DEF Quantities
    <2>4. q.value \in Ints
      BY ONLY <2>1 DEF Quantities
    <2>5. \A v \in Ints : v >= 0 => ~(v < 0)
      OBVIOUS
    <2> QED
      BY ONLY <2>1, <2>3, <2>4, <2>5
  <1>2. CASE q.unit = ""
    <2>1. Q!MarshalJSON(q).number = TRUE /\ Q!MarshalJSON(q).value = q.value
      BY Zenon, <1>2 DEF Q!MarshalJSON
    <2> QED
      BY Zenon, <1>1, <1>2, <2>1 DEF Q!UnmarshalJSON, Q!NewQuantity, Q!QuantityWithUnit, Q!Ok, Q!Quantity
  <1>3. CASE q.unit # ""
    <2>1. /\ Q!MarshalJSON(q).number = FALSE /\ Q!MarshalJSON(q).value = q.value
          /\ Q!MarshalJSON(q).unit = q.unit
      BY Zenon, <1>3 DEF Q!MarshalJSON
    <2> QED
      BY Zenon, <1>1, <2>1 DEF Q!UnmarshalJSON, Q!QuantityWithUnit, Q!Ok, Q!Quantity
  <1> QED
    BY Zenon, <1>2, <1>3

-----------------------------------------------------------------------------
(* SumMoney and SumQuantities.                                              *)

CurrencyOrNone == Currencies \cup {""}
Moneys == [amount : Ints, currency : CurrencyOrNone]
MoneyResults == [ok : BOOLEAN, value : Moneys]

\* What the lists hold: every constructor fills in a currency.
Priced == {m \in Moneys : m.currency # ""}

\* Money.Add returns money, and fails for two currencies only.
LEMMA MoneyAdd ==
    ASSUME NEW m \in Moneys, NEW other \in Moneys
    PROVE  /\ M!Add(m, other) \in MoneyResults /\ M!Failed \in MoneyResults
           /\ M!Add(m, other).ok <=> m.currency = other.currency
           /\ M!Add(m, other).ok => M!Add(m, other).value.currency = m.currency
  <1> DEFINE sum == Wrap(m.amount + other.amount)
  <1>1. m.amount \in Ints /\ other.amount \in Ints /\ m.currency \in CurrencyOrNone
    BY DEF Moneys
  <1>2. sum \in Ints /\ 0 \in Ints
    <2>1. 0 \in Ints
      OBVIOUS
    <2> HIDE DEF Ints, Modulus, MinInt
    <2> QED
      BY <1>1, <2>1, WrapInRange
  <1>3. M!Add(m, other) = IF m.currency # other.currency THEN M!Failed
                          ELSE [ok |-> TRUE, value |-> [amount |-> sum, currency |-> m.currency]]
    BY Zenon, SameIntegers DEF M!Add, M!Ok, M!Money
  <1> HIDE DEF sum, Ints
  <1>4. M!Failed \in MoneyResults /\ ~M!Failed.ok
    BY Zenon, <1>2 DEF M!Failed, M!Money, MoneyResults, Moneys, CurrencyOrNone
  <1> QED
    BY <1>1, <1>2, <1>3, <1>4 DEF MoneyResults, Moneys

\* SumMoney fails exactly when a currency is not the first one's, and
\* otherwise returns what the width leaves of the running total.
LEMMA SumMoneyIs ==
    ASSUME NEW n \in Nat \ {0}, NEW values, Len(values) = n, values # <<>>,
           \A i \in 1..n : values[i] \in Moneys,
           NEW f, \A i \in 1..n : f[i] = values[i].amount, NEW t, RunningTotal(t, f, n)
    PROVE  /\ M!SumMoney(values).ok <=>
                  \A i \in 1..n : values[i].currency = values[1].currency
           /\ M!SumMoney(values).ok => Represents(M!SumMoney(values).value.amount, t[n])
  <1> HIDE DEF Ints, Modulus, MinInt
  <1> DEFINE Next1(r, i) == IF r.ok THEN M!Add(r.value, values[i]) ELSE M!Failed
             step == [i \in 1..n |-> [r \in MoneyResults |-> Next1(r, i)]]
             Eq(s) == s = [i \in 1..n |-> IF i = 1 THEN M!Ok(values[1]) ELSE Next1(s[i - 1], i)]
             sum == CHOOSE s : Eq(s)
             first == values[1].currency
  <1>1. /\ \A i \in 1..n : i # 1 => i - 1 \in 1..n
        /\ 1 \in 1..n /\ n \in 1..n /\ n \in Int /\ 1 \in Int /\ 1 <= n
    OBVIOUS
  <1>2. M!Ok(values[1]) \in MoneyResults /\ M!Ok(values[1]).ok /\ M!Ok(values[1]).value = values[1]
    BY <1>1 DEF M!Ok, MoneyResults
  <1>3. \A r \in MoneyResults, i \in 1..n : r.value \in Moneys /\ Next1(r, i) \in MoneyResults
    BY MoneyAdd DEF MoneyResults
  <1> HIDE DEF Next1
  <1>4. PICK g : Iteration(g, 1, n, MoneyResults, M!Ok(values[1]), step)
    <2>1. Steps(step, 1, n, MoneyResults)
      BY <1>3 DEF Steps
    <2> HIDE DEF step
    <2> QED
      BY ONLY <1>1, <1>2, <2>1, Iterates
  <1>5. /\ g \in [1..n -> MoneyResults] /\ g[1] = M!Ok(values[1])
        /\ \A i \in 1..n : i # 1 => g[i] = Next1(g[i - 1], i)
    BY Zenon, <1>1, <1>4 DEF Iteration
  <1>6. Eq(g)
    BY <1>1, <1>5
  <1>7. Eq(sum)
    BY ONLY <1>6
  <1>8. M!SumMoney(values) = sum[n]
    BY DEF M!SumMoney, Next1
  <1> HIDE DEF sum
  <1>9. sum[1] = M!Ok(values[1]) /\ \A i \in 1..n : i # 1 => sum[i] = Next1(sum[i - 1], i)
    BY ONLY <1>1, <1>7
  <1> DEFINE T == {i \in 1..n :
                     /\ sum[i] \in MoneyResults
                     /\ sum[i].ok <=> \A j \in 1..i : values[j].currency = first
                     /\ sum[i].ok => /\ sum[i].value.currency = first
                                     /\ Represents(sum[i].value.amount, t[i])}
  <1>10. 1 \in T
    <2>1. 1..1 = {1} /\ t[1] = values[1].amount /\ values[1].amount \in Int
      <3>1. values[1].amount \in Ints
        BY <1>1 DEF Moneys
      <3>2. values[1].amount \in Int
        BY <3>1 DEF Ints
      <3> QED
        BY <1>1, <3>2 DEF RunningTotal
    <2>2. Represents(values[1].amount, t[1])
      <3>1. values[1].amount \in Ints /\ Modulus \in Int
        BY <1>1 DEF Moneys, Modulus
      <3>2. \A a, b \in Int : a = a + 0 * b
        OBVIOUS
      <3>3. values[1].amount = t[1] + 0 * Modulus /\ 0 \in Int
        BY ONLY <2>1, <3>1, <3>2
      <3> QED
        BY ONLY <3>1, <3>3 DEF Represents
    <2> QED
      BY <1>1, <1>2, <1>9, <2>1, <2>2
  <1>11. ASSUME NEW i \in 1..n, i # 1, i - 1 \in T PROVE i \in T
    <2> DEFINE r == sum[i - 1]
    <2>1. /\ r \in MoneyResults
          /\ r.ok <=> \A j \in 1..(i - 1) : values[j].currency = first
          /\ r.ok => r.value.currency = first /\ Represents(r.value.amount, t[i - 1])
      BY <1>11
    <2>2. sum[i] = Next1(r, i) /\ sum[i] \in MoneyResults /\ values[i] \in Moneys
      BY <1>3, <1>9, <1>11, <2>1
    <2>3. 1..i = (1..(i - 1)) \cup {i}
      BY <1>11
    <2>4. i - 1 \in 0..n /\ t[i - 1] \in Int /\ t[i] = t[i - 1] + values[i].amount
      BY <1>11 DEF RunningTotal
    <2> HIDE DEF T, r
    <2>5. CASE ~r.ok
      <3>1. ~sum[i].ok
        <4>1. sum[i] = M!Failed
          BY ONLY <2>2, <2>5 DEF Next1
        <4>2. ~M!Failed.ok
          BY DEF M!Failed
        <4> QED
          BY ONLY <4>1, <4>2
      <3> QED
        <4>1. sum[i].ok <=> \A j \in 1..i : values[j].currency = first
          BY ONLY <2>1, <2>3, <2>5, <3>1
        <4> QED
          BY ONLY i \in 1..n, <2>2, <3>1, <4>1 DEF T
    <2>6. CASE r.ok
      <3>1. sum[i] = M!Add(r.value, values[i]) /\ r.value \in Moneys
        <4>1. r.value \in Moneys
          BY ONLY <2>1 DEF MoneyResults
        <4>2. sum[i] = M!Add(r.value, values[i])
          BY ONLY <2>2, <2>6 DEF Next1
        <4> QED
          BY <4>1, <4>2
      <3>2. /\ sum[i].ok <=> first = values[i].currency
            /\ sum[i].ok => sum[i].value.currency = first
        BY <2>1, <2>2, <2>6, <3>1, MoneyAdd
      <3>3. ASSUME sum[i].ok PROVE Represents(sum[i].value.amount, t[i])
        <4>1. values[i].amount \in Ints /\ r.value.currency = values[i].currency
          BY <2>1, <2>2, <2>6, <3>2, <3>3 DEF Moneys
        <4> QED
          BY <2>1, <2>4, <2>6, <3>1, <4>1, PartialSumsMayWrap
      <3> QED
        <4>1. sum[i].ok <=> \A j \in 1..i : values[j].currency = first
          <5>1. \A j \in 1..(i - 1) : values[j].currency = first
            BY ONLY <2>1, <2>6
          <5> QED
            BY ONLY <2>3, <3>2, <5>1
        <4> QED
          BY ONLY i \in 1..n, <2>2, <3>2, <3>3, <4>1 DEF T
    <2> QED
      BY <2>5, <2>6
  <1>12. n \in T
    <2> HIDE DEF T
    <2> QED
      BY Zenon, <1>1, <1>10, <1>11, Induct
  <1> QED
    BY <1>8, <1>12

QuantityResults == [ok : BOOLEAN, value : Naturals0]

\* Quantity.Add returns a non-negative quantity in the common unit.
LEMMA QuantityAdd ==
    ASSUME NEW q \in Naturals0, NEW other \in Naturals0
    PROVE  /\ Q!Add(q, other) \in QuantityResults /\ Q!Failed \in QuantityResults
           /\ Q!Add(q, other).ok => Q!Add(q, other).value.unit = Q!CommonUnit(q, other)
  <1> DEFINE new == Wrap(q.value + other.value)
  <1>1. /\ q.value \in Ints /\ q.value >= 0 /\ other.value \in Ints
        /\ Q!CommonUnit(q, other) \in UnitOrNone
    BY Zenon DEF Naturals0, Quantities, Q!CommonUnit
  <1>2. new \in Ints /\ (~(new < q.value) => new >= 0)
    <2>1. new \in Ints
      <3> HIDE DEF Ints, Modulus, MinInt
      <3> QED
        BY <1>1, WrapInRange
    <2> HIDE DEF new
    <2> QED
      BY <1>1, <2>1
  <1>3. Q!Add(q, other) =
           IF Q!Clash(q, other) \/ new < q.value THEN Q!Failed
           ELSE [ok |-> TRUE, value |-> [value |-> new, unit |-> Q!CommonUnit(q, other)]]
    BY Zenon, SameIntegers DEF Q!Add, Q!Ok, Q!Quantity
  <1>4. 0 \in Ints /\ 0 >= 0
    OBVIOUS
  <1> HIDE DEF new, Ints
  <1>5. \A v \in Ints, u \in UnitOrNone : v >= 0 => [value |-> v, unit |-> u] \in Naturals0
    BY DEF Naturals0, Quantities
  <1>6. "" \in UnitOrNone
    BY DEF UnitOrNone
  <1>7. Q!Failed \in QuantityResults /\ ~Q!Failed.ok
    BY Zenon, <1>4, <1>5, <1>6 DEF Q!Failed, Q!ZeroQuantity, Q!Quantity, QuantityResults
  <1>8. CASE Q!Clash(q, other) \/ new < q.value
    BY <1>3, <1>7, <1>8
  <1>9. CASE ~(Q!Clash(q, other) \/ new < q.value)
    <2>1. [value |-> new, unit |-> Q!CommonUnit(q, other)] \in Naturals0
      BY <1>1, <1>2, <1>5, <1>9
    <2> QED
      BY <1>3, <1>7, <1>9, <2>1 DEF QuantityResults
  <1> QED
    BY <1>8, <1>9

\* The unit of a sum of the first i values, when no two of them clash.
NoClash(values, i) == \A j, k \in 1..i : ~Q!Clash(values[j], values[k])
UnitOf(u, values, i) ==
    IF u = "" THEN \A j \in 1..i : values[j].unit = ""
    ELSE \E j \in 1..i : values[j].unit = u
LEMMA UnitOfNext ==
    ASSUME NEW i \in Int, i > 1, NEW values, NEW q, NoClash(values, i - 1),
           UnitOf(q.unit, values, i - 1)
    PROVE  /\ ~Q!Clash(q, values[i]) <=> NoClash(values, i)
           /\ UnitOf(Q!CommonUnit(q, values[i]), values, i)
  <1>1. 1..i = (1..(i - 1)) \cup {i}
    OBVIOUS
  <1> DEFINE P == 1..(i - 1)
  <1>2. /\ \A j, k \in P : ~Q!Clash(values[j], values[k])
        /\ q.unit = "" => \A j \in P : values[j].unit = ""
        /\ q.unit # "" => \E j \in P : values[j].unit = q.unit
    BY Zenon DEF NoClash, UnitOf
  <1> HIDE DEF P
  <1>3. Q!Clash(q, values[i]) <=> \E j \in P : Q!Clash(values[j], values[i])
    BY Zenon, <1>2 DEF Q!Clash
  <1>4. NoClash(values, i) <=> \A j \in P : ~Q!Clash(values[j], values[i])
    BY Zenon, <1>1, <1>2 DEF P, NoClash, Q!Clash
  <1>5. UnitOf(Q!CommonUnit(q, values[i]), values, i)
    BY Zenon, <1>1, <1>2 DEF P, UnitOf, Q!CommonUnit
  <1> QED
    BY <1>3, <1>4, <1>5

\* SumQuantities of non-negative quantities fails exactly when two units clash
\* or the running total ends past MaxInt, and otherwise returns it.
LEMMA SumQuantitiesIs ==
    ASSUME NEW n \in Nat \ {0}, NEW values, Len(values) = n, values # <<>>,
           \A i \in 1..n : values[i] \in Naturals0,
           NEW f, \A i \in 1..n : f[i] = values[i].value, NEW t, RunningTotal(t, f, n)
    PROVE  /\ Q!SumQuantities(values).ok <=> t[n] <= MaxInt /\ NoClash(values, n)
           /\ Q!SumQuantities(values).ok => Q!SumQuantities(values).value.value = t[n]
  <1>0. \A i \in 1..n : values[i].value \in Ints /\ values[i].value \in Nat
    <2>1. \A i \in 1..n : values[i].value \in Ints /\ values[i].value >= 0
      BY DEF Naturals0, Quantities
    <2> QED
      BY <2>1
  <1> HIDE DEF Ints, Modulus, MinInt
  <1> DEFINE Next1(r, i) == IF r.ok THEN Q!Add(r.value, values[i]) ELSE Q!Failed
             step == [i \in 1..n |-> [r \in QuantityResults |-> Next1(r, i)]]
             Eq(s) == s = [i \in 1..n |-> IF i = 1 THEN Q!Ok(values[1]) ELSE Next1(s[i - 1], i)]
             sum == CHOOSE s : Eq(s)
  <1>1. /\ \A i \in 1..n : i # 1 => i - 1 \in 1..n
        /\ 1 \in 1..n /\ n \in 1..n /\ n \in Int /\ 1 \in Int /\ 1 <= n
    OBVIOUS
  <1>2. /\ Q!Ok(values[1]) \in QuantityResults
        /\ Q!Ok(values[1]).ok /\ Q!Ok(values[1]).value = values[1]
    BY <1>1 DEF Q!Ok, QuantityResults
  <1>3. \A r \in QuantityResults, i \in 1..n : r.value \in Naturals0 /\ Next1(r, i) \in QuantityResults
    BY QuantityAdd DEF QuantityResults
  <1> HIDE DEF Next1
  <1>4. PICK g : Iteration(g, 1, n, QuantityResults, Q!Ok(values[1]), step)
    <2>1. Steps(step, 1, n, QuantityResults)
      BY <1>3 DEF Steps
    <2> HIDE DEF step
    <2> QED
      BY ONLY <1>1, <1>2, <2>1, Iterates
  <1>5. /\ g \in [1..n -> QuantityResults] /\ g[1] = Q!Ok(values[1])
        /\ \A i \in 1..n : i # 1 => g[i] = Next1(g[i - 1], i)
    BY Zenon, <1>1, <1>4 DEF Iteration
  <1>6. Eq(g)
    BY <1>1, <1>5
  <1>7. Eq(sum)
    BY ONLY <1>6
  <1>8. Q!SumQuantities(values) = sum[n]
    BY DEF Q!SumQuantities, Next1
  <1> HIDE DEF sum
  <1>9. sum[1] = Q!Ok(values[1]) /\ \A i \in 1..n : i # 1 => sum[i] = Next1(sum[i - 1], i)
    BY ONLY <1>1, <1>7
  <1> DEFINE T == {i \in 1..n :
                     /\ sum[i] \in QuantityResults
                     /\ sum[i].ok <=> t[i] <= MaxInt /\ NoClash(values, i)
                     /\ sum[i].ok => /\ sum[i].value.value = t[i]
                                     /\ UnitOf(sum[i].value.unit, values, i)}
  <1>10. 1 \in T
    <2>1. 1..1 = {1} /\ t[1] = values[1].value /\ t[1] <= MaxInt
      <3>1. values[1].value \in Ints /\ values[1].value \in Nat
        BY <1>0, <1>1
      <3>2. values[1].value <= MaxInt
        BY <3>1 DEF Ints, MinInt
      <3> QED
        BY <1>1, <3>1, <3>2 DEF RunningTotal
    <2>2. NoClash(values, 1) /\ UnitOf(values[1].unit, values, 1)
      BY Zenon, <2>1 DEF NoClash, UnitOf, Q!Clash
    <2>3. sum[1] \in QuantityResults /\ sum[1].ok /\ sum[1].value = values[1]
      BY <1>2, <1>9
    <2> QED
      BY ONLY <1>1, <2>1, <2>2, <2>3
  <1>11. ASSUME NEW i \in 1..n, i # 1, i - 1 \in T PROVE i \in T
    <2> DEFINE r == sum[i - 1]
               other == values[i]
    <2>1. /\ r \in QuantityResults
          /\ r.ok <=> t[i - 1] <= MaxInt /\ NoClash(values, i - 1)
          /\ r.ok => r.value.value = t[i - 1] /\ UnitOf(r.value.unit, values, i - 1)
      BY <1>11
    <2>2. /\ sum[i] = Next1(r, i) /\ sum[i] \in QuantityResults
          /\ r.value \in Naturals0 /\ other \in Naturals0
      BY <1>3, <1>9, <1>11, <2>1
    <2>3. /\ i - 1 \in 0..n /\ t[i - 1] \in Int /\ other.value \in Nat
          /\ t[i] = t[i - 1] + other.value
      BY <1>0, <1>11 DEF RunningTotal
    <2>4. i \in Int /\ i > 1 /\ 1..(i - 1) \subseteq 1..i
      BY <1>11
    <2> HIDE DEF T, r, other
    <2>5. CASE ~r.ok
      <3>1. ~sum[i].ok
        <4>1. sum[i] = Q!Failed
          BY ONLY <2>2, <2>5 DEF Next1
        <4>2. ~Q!Failed.ok
          BY DEF Q!Failed
        <4> QED
          BY ONLY <4>1, <4>2
      <3>2. ~(t[i] <= MaxInt /\ NoClash(values, i))
        <4>1. NoClash(values, i) => NoClash(values, i - 1)
          BY ONLY <2>4 DEF NoClash
        <4>2. t[i] <= MaxInt => t[i - 1] <= MaxInt
          BY ONLY <2>3, IntAssumption
        <4> QED
          BY ONLY <2>1, <2>5, <4>1, <4>2
      <3> QED
        BY ONLY i \in 1..n, <2>2, <3>1, <3>2 DEF T
    <2>6. CASE r.ok
      <3>1. sum[i] = Q!Add(r.value, other)
        BY ONLY <2>2, <2>6 DEF Next1, other
      <3>2. /\ sum[i].ok <=> ~Q!Clash(r.value, other) /\ t[i] <= MaxInt
            /\ sum[i].ok => sum[i].value.value = t[i]
        BY <2>1, <2>2, <2>3, <2>6, <3>1, AddDetectsOverflow
      <3>3. sum[i].ok => sum[i].value.unit = Q!CommonUnit(r.value, other)
        BY ONLY <2>2, <3>1, QuantityAdd
      <3>4. /\ ~Q!Clash(r.value, other) <=> NoClash(values, i)
            /\ UnitOf(Q!CommonUnit(r.value, other), values, i)
        BY ONLY <2>1, <2>4, <2>6, UnitOfNext DEF other
      <3> QED
        BY ONLY i \in 1..n, <2>2, <3>2, <3>3, <3>4 DEF T
    <2> QED
      BY <2>5, <2>6
  <1>12. n \in T
    <2> HIDE DEF T
    <2> QED
      BY Zenon, <1>1, <1>10, <1>11, Induct
  <1> QED
    BY <1>8, <1>12

-----------------------------------------------------------------------------
(* Ledger.                                                                  *)

\* Of a list of quantities every value fits, and none is negative before a
\* product has left the range.
LedgerInv ==
    /\ wrapped \in BOOLEAN
    /\ kind = "quantity" => list \in Seq(Quantities)
    /\ NonNegative

\* Every Quantity operation but Multiply makes non-negative values from
\* non-negative values, and values that fit from values that fit.
LEMMA QuantityOps ==
    /\ \A v \in Ints, u \in UnitOrNone :
          Q!QuantityWithUnit(v, u).ok => Q!QuantityWithUnit(v, u).value \in Naturals0
    /\ \A v \in Ints : Q!NewQuantity(v).ok => Q!NewQuantity(v).value \in Naturals0
    /\ Q!ZeroQuantity \in Naturals0
  <1>1. \A v \in Ints, u \in UnitOrNone :
           Q!QuantityWithUnit(v, u).ok => Q!QuantityWithUnit(v, u).value \in Naturals0
    <2> SUFFICES ASSUME NEW v \in Ints, NEW u \in UnitOrNone, Q!QuantityWithUnit(v, u).ok
                 PROVE  Q!QuantityWithUnit(v, u).value \in Naturals0
      OBVIOUS
    <2>1. ~(v < 0) /\ Q!QuantityWithUnit(v, u).value = [value |-> v, unit |-> u]
      BY DEF Q!QuantityWithUnit, Q!Failed, Q!Ok, Q!Quantity
    <2>2. v >= 0
      <3>1. v \in Int
        BY v \in Ints
      <3> QED
        BY ONLY <2>1, <3>1
    <2> HIDE DEF Ints
    <2> DEFINE w == [value |-> v, unit |-> u]
    <2>3. w \in Quantities /\ w.value = v
      BY DEF Quantities
    <2>4. w \in Naturals0
      BY ONLY <2>2, <2>3 DEF Naturals0
    <2> QED
      BY ONLY <2>1, <2>4
  <1>2. 0 \in Ints /\ 0 >= 0
    OBVIOUS
  <1> HIDE DEF Ints
  <1>3. "" \in UnitOrNone /\ Units \subseteq UnitOrNone
    BY Zenon DEF UnitOrNone
  <1>4. \A u \in UnitOrNone : [value |-> 0, unit |-> u] \in Naturals0
    BY <1>2 DEF Naturals0, Quantities
  <1>5. Q!ZeroQuantity = [value |-> 0, unit |-> ""]
    BY DEF Q!ZeroQuantity, Q!Quantity
  <1>6. Q!ZeroQuantity \in Naturals0
    BY ONLY Zenon, <1>3, <1>4, <1>5
  <1>7. \A v : Q!NewQuantity(v) = Q!QuantityWithUnit(v, "")
    BY DEF Q!NewQuantity
  <1> QED
    BY ONLY Zenon, <1>1, <1>3, <1>6, <1>7

\* The operations of two quantities keep the values in range, and
\* non-negative values non-negative.
LEMMA QuantityPairs ==
    ASSUME NEW q \in Quantities, NEW other \in Quantities,
           NEW r \in {Q!Add(q, other), Q!Subtract(q, other)}, r.ok
    PROVE  /\ r.value \in Quantities
           /\ q.value >= 0 /\ other.value >= 0 => r.value.value >= 0
  <1> DEFINE a == q.value
             b == other.value
  <1>1. a \in Ints /\ b \in Ints /\ Q!CommonUnit(q, other) \in UnitOrNone
    BY Zenon DEF Quantities, Q!CommonUnit
  <1>2. \A v, u : Q!Ok(v).value = v /\ Q!Quantity(v, u) = [value |-> v, unit |-> u]
                 /\ ~Q!Failed.ok
    BY DEF Q!Ok, Q!Quantity, Q!Failed
  <1>3. CASE r = Q!Add(q, other)
    <2>1. ~(Wrap(a + b) < a) /\ r.value = [value |-> Wrap(a + b), unit |-> Q!CommonUnit(q, other)]
      BY <1>2, <1>3, SameIntegers DEF Q!Add
    <2>2. Wrap(a + b) \in Ints
      BY Zenon, <1>1, WrapInRange
    <2>3. a >= 0 => Wrap(a + b) >= 0
      <3>1. \A x, y \in Ints : ~(y < x) /\ x >= 0 => y >= 0
        BY ONLY IntAssumption
      <3> HIDE DEF Ints
      <3> QED
        BY ONLY <1>1, <2>1, <2>2, <3>1
    <2> HIDE DEF Ints
    <2>4. r.value \in Quantities
      BY ONLY <1>1, <2>1, <2>2 DEF Quantities
    <2> QED
      BY ONLY <2>1, <2>3, <2>4
  <1>4. CASE r = Q!Subtract(q, other)
    <2>1. ~(b > a) /\ r.value = [value |-> Wrap(a - b), unit |-> Q!CommonUnit(q, other)]
      BY <1>2, <1>4, SameIntegers DEF Q!Subtract
    <2>2. Wrap(a - b) \in Ints
      BY <1>1, WrapInRange
    <2>3. a >= 0 /\ b >= 0 => Wrap(a - b) >= 0
      <3>1. \A x, y \in Ints : ~(y > x) /\ x >= 0 /\ y >= 0 => Wrap(x - y) >= 0
        BY ONLY IntAssumption DEF Wrap
      <3> HIDE DEF Ints
      <3> QED
        BY ONLY <1>1, <2>1, <3>1
    <2> HIDE DEF Ints
    <2>4. r.value \in Quantities
      BY ONLY <1>1, <2>1, <2>2 DEF Quantities
    <2> QED
      BY ONLY <2>1, <2>3, <2>4
  <1> QED
    BY <1>3, <1>4

\* A value that replaces a line, or is appended, keeps the invariant if it is
\* a quantity and not negative.
LEMMA ListKeeps ==
    ASSUME LedgerInv, kind = "quantity", kind' = kind, wrapped' = wrapped,
           NEW x \in Quantities, ~wrapped => x.value >= 0,
           \/ list' = Append(list, x)
           \/ \E i \in Line : list' = [list EXCEPT ![i] = x]
    PROVE  LedgerInv'
  <1>1. list \in Seq(Quantities) /\ Len(list) \in Nat
    <2>1. list \in Seq(Quantities)
      BY DEF LedgerInv
    <2> HIDE DEF Ints
    <2> QED
      BY <2>1
  <1> HIDE DEF Ints
  <1>2. list' \in Seq(Quantities) /\ \A j \in 1..Len(list') : list'[j] = x \/ (j \in Line /\ list'[j] = list[j])
    <2>1. CASE list' = Append(list, x)
      <3>1. /\ list' \in Seq(Quantities) /\ Len(list') = Len(list) + 1
            /\ list'[Len(list) + 1] = x /\ \A j \in 1..Len(list) : list'[j] = list[j]
        BY <1>1, <2>1
      <3> QED
        BY <1>1, <3>1 DEF Line
    <2>2. CASE \E i \in Line : list' = [list EXCEPT ![i] = x]
      BY <1>1, <2>2 DEF Line
    <2> QED
      BY <2>1, <2>2
  <1>3. NonNegative'
    BY <1>2 DEF LedgerInv, NonNegative, Line
  <1> QED
    BY <1>2, <1>3 DEF LedgerInv

\* Every operation on a list of quantities keeps LedgerInv.
LEMMA LedgerNext ==
    ASSUME LedgerInv, [Next]_vars PROVE LedgerInv'
  <1>1. CASE kind # "quantity"
    <2>1. kind' = kind /\ wrapped' = wrapped
      BY Zenon, <1>1 DEF Next, vars, MoneyMade, MoneyComputed, MoneyStored, QuantityMade,
                  QuantityComputed, QuantityMultiplied, QuantityStored, Appends, Replaces
    <2> QED
      BY <1>1, <2>1 DEF LedgerInv, NonNegative
  <1>2. CASE UNCHANGED vars
    BY <1>2 DEF vars, LedgerInv, NonNegative, Line
  <1>3. ASSUME kind = "quantity", QuantityMade PROVE LedgerInv'
    <2>1. PICK x \in Naturals0 : Appends(x)
      <3>1. CASE Appends(Q!ScanNull)
        BY <3>1, QuantityOps DEF Q!ScanNull
      <3>2. ASSUME NEW v \in Ints, NEW u \in Units, Q!QuantityWithUnit(v, u).ok,
                   Appends(Q!QuantityWithUnit(v, u).value)
            PROVE  \E x \in Naturals0 : Appends(x)
        <4>1. u \in UnitOrNone
          BY Zenon DEF UnitOrNone
        <4> QED
          BY <3>2, <4>1, QuantityOps, Zenon
      <3>3. ASSUME NEW v \in Ints, Q!ScanFloat(v).ok, Appends(Q!ScanFloat(v).value)
            PROVE  \E x \in Naturals0 : Appends(x)
        <4> DEFINE cut == IF v < 0 THEN -((-v) \div 2) ELSE v \div 2
        <4>1. cut \in Ints
          OBVIOUS
        <4>2. Q!ScanFloat(v) = Q!NewQuantity(cut)
          BY DEF Q!ScanFloat
        <4> HIDE DEF cut, Ints
        <4> QED
          BY ONLY <3>3, <4>1, <4>2, QuantityOps, Zenon
      <3> HIDE DEF Ints
      <3> QED
        BY ONLY <1>3, <3>1, <3>2, <3>3, Zenon DEF QuantityMade
    <2>2. x \in Quantities /\ x.value >= 0
      BY ONLY <2>1 DEF Naturals0
    <2> QED
      BY <1>3, <2>1, <2>2, ListKeeps DEF Appends
  <1>4. ASSUME kind = "quantity", NEW i \in Line, NEW x \in Quantities,
               ~wrapped => x.value >= 0, Replaces(i, x)
        PROVE  LedgerInv'
    BY Zenon, <1>4, ListKeeps DEF Replaces
  <1>5. ASSUME kind = "quantity" PROVE \A i \in Line : list[i] \in Quantities /\ (~wrapped => list[i].value >= 0)
    <2>1. list \in Seq(Quantities)
      BY <1>5 DEF LedgerInv
    <2>2. \A i \in Line : list[i] \in Quantities
      BY <2>1 DEF Line
    <2> QED
      BY <1>5, <2>2 DEF LedgerInv, NonNegative
  <1>6. ASSUME kind = "quantity", QuantityComputed PROVE LedgerInv'
    <2> SUFFICES ASSUME NEW i \in Line, NEW j \in Line,
                        \/ \E r \in {Q!Add(list[i], list[j]), Q!Subtract(list[i], list[j])} :
                               r.ok /\ Replaces(i, r.value)
                        \/ \E q \in {Q!Max(list[i], list[j]), Q!Min(list[i], list[j])} :
                               Replaces(i, q)
                        \/ \E u \in Units : Replaces(i, Q!WithUnit(list[i], u))
                 PROVE  LedgerInv'
      BY <1>6 DEF QuantityComputed
    <2> DEFINE q == list[i]
               other == list[j]
    <2>1. /\ q \in Quantities /\ other \in Quantities
          /\ ~wrapped => q.value >= 0 /\ other.value >= 0
      BY <1>5, <1>6
    <2>2. ASSUME NEW r \in {Q!Add(q, other), Q!Subtract(q, other)}, r.ok, Replaces(i, r.value)
          PROVE  LedgerInv'
      <3>1. r.value \in Quantities /\ (~wrapped => r.value.value >= 0)
        BY ONLY <2>1, <2>2, QuantityPairs
      <3> QED
        BY <1>4, <1>6, <2>2, <3>1
    <2>3. ASSUME NEW x \in {Q!Max(q, other), Q!Min(q, other)}, Replaces(i, x)
          PROVE  LedgerInv'
      <3>1. x = q \/ x = other
        BY <2>3 DEF Q!Max, Q!Min
      <3> QED
        BY <1>4, <1>6, <2>1, <2>3, <3>1
    <2>4. ASSUME NEW u \in Units, Replaces(i, Q!WithUnit(q, u)) PROVE LedgerInv'
      <3>1. u \in UnitOrNone
        BY Zenon DEF UnitOrNone
      <3> HIDE DEF Ints
      <3>2. Q!WithUnit(q, u) \in Quantities /\ Q!WithUnit(q, u).value = q.value
        BY <2>1, <3>1 DEF Q!WithUnit, Q!Quantity, Quantities
      <3> QED
        BY <1>4, <1>6, <2>1, <2>4, <3>2
    <2> QED
      BY <2>2, <2>3, <2>4
  <1>7. ASSUME kind = "quantity", QuantityStored PROVE LedgerInv'
    <2>0. PICK i \in Line :
             \E r \in {Q!UnmarshalJSON(Q!MarshalJSON(list[i])), Q!ScanInt(Q!Value(list[i]))} :
                r.ok /\ Replaces(i, r.value)
      BY <1>7 DEF QuantityStored
    <2> DEFINE q == list[i]
    <2>1. PICK r \in {Q!UnmarshalJSON(Q!MarshalJSON(q)), Q!ScanInt(Q!Value(q))} :
             r.ok /\ Replaces(i, r.value)
      BY <2>0
    <2>2. q \in Quantities
      BY <1>5, <1>7
    <2>3. q.value \in Ints /\ q.unit \in UnitOrNone
      BY <2>2 DEF Quantities
    <2>4. r = Q!QuantityWithUnit(q.value, q.unit) \/ r = Q!NewQuantity(q.value)
      BY Zenon, <2>1 DEF Q!UnmarshalJSON, Q!MarshalJSON, Q!ScanInt, Q!Value
    <2>5. r.value \in Naturals0
      <3> HIDE DEF q, Ints
      <3>1. CASE r = Q!NewQuantity(q.value)
        BY ONLY <2>1, <2>3, <3>1, QuantityOps, Zenon
      <3>2. CASE r = Q!QuantityWithUnit(q.value, q.unit)
        BY ONLY <2>1, <2>3, <3>2, QuantityOps, Zenon
      <3> QED
        BY <2>4, <3>1, <3>2
    <2>6. r.value \in Quantities /\ r.value.value >= 0
      BY ONLY <2>5 DEF Naturals0
    <2> QED
      BY <1>4, <1>7, <2>1, <2>6
  <1>8. ASSUME kind = "quantity", QuantityMultiplied PROVE LedgerInv'
    <2>1. PICK i \in Line, factor \in Ints :
             LET r == Q!Multiply(list[i], factor) IN
             /\ r.ok /\ list' = [list EXCEPT ![i] = r.value]
             /\ wrapped' = (wrapped \/ list[i].value * factor # r.value.value)
             /\ UNCHANGED kind
      BY Zenon, <1>8 DEF QuantityMultiplied
    <2> DEFINE q == list[i]
               a == q.value
               x == [value |-> WrapProduct(a * factor), unit |-> q.unit]
    <2>2. q \in Quantities /\ (~wrapped => a >= 0)
      BY <1>5, <1>8
    <2>3. a \in Ints /\ q.unit \in UnitOrNone
      BY <2>2 DEF Quantities
    <2>4. factor >= 0 /\ Q!Multiply(q, factor).value = x
      BY <2>1, SameIntegers DEF Q!Multiply, Q!Ok, Q!Quantity, Q!Failed
    <2>5. a \in Int /\ factor \in Int /\ a * factor \in Int
      BY <2>1, <2>3
    <2>6. WrapProduct(a * factor) \in Ints
      BY <2>5, WrapProductInRange
    <2>7. x \in Quantities /\ x.value = WrapProduct(a * factor)
      BY <2>3, <2>6 DEF Quantities
    <2>8. /\ list' = [list EXCEPT ![i] = x] /\ UNCHANGED kind
          /\ wrapped' = (wrapped \/ a * factor # x.value)
      BY ONLY <2>1, <2>4
    <2>9. ~wrapped' => ~wrapped /\ x.value >= 0
      <3>1. a >= 0 /\ factor >= 0 => a * factor >= 0
        BY ONLY <2>5
      <3> HIDE DEF x, a
      <3> QED
        BY ONLY Zenon, <2>2, <2>4, <2>8, <3>1
    <2>10. list \in Seq(Quantities)
      BY <1>8 DEF LedgerInv
    <2> HIDE DEF x, a, Ints
    <2>11. /\ list' \in Seq(Quantities) /\ Len(list') = Len(list)
           /\ \A j \in Line : list'[j] = x \/ list'[j] = list[j]
      BY <2>7, <2>8, <2>10 DEF Line
    <2>12. wrapped' \in BOOLEAN
      BY ONLY <2>8
    <2>13. NonNegative'
      BY <1>8, <2>8, <2>9, <2>11 DEF LedgerInv, NonNegative, Line
    <2> QED
      BY ONLY <2>11, <2>12, <2>13 DEF LedgerInv
  <1> QED
    BY Zenon, <1>1, <1>2, <1>3, <1>6, <1>7, <1>8 DEF Next, MoneyMade, MoneyComputed, MoneyStored

\* The empty list.
LEMMA LedgerInit == Init => LedgerInv
  <1> SUFFICES ASSUME Init PROVE LedgerInv
    OBVIOUS
  <1>1. list = <<>> /\ wrapped = FALSE
    BY DEF Init
  <1>2. list \in Seq(Quantities) /\ Len(list) = 0
    BY <1>1
  <1>3. Line = {}
    BY <1>2 DEF Line
  <1> QED
    BY Zenon, <1>1, <1>2, <1>3 DEF LedgerInv, NonNegative

\* "Quantity represents a non-negative quantity value": for any list, any
\* width of int and any sequence of operations no quantity is negative,
\* unless a product left the range.
THEOREM NonNegativeHolds == Spec => []NonNegative
  BY LedgerInit, LedgerNext, PTL DEF Spec, LedgerInv

\* Of a list of money every amount fits.
MoneyInv ==
    /\ kind \in {"money", "quantity"}
    /\ kind = "money" => list \in Seq(Priced)

\* Conversions from float64, whatever the platform, and the constructors.
LEMMA MoneyMakers ==
    /\ \A x : FromFloat(x) \subseteq Ints
    /\ \A c \in Ints : \A cur \in CurrencyOrNone \ {""} : M!Money(c, cur) \in Priced
    /\ \A cur \in CurrencyOrNone : M!OrDefault(cur) \in CurrencyOrNone \ {""}
    /\ \A x : \A cur \in CurrencyOrNone : M!NewMoney(x, cur) \subseteq Priced
    /\ DefaultCurrency \in CurrencyOrNone
  <1>1. MinInt \in Ints /\ MaxInt \in Ints
    OBVIOUS
  <1> HIDE DEF Ints, MinInt
  <1>2. \A x : FromFloat(x) \subseteq Ints
    BY <1>1 DEF FromFloat
  <1>3. \A c \in Ints : \A cur \in CurrencyOrNone \ {""} : M!Money(c, cur) \in Priced
    BY DEF M!Money, Moneys, Priced
  <1>4. /\ \A cur \in CurrencyOrNone : M!OrDefault(cur) \in CurrencyOrNone \ {""}
        /\ DefaultCurrency \in CurrencyOrNone
    BY Zenon, LedgerAssumption DEF M!OrDefault, CurrencyOrNone
  <1>5. \A x : \A cur \in CurrencyOrNone : M!NewMoney(x, cur) \subseteq Priced
    <2> SUFFICES ASSUME NEW x, NEW cur \in CurrencyOrNone, NEW m \in M!NewMoney(x, cur)
                 PROVE  m \in Priced
      OBVIOUS
    <2>1. \E y : \E c \in FromFloat(y) : m = M!Money(c, M!OrDefault(cur))
      BY SameIntegers DEF M!NewMoney
    <2>2. PICK c \in Ints : m = M!Money(c, M!OrDefault(cur))
      BY Zenon, <1>2, <2>1
    <2> QED
      BY Zenon, <1>3, <1>4, <2>2
  <1> QED
    BY <1>2, <1>3, <1>4, <1>5

\* The operations of one or two amounts.
LEMMA MoneyOps ==
    ASSUME NEW m \in Priced, NEW other \in Priced
    PROVE  /\ M!Add(m, other).ok => M!Add(m, other).value \in Priced
           /\ M!Subtract(m, other).ok => M!Subtract(m, other).value \in Priced
           /\ {M!Negate(m), M!Abs(m), M!Max(m, other), M!Min(m, other)} \subseteq Priced
           /\ \A f : M!Multiply(m, f) \subseteq Priced
           /\ \A f : \A r \in M!Divide(m, f) : r.ok => r.value \in Priced
  <1>1. m.amount \in Ints /\ other.amount \in Ints /\ m.currency \in CurrencyOrNone \ {""}
    BY DEF Priced, Moneys
  <1>2. \A a \in Ints : Wrap(-a) \in Ints
    BY DEF Wrap
  <1>3. /\ Wrap(m.amount + other.amount) \in Ints /\ Wrap(m.amount - other.amount) \in Ints
        /\ Wrap(-m.amount) \in Ints
    <2> HIDE DEF Ints, Modulus, MinInt
    <2> QED
      BY <1>1, <1>2, WrapInRange
  <1> HIDE DEF Ints, Modulus, MinInt
  <1>4. M!Add(m, other).ok => M!Add(m, other).value \in Priced
    <2>1. M!Money(Wrap(m.amount + other.amount), m.currency) \in Priced
      BY <1>1, <1>3, MoneyMakers
    <2> QED
      BY Zenon, <2>1, SameIntegers DEF M!Add, M!Failed, M!Ok
  <1>5. M!Subtract(m, other).ok => M!Subtract(m, other).value \in Priced
    <2>1. M!Money(Wrap(m.amount - other.amount), m.currency) \in Priced
      BY <1>1, <1>3, MoneyMakers
    <2> QED
      BY Zenon, <2>1, SameIntegers DEF M!Subtract, M!Failed, M!Ok
  <1>6. M!Negate(m) \in Priced
    BY <1>1, <1>3, MoneyMakers, SameIntegers DEF M!Negate
  <1>7. M!Abs(m) \in Priced /\ M!Max(m, other) \in Priced /\ M!Min(m, other) \in Priced
    BY <1>6 DEF M!Abs, M!Max, M!Min
  <1>8. ASSUME NEW f, NEW x \in M!Multiply(m, f) PROVE x \in Priced
    <2>1. \E y : \E c \in FromFloat(y) : x = M!Money(c, m.currency)
      BY SameIntegers DEF M!Multiply
    <2> QED
      BY <1>1, <2>1, MoneyMakers
  <1>9. ASSUME NEW f, NEW r \in M!Divide(m, f), r.ok PROVE r.value \in Priced
    <2>1. \E y : \E c \in FromFloat(y) : r = M!Ok(M!Money(c, m.currency))
      <3>1. ~M!Failed.ok
        BY DEF M!Failed
      <3> QED
        BY <1>9, <3>1, SameIntegers DEF M!Divide
    <2>2. PICK x \in Priced : r = M!Ok(x)
      BY <1>1, <2>1, MoneyMakers
    <2> QED
      BY <2>2 DEF M!Ok
  <1> QED
    BY <1>4, <1>5, <1>6, <1>7, <1>8, <1>9

\* Every operation on a list of money keeps MoneyInv.
LEMMA MoneyNext ==
    ASSUME MoneyInv, [Next]_vars PROVE MoneyInv'
  <1> HIDE DEF Ints, Modulus, MinInt
  <1>1. UNCHANGED kind
    BY Zenon DEF Next, vars, MoneyMade, MoneyComputed, MoneyStored, QuantityMade,
           QuantityComputed, QuantityMultiplied, QuantityStored, Appends, Replaces
  <1> SUFFICES ASSUME kind = "money" PROVE list' \in Seq(Priced)
    BY <1>1 DEF MoneyInv
  <1>2. list \in Seq(Priced) /\ \A i \in Line : list[i] \in Priced
    BY DEF MoneyInv, Line
  <1>3. ASSUME NEW x \in Priced, Appends(x) PROVE list' \in Seq(Priced)
    BY <1>2, <1>3 DEF Appends
  <1>4. ASSUME NEW i \in Line, NEW x \in Priced, Replaces(i, x) PROVE list' \in Seq(Priced)
    BY <1>2, <1>4 DEF Replaces, Line
  <1>5. CASE MoneyMade
    <2>1. ASSUME NEW c \in Ints, NEW cur \in Currencies \cup {""}, Appends(M!FromCents(c, cur))
          PROVE  list' \in Seq(Priced)
      <3>1. M!FromCents(c, cur) \in Priced
        BY Zenon, MoneyMakers DEF M!FromCents, CurrencyOrNone
      <3> QED
        BY Zenon, <1>3, <2>1, <3>1
    <2>2. ASSUME NEW c \in Ints, NEW m \in M!UnmarshalNumber(Float(c * Scale, 100)), Appends(m)
          PROVE  list' \in Seq(Priced)
      <3>1. m \in Priced
        BY MoneyMakers DEF M!UnmarshalNumber
      <3> QED
        BY <1>3, <2>2, <3>1
    <2>3. ASSUME NEW u \in Ints, Appends(M!ScanInt(u)) PROVE list' \in Seq(Priced)
      <3>1. u * 100 \in Int
        BY DEF Ints, MinInt
      <3>2. WrapProduct(u * 100) \in Ints
        BY <3>1, WrapProductInRange
      <3>3. M!WrapProduct(u * 100) = WrapProduct(u * 100)
        BY DEF M!WrapProduct, WrapProduct, M!MinInt, M!Modulus, MinInt, Modulus
      <3>4. M!ScanInt(u) \in Priced
        BY <3>2, <3>3, MoneyMakers DEF M!ScanInt, M!FromCents
      <3> QED
        BY <1>3, <2>3, <3>4
    <2>4. CASE Appends(M!ScanNull)
      <3>1. 0 \in Ints
        BY DEF Ints, MinInt
      <3>2. M!ScanNull \in Priced
        BY <3>1, MoneyMakers DEF M!ScanNull, M!Zero
      <3> QED
        BY <1>3, <2>4, <3>2
    <2> QED
      BY Zenon, <1>5, <2>1, <2>2, <2>3, <2>4 DEF MoneyMade
  <1>6. CASE MoneyComputed
    <2>1. PICK i \in Line, j \in Line :
         \/ \E r \in {M!Add(list[i], list[j]), M!Subtract(list[i], list[j])} :
                r.ok /\ Replaces(i, r.value)
         \/ \E m \in {M!Negate(list[i]), M!Abs(list[i]), M!Max(list[i], list[j]),
                      M!Min(list[i], list[j])} : Replaces(i, m)
         \/ \E f \in Factors :
               \/ \E m \in M!Multiply(list[i], f) \cup M!Percentage(list[i], f) :
                      Replaces(i, m)
               \/ \E r \in M!Divide(list[i], f) : r.ok /\ Replaces(i, r.value)
      BY <1>6 DEF MoneyComputed
    <2>2. list[i] \in Priced /\ list[j] \in Priced
      BY <1>2
    <2>3. \E x \in Priced : Replaces(i, x)
      BY Zenon, <2>1, <2>2, MoneyOps DEF M!Percentage
    <2> QED
      BY <1>4, <2>3
  <1>7. CASE MoneyStored
    <2>1. PICK i \in Line : \E x : \E cur \in CurrencyOrNone : \E m \in M!NewMoney(x, cur) :
             Replaces(i, m)
      <3>1. \A i \in Line : list[i].currency \in CurrencyOrNone
        BY <1>2 DEF Priced, Moneys
      <3> QED
        BY <1>7, <3>1, MoneyMakers DEF MoneyStored, M!UnmarshalJSON, M!MarshalJSON, M!ScanFloat
    <2>2. \E m \in Priced : Replaces(i, m)
      BY <2>1, MoneyMakers
    <2> QED
      BY <1>4, <2>2
  <1>8. CASE UNCHANGED vars
    BY <1>2, <1>8 DEF vars
  <1> QED
    BY <1>5, <1>6, <1>7, <1>8 DEF Next, QuantityMade, QuantityComputed, QuantityMultiplied,
                                   QuantityStored

\* A permutation of the lines reaches every line.
LEMMA OrderedLines ==
    ASSUME NEW n \in Nat \ {0}, NEW s, NEW p, NEW order, Reorders(order, s, p, n)
    PROVE  /\ Len(order) = n /\ order # <<>>
           /\ \A i \in 1..n : p[i] \in 1..n /\ order[i] = s[p[i]]
           /\ \A i \in 1..n : \E k \in 1..n : s[i] = order[k]
  <1>1. p \in [1..n -> 1..n] /\ \A i \in 1..n : \E k \in 1..n : p[k] = i
    BY Zenon DEF Reorders, Bijection, Surjection
  <1>2. \A i \in 1..n : p[i] \in 1..n /\ order[i] = s[p[i]]
    BY Zenon, <1>1 DEF Reorders
  <1>3. Len(order) = n
    BY DEF Reorders
  <1>4. order # <<>>
    BY <1>3
  <1>5. ASSUME NEW i \in 1..n PROVE \E k \in 1..n : s[i] = order[k]
    <2>1. PICK k \in 1..n : p[k] = i
      BY <1>1
    <2> QED
      BY <1>2, <2>1
  <1> QED
    BY <1>2, <1>3, <1>4, <1>5

\* The sums of a list whose values fit.
LEMMA SumsOfList ==
    ASSUME LedgerInv, MoneyInv PROVE SumsAreExact
  <1> DEFINE number == [i \in Line |-> IF kind = "money" THEN list[i].amount ELSE list[i].value]
             total == Total(number)
             n == Len(list)
  <1> SUFFICES ASSUME list # <<>>, NEW order \in Orders
               PROVE  IF kind = "money"
                      THEN LET r == M!SumMoney(order) IN
                           /\ r.ok <=> \A i, j \in Line : list[i].currency = list[j].currency
                           /\ r.ok /\ total \in Ints => r.value.amount = total
                      ELSE (\A i \in Line : number[i] >= 0) =>
                           LET r == Q!SumQuantities(order) IN
                           /\ r.ok <=> /\ total <= MaxInt
                                       /\ \A i, j \in Line : ~Q!Clash(list[i], list[j])
                           /\ r.ok => r.value.value = total
    BY DEF SumsAreExact
  <1> HIDE DEF Ints, Modulus, MinInt
  <1>1. /\ kind = "money" \/ kind = "quantity"
        /\ kind = "money" => list \in Seq(Moneys)
        /\ kind = "quantity" => list \in Seq(Quantities)
    <2>1. \A s \in Seq(Priced) : s \in Seq(Moneys)
      <3>1. Priced \subseteq Moneys
        BY DEF Priced
      <3> QED
        BY ONLY <3>1
    <2> QED
      BY <2>1 DEF LedgerInv, MoneyInv
  <1>2. n \in Nat \ {0} /\ Line = 1..n
    BY <1>1 DEF Line
  <1>3. \A i \in 1..n : /\ kind = "money" => list[i] \in Moneys
                        /\ kind = "quantity" => list[i] \in Quantities
    BY <1>1, <1>2
  <1>4. PICK p \in Bijection(1..n, 1..n) : Reorders(order, list, p, n)
    BY <1>2 DEF Orders, Reorders
  <1>5. /\ Len(order) = n /\ order # <<>>
        /\ \A i \in 1..n : p[i] \in 1..n /\ order[i] = list[p[i]]
        /\ \A i \in 1..n : \E k \in 1..n : list[i] = order[k]
    <2> HIDE DEF n
    <2> QED
      BY <1>2, <1>4, OrderedLines
  <1>6. number \in [1..n -> Int]
    <2>1. \A i \in 1..n : /\ kind = "money" => list[i].amount \in Ints
                          /\ kind = "quantity" => list[i].value \in Ints
      BY <1>3 DEF Moneys, Quantities
    <2>2. \A x \in Ints : x \in Int
      BY DEF Ints, MinInt
    <2>3. \A i \in 1..n : (IF kind = "money" THEN list[i].amount ELSE list[i].value) \in Int
      BY ONLY <1>1, <2>1, <2>2
    <2> HIDE DEF n
    <2> QED
      BY ONLY <1>2, <2>3
  <1> DEFINE f == [i \in 1..n |-> number[p[i]]]
  <1>7. /\ total \in Int
        /\ \E t : RunningTotal(t, f, n) /\ t[n] = total
    <2> HIDE DEF n, number
    <2> QED
      BY Zenon, <1>2, <1>6, OrderTotal
  <1>8. PICK t : RunningTotal(t, f, n) /\ t[n] = total
    BY Zenon, <1>7
  <1>9. /\ kind = "money" => \A i \in 1..n : f[i] = order[i].amount
        /\ kind = "quantity" => \A i \in 1..n : f[i] = order[i].value
    BY Zenon, <1>2, <1>5
  <1> HIDE DEF n, number, total, f
  <1>10. CASE kind = "money"
    <2> DEFINE r == M!SumMoney(order)
    <2>1. \A i \in 1..n : order[i] \in Moneys
      BY ONLY Zenon, <1>3, <1>5, <1>10
    <2>2. /\ r.ok <=> \A i \in 1..n : order[i].currency = order[1].currency
          /\ r.ok => Represents(r.value.amount, total)
      BY Zenon, <1>2, <1>5, <1>8, <1>9, <1>10, <2>1, SumMoneyIs
    <2>3. r.ok /\ total \in Ints => r.value.amount = total
      BY <2>2, RepresentsExactly
    <2>4. (\A i \in 1..n : order[i].currency = order[1].currency)
             <=> \A i, j \in 1..n : list[i].currency = list[j].currency
      <3>1. 1 \in 1..n
        BY <1>2
      <3>2. ASSUME \A i \in 1..n : order[i].currency = order[1].currency,
                   NEW i \in 1..n, NEW j \in 1..n
            PROVE  list[i].currency = list[j].currency
        <4>1. PICK k \in 1..n : list[i] = order[k]
          BY <1>5
        <4>2. PICK l \in 1..n : list[j] = order[l]
          BY <1>5
        <4> QED
          BY ONLY <3>2, <4>1, <4>2
      <3>3. ASSUME \A i, j \in 1..n : list[i].currency = list[j].currency, NEW i \in 1..n
            PROVE  order[i].currency = order[1].currency
        <4>1. /\ p[i] \in 1..n /\ order[i] = list[p[i]]
              /\ p[1] \in 1..n /\ order[1] = list[p[1]]
          BY <1>5, <3>1
        <4>2. list[p[i]].currency = list[p[1]].currency
          BY ONLY <3>3, <4>1
        <4> QED
          BY ONLY <4>1, <4>2
      <3> QED
        BY ONLY <3>2, <3>3
    <2> QED
      BY <1>2, <1>10, <2>2, <2>3, <2>4
  <1>11. CASE kind = "quantity" /\ \A i \in 1..n : number[i] >= 0
    <2> DEFINE r == Q!SumQuantities(order)
    <2>1. \A i \in 1..n : list[i] \in Naturals0
      <3>1. \A i \in 1..n : list[i].value >= 0
        BY <1>2, <1>11 DEF number
      <3> QED
        BY ONLY <1>3, <1>11, <3>1 DEF Naturals0
    <2>2. \A i \in 1..n : order[i] \in Naturals0
      BY Zenon, <1>5, <2>1
    <2>3. /\ r.ok <=> total <= MaxInt /\ NoClash(order, n)
          /\ r.ok => r.value.value = total
      <3>1. n \in Nat \ {0} /\ Len(order) = n /\ order # <<>> /\ RunningTotal(t, f, n)
        BY <1>2, <1>5, <1>8
      <3>2. \A i \in 1..n : f[i] = order[i].value
        BY <1>9, <1>11
      <3>3. /\ r.ok <=> t[n] <= MaxInt /\ NoClash(order, n)
            /\ r.ok => r.value.value = t[n]
        BY ONLY <2>2, <3>1, <3>2, SumQuantitiesIs
      <3> QED
        BY ONLY <1>8, <3>3
    <2>4. NoClash(order, n) <=> \A i, j \in 1..n : ~Q!Clash(list[i], list[j])
      <3>1. ASSUME NoClash(order, n), NEW i \in 1..n, NEW j \in 1..n
            PROVE  ~Q!Clash(list[i], list[j])
        <4>1. PICK k \in 1..n : list[i] = order[k]
          BY <1>5
        <4>2. PICK l \in 1..n : list[j] = order[l]
          BY <1>5
        <4> QED
          BY ONLY <3>1, <4>1, <4>2 DEF NoClash
      <3>2. ASSUME \A i, j \in 1..n : ~Q!Clash(list[i], list[j]) PROVE NoClash(order, n)
        <4> SUFFICES ASSUME NEW i \in 1..n, NEW j \in 1..n PROVE ~Q!Clash(order[i], order[j])
          BY DEF NoClash
        <4>1. /\ p[i] \in 1..n /\ order[i] = list[p[i]]
              /\ p[j] \in 1..n /\ order[j] = list[p[j]]
          BY <1>5
        <4>2. ~Q!Clash(list[p[i]], list[p[j]])
          BY ONLY <3>2, <4>1
        <4> QED
          BY ONLY <4>1, <4>2
      <3> QED
        BY ONLY <3>1, <3>2
    <2> QED
      BY <1>2, <1>11, <2>3, <2>4
  <1> QED
    BY <1>1, <1>2, <1>10, <1>11

LEMMA LedgerInvariant == Spec => [](LedgerInv /\ MoneyInv)
  <1>1. Init => LedgerInv /\ MoneyInv
    <2> SUFFICES ASSUME Init PROVE LedgerInv /\ MoneyInv
      OBVIOUS
    <2>1. LedgerInv
      BY LedgerInit
    <2>2. MoneyInv
      BY DEF Init, MoneyInv
    <2> QED
      BY <2>1, <2>2
  <1>2. LedgerInv /\ MoneyInv /\ [Next]_vars => (LedgerInv /\ MoneyInv)'
    BY LedgerNext, MoneyNext
  <1> QED
    BY <1>1, <1>2, PTL DEF Spec

\* SumMoney and SumQuantities, for any list and any order of it: SumMoney
\* fails for two currencies only and returns an exact total that fits, even
\* if a partial sum wrapped around; SumQuantities fails exactly when units
\* clash or the total does not fit.
THEOREM SumsAreExactHolds == Spec => []SumsAreExact
  <1>1. LedgerInv /\ MoneyInv => SumsAreExact
    BY SumsOfList
  <1> QED
    BY <1>1, LedgerInvariant, PTL

\* NewMoney finds the cents of an amount that Amount divided by 100.
LEMMA AmountReturns ==
    ASSUME NEW c \in Ints, 4 * Magnitude(c) < Precision, NEW m, m.amount = c, NEW cur
    PROVE  M!NewMoney(M!Amount(m), cur) = {M!Money(c, M!OrDefault(cur))}
  <1>1. M!Amount(m) = Float(ToFloat(c), 100)
    BY Zenon, SameFloats DEF M!Amount
  <1>2. M!Round(M!Float(M!Amount(m) * 100, 1)) = c
    <2>1. c \in Int
      OBVIOUS
    <2>2. Round(Float(Float(ToFloat(c), 100) * 100, 1)) = c
      BY <2>1, CentsReturn
    <2> QED
      BY Zenon, <1>1, <2>2, SameFloats
  <1>3. M!FromFloat(c) = {c}
    <2> HIDE DEF Ints, MinInt
    <2> QED
      BY SameIntegers DEF FromFloat
  <1> HIDE DEF Ints, MinInt
  <1> QED
    BY ONLY Zenon, <1>2, <1>3 DEF M!NewMoney

\* MarshalJSON and UnmarshalJSON, Value and Scan: in every list of money, an
\* amount below a quarter of what float64 counts exactly is read back as it
\* was written.  Each of the two roundings is off by one part in Precision,
\* together by less than half a cent, and math.Round finds the cents again.
THEOREM StoredMoneyReturnsHolds == Spec => []StoredMoneyReturns
  <1>1. ASSUME MoneyInv PROVE StoredMoneyReturns
    <2> HIDE DEF Ints, MinInt
    <2> SUFFICES ASSUME kind = "money", NEW i \in Line,
                        4 * Magnitude(list[i].amount) < Precision
                 PROVE  /\ M!UnmarshalJSON(M!MarshalJSON(list[i])) = {list[i]}
                        /\ M!ScanFloat(M!Value(list[i])) = {M!FromCents(list[i].amount, "")}
      BY DEF StoredMoneyReturns
    <2> DEFINE m == list[i]
    <2>1. m \in Priced
      BY <1>1 DEF MoneyInv, Line
    <2> HIDE DEF m
    <2>2. m.amount \in Ints /\ m.currency # "" /\ m = M!Money(m.amount, m.currency)
      BY <2>1 DEF Priced, Moneys, M!Money
    <2>3. \A cur : M!NewMoney(M!Amount(m), cur) = {M!Money(m.amount, M!OrDefault(cur))}
      BY <2>2, AmountReturns DEF m
    <2>4. M!UnmarshalJSON(M!MarshalJSON(m)) = {m}
      <3>1. M!OrDefault(m.currency) = m.currency
        BY <2>2 DEF M!OrDefault
      <3>2. M!UnmarshalJSON(M!MarshalJSON(m)) = M!NewMoney(M!Amount(m), m.currency)
        BY DEF M!UnmarshalJSON, M!MarshalJSON
      <3> QED
        BY ONLY <2>2, <2>3, <3>1, <3>2, Zenon
    <2>5. M!ScanFloat(M!Value(m)) = {M!FromCents(m.amount, "")}
      <3>1. M!OrDefault(DefaultCurrency) = DefaultCurrency /\ M!OrDefault("") = DefaultCurrency
        BY DEF M!OrDefault
      <3>2. M!ScanFloat(M!Value(m)) = M!NewMoney(M!Amount(m), DefaultCurrency)
        BY DEF M!ScanFloat, M!Value
      <3> QED
        BY ONLY <2>3, <3>1, <3>2, Zenon DEF M!FromCents
    <2> QED
      BY <2>4, <2>5 DEF m
  <1> QED
    BY <1>1, LedgerInvariant, PTL
=============================================================================
