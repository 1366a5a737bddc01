----------------------------- MODULE SumTheorems -----------------------------
(***************************************************************************)
(* What the sums of module Sums amount to, for sequences of any length.    *)
(* Induction over the length is by the least counterexample.               *)
(***************************************************************************)
EXTENDS Sums, WellFoundedInduction, FiniteSetTheorems, TLAPS

\* A set of natural numbers that is not empty has a least element.
LEMMA LeastPosition ==
  ASSUME NEW S \in SUBSET Nat, S # {}
  PROVE  \E i \in S : \A k \in S : i <= k
<1>1. PICK i \in S : \A k \in S : <<k, i>> \notin OpToRel(<, Nat)
  BY NatLessThanWellFounded, WFMin, Zenon
<1>2. \A k \in S : ~(k < i)
  BY <1>1, Zenon DEF OpToRel
<1> QED  BY <1>2

\* A set of lengths that holds 0, and with a length the next one, holds all.
LEMMA LengthInduction ==
  ASSUME NEW n \in Nat, NEW S, 0 \in S,
         \A k \in 1..n : k - 1 \in S => k \in S
  PROVE  \A k \in 0..n : k \in S
<1> DEFINE Bad == {k \in 0..n : k \notin S}
<1> SUFFICES ASSUME Bad # {}  PROVE FALSE
  OBVIOUS
<1>1. PICK i \in Bad : \A k \in Bad : i <= k
  <2>1. Bad \in SUBSET Nat  OBVIOUS
  <2> HIDE DEF Bad
  <2> QED  BY <2>1, LeastPosition
<1>2. i \in 1..n
  BY <1>1
<1>3. i - 1 \notin Bad
  BY <1>1, <1>2
<1> QED  BY <1>1, <1>2, <1>3

-----------------------------------------------------------------------------
(* The function behind a sum *)

Totals(f, n, t) == /\ t \in [0..n -> Int]
                   /\ t[0] = 0
                   /\ \A k \in 1..n : t[k] = t[k - 1] + f[k]

\* The partial sums of a sequence of numbers exist.
LEMMA TotalsExist ==
  ASSUME NEW n \in Nat, NEW f, \A k \in 1..n : f[k] \in Int
  PROVE  \E t : Totals(f, n, t)
<1> DEFINE S == {m \in 0..n : \E t : Totals(f, m, t)}
<1>1. 0 \in S
  <2>1. Totals(f, 0, [k \in 0..0 |-> 0])
    BY DEF Totals
  <2> QED  BY <2>1
<1>2. ASSUME NEW m \in 1..n, m - 1 \in S  PROVE m \in S
  <2>1. PICK t : Totals(f, m - 1, t)
    BY <1>2
  <2> DEFINE u == [k \in 0..m |-> IF k = m THEN t[m - 1] + f[m] ELSE t[k]]
  <2>2. t[m - 1] + f[m] \in Int
    BY <2>1 DEF Totals
  <2>3. u \in [0..m -> Int] /\ u[0] = 0
    BY <2>1, <2>2 DEF Totals
  <2>4. ASSUME NEW k \in 1..m  PROVE u[k] = u[k - 1] + f[k]
    <3>1. k - 1 \in 0..m /\ k - 1 # m /\ k \in 0..m
      OBVIOUS
    <3>2. u[k - 1] = t[k - 1]
      BY <3>1
    <3>3. CASE k = m
      BY <3>2, <3>3
    <3>4. CASE k # m
      BY <2>1, <3>1, <3>2, <3>4 DEF Totals
    <3> QED  BY <3>3, <3>4
  <2>5. Totals(f, m, u)
    BY <2>3, <2>4 DEF Totals
  <2> QED  BY <2>5
<1>3. \A k \in 0..n : k \in S
  <2> HIDE DEF S
  <2> QED  BY <1>1, <1>2, LengthInduction
<1> QED  BY <1>3

\* They agree, however far each of two such functions goes.
LEMMA TotalsAgree ==
  ASSUME NEW n \in Nat, NEW m \in 0..n, NEW f, NEW t, NEW u,
         Totals(f, n, t), Totals(f, m, u)
  PROVE  \A k \in 0..m : t[k] = u[k]
<1> DEFINE S == {k \in 0..m : t[k] = u[k]}
<1>1. 0 \in S
  BY DEF Totals
<1>2. ASSUME NEW k \in 1..m, k - 1 \in S  PROVE k \in S
  BY <1>2 DEF Totals
<1>3. \A k \in 0..m : k \in S
  <2> HIDE DEF S
  <2> QED  BY <1>1, <1>2, LengthInduction
<1> QED  BY <1>3

\* The recursive definition of a sum yields the last of the partial sums.
LEMMA SumIsTotal ==
  ASSUME NEW n \in Nat, NEW f, NEW t, Totals(f, n, t)
  PROVE  SumTo(f, n) = t[n]
<1> DEFINE P(g) == g = [k \in 0..n |-> IF k = 0 THEN 0 ELSE g[k - 1] + f[k]]
           c == CHOOSE g : P(g)
<1>1. SumTo(f, n) = c[n]
  BY DEF SumTo
<1>2. P(t)
  BY DEF Totals
<1>3. P(c)
  BY <1>2
<1> HIDE DEF c
<1> DEFINE S == {k \in 0..n : c[k] = t[k]}
<1>4. 0 \in S
  BY <1>3 DEF Totals
<1>5. ASSUME NEW k \in 1..n, k - 1 \in S  PROVE k \in S
  <2>1. k \in 0..n /\ k # 0
    OBVIOUS
  <2>2. c[k] = c[k - 1] + f[k]
    BY <1>3, <2>1
  <2>3. t[k] = t[k - 1] + f[k]
    BY DEF Totals
  <2> QED  BY <2>1, <2>2, <2>3, <1>5
<1>6. \A k \in 0..n : k \in S
  <2> HIDE DEF S
  <2> QED  BY <1>4, <1>5, LengthInduction
<1> QED  BY <1>1, <1>6

-----------------------------------------------------------------------------
(* The laws of sums *)

\* A sum of no entries is 0; one more entry adds its value.
LEMMA SumSteps ==
  ASSUME NEW n \in Nat, NEW f, \A k \in 1..n : f[k] \in Int
  PROVE  /\ SumTo(f, 0) = 0
         /\ \A k \in 0..n : SumTo(f, k) \in Int
         /\ \A k \in 1..n : SumTo(f, k) = SumTo(f, k - 1) + f[k]
<1>1. PICK t : Totals(f, n, t)
  BY TotalsExist
<1>2. ASSUME NEW m \in 0..n  PROVE SumTo(f, m) = t[m]
  <2>1. \A k \in 1..m : f[k] \in Int
    OBVIOUS
  <2>2. PICK u : Totals(f, m, u)
    BY <2>1, TotalsExist
  <2> QED  BY <1>1, <2>2, TotalsAgree, SumIsTotal
<1> QED  BY <1>1, <1>2 DEF Totals

\* A sum depends on the entries summed only.
LEMMA SumSame ==
  ASSUME NEW n \in Nat, NEW f, NEW g, \A k \in 1..n : f[k] \in Int /\ g[k] = f[k]
  PROVE  SumTo(g, n) = SumTo(f, n)
<1>1. PICK t : Totals(f, n, t)
  BY TotalsExist
<1>2. Totals(g, n, t)
  BY <1>1 DEF Totals
<1> QED  BY <1>1, <1>2, SumIsTotal

\* Sums add up entry by entry.
LEMMA SumPlus ==
  ASSUME NEW n \in Nat, NEW f, NEW g, NEW h,
         \A k \in 1..n : f[k] \in Int /\ g[k] \in Int /\ h[k] = f[k] + g[k]
  PROVE  SumTo(h, n) = SumTo(f, n) + SumTo(g, n)
<1> DEFINE S == {k \in 0..n : SumTo(h, k) = SumTo(f, k) + SumTo(g, k)}
<1>0. /\ \A k \in 1..n : f[k] \in Int
      /\ \A k \in 1..n : g[k] \in Int
      /\ \A k \in 1..n : h[k] \in Int
  OBVIOUS
<1>1. 0 \in S
  BY <1>0, SumSteps
<1>2. ASSUME NEW k \in 1..n, k - 1 \in S  PROVE k \in S
  <2>1. /\ SumTo(f, k) = SumTo(f, k - 1) + f[k] /\ SumTo(f, k - 1) \in Int
        /\ SumTo(g, k) = SumTo(g, k - 1) + g[k] /\ SumTo(g, k - 1) \in Int
        /\ SumTo(h, k) = SumTo(h, k - 1) + h[k]
    BY <1>0, SumSteps
  <2> QED  BY <1>2, <2>1
<1>3. \A k \in 0..n : k \in S
  <2> HIDE DEF S
  <2> QED  BY <1>1, <1>2, LengthInduction
<1> QED  BY <1>3

\* No entry larger, no sum larger.
LEMMA SumMonotone ==
  ASSUME NEW n \in Nat, NEW f, NEW g,
         \A k \in 1..n : f[k] \in Int /\ g[k] \in Int /\ f[k] <= g[k]
  PROVE  SumTo(f, n) <= SumTo(g, n)
<1> DEFINE S == {k \in 0..n : SumTo(f, k) <= SumTo(g, k)}
<1>0. \A k \in 1..n : f[k] \in Int  OBVIOUS
<1>00. \A k \in 1..n : g[k] \in Int  OBVIOUS
<1>1. 0 \in S
  BY <1>0, <1>00, SumSteps
<1>2. ASSUME NEW k \in 1..n, k - 1 \in S  PROVE k \in S
  <2>1. /\ SumTo(f, k) = SumTo(f, k - 1) + f[k] /\ SumTo(f, k - 1) \in Int
        /\ SumTo(g, k) = SumTo(g, k - 1) + g[k] /\ SumTo(g, k - 1) \in Int
    BY <1>0, <1>00, SumSteps
  <2> QED  BY <1>2, <2>1
<1>3. \A k \in 0..n : k \in S
  <2> HIDE DEF S
  <2> QED  BY <1>1, <1>2, LengthInduction
<1> QED  BY <1>3

\* A sum of zeros is 0.
LEMMA SumZero ==
  ASSUME NEW n \in Nat, NEW f, \A k \in 1..n : f[k] = 0
  PROVE  SumTo(f, n) = 0
<1>1. Totals(f, n, [k \in 0..n |-> 0])
  BY DEF Totals
<1> QED  BY <1>1, SumIsTotal

\* A sum of natural numbers is one.
LEMMA SumNat ==
  ASSUME NEW n \in Nat, NEW f, \A k \in 1..n : f[k] \in Nat
  PROVE  SumTo(f, n) \in Nat
<1> DEFINE g == [k \in 1..n |-> 0]
<1>1. SumTo(g, n) = 0
  BY SumZero
<1>2. SumTo(g, n) <= SumTo(f, n)
  <2>1. \A k \in 1..n : g[k] \in Int /\ f[k] \in Int /\ g[k] <= f[k]
    OBVIOUS
  <2> HIDE DEF g
  <2> QED  BY <2>1, SumMonotone
<1>3. SumTo(f, n) \in Int
  BY SumSteps
<1> HIDE DEF g
<1> QED  BY <1>1, <1>2, <1>3

\* A sum of zeros and one entry is that entry.
LEMMA SumSingle ==
  ASSUME NEW n \in Nat, NEW f, NEW p \in 1..n, f[p] \in Int,
         \A k \in 1..n : k # p => f[k] = 0
  PROVE  SumTo(f, n) = f[p]
<1>1. Totals(f, n, [k \in 0..n |-> IF k < p THEN 0 ELSE f[p]])
  BY DEF Totals
<1> QED  BY <1>1, SumIsTotal

\* The n entries of f and then the m entries of g are the first entries of h.
Joined(f, n, g, m, h) ==
    /\ n \in Nat /\ m \in Nat
    /\ \A k \in 1..n : f[k] \in Int /\ h[k] = f[k]
    /\ \A k \in 1..m : g[k] \in Int /\ h[n + k] = g[k]

\* The sum over a concatenation is the sum of its parts' sums.
LEMMA SumJoin ==
  ASSUME NEW n, NEW m, NEW f, NEW g, NEW h, Joined(f, n, g, m, h)
  PROVE  SumTo(h, n + m) = SumTo(f, n) + SumTo(g, m)
<1>0. /\ n \in Nat /\ m \in Nat
      /\ \A k \in 1..n : f[k] \in Int /\ h[k] = f[k]
      /\ \A k \in 1..m : g[k] \in Int /\ h[n + k] = g[k]
  BY DEF Joined
<1>1. PICK t : Totals(f, n, t)
  BY <1>0, TotalsExist
<1>2. PICK u : Totals(g, m, u)
  BY <1>0, TotalsExist
<1> DEFINE v == [k \in 0..(n + m) |-> IF k <= n THEN t[k] ELSE t[n] + u[k - n]]
<1>3. v \in [0..(n + m) -> Int] /\ v[0] = 0
  BY <1>0, <1>1, <1>2 DEF Totals
<1>4. ASSUME NEW k \in 1..(n + m)  PROVE v[k] = v[k - 1] + h[k]
  <2>0. k \in 0..(n + m) /\ k - 1 \in 0..(n + m)
    BY <1>0
  <2>1. CASE k <= n
    BY <1>0, <1>1, <2>0, <2>1 DEF Totals
  <2>2. CASE k = n + 1
    <3>1. u[1] = 0 + g[1] /\ h[n + 1] = g[1] /\ g[1] \in Int
      BY <1>0, <1>2, <2>2 DEF Totals
    <3>2. v[k] = t[n] + u[1] /\ v[k - 1] = t[n] /\ t[n] \in Int
      BY <1>0, <1>1, <2>0, <2>2 DEF Totals
    <3> QED  BY <3>1, <3>2, <2>2
  <2>3. CASE k > n + 1
    <3> DEFINE j == k - n
    <3>1. j \in 1..m /\ j - 1 \in 1..m /\ n + j = k /\ (k - 1) - n = j - 1
      BY <1>0, <2>3
    <3>2. u[j] = u[j - 1] + g[j] /\ h[n + j] = g[j] /\ g[j] \in Int /\ u[j - 1] \in Int
      BY <1>0, <1>2, <3>1 DEF Totals
    <3>3. v[k] = t[n] + u[j] /\ v[k - 1] = t[n] + u[j - 1] /\ t[n] \in Int
      BY <1>0, <1>1, <2>0, <2>3, <3>1 DEF Totals
    <3> HIDE DEF j
    <3> QED  BY <3>1, <3>2, <3>3
  <2> QED  BY <1>0, <2>1, <2>2, <2>3
<1>5. Totals(h, n + m, v)
  BY <1>0, <1>3, <1>4 DEF Totals
<1>6. SumTo(h, n + m) = v[n + m]
  BY <1>0, <1>5, SumIsTotal
<1>7. v[n + m] = t[n] + u[m]
  <2>1. t[n] \in Int /\ u[0] = 0 /\ n + m \in 0..(n + m)
    BY <1>0, <1>1, <1>2 DEF Totals
  <2>2. CASE m = 0
    BY <1>0, <1>1, <1>2, <2>1, <2>2 DEF Totals
  <2>3. CASE m # 0
    <3>1. ~(n + m <= n) /\ (n + m) - n = m
      BY <1>0, <2>3
    <3> QED  BY <2>1, <3>1
  <2> QED  BY <2>2, <2>3
<1> QED  BY <1>0, <1>1, <1>2, <1>6, <1>7, SumIsTotal

\* The n numbers f have keys, each of them but zeros one of the c different ones
\* of e.
Keyed(f, key, n, e, c) ==
    /\ n \in Nat /\ c \in Nat
    /\ \A k \in 1..n : f[k] \in Int
    /\ \A i, j \in 1..c : e[i] = e[j] => i = j
    /\ \A k \in 1..n : f[k] = 0 \/ \E i \in 1..c : e[i] = key[k]

\* The sum for each key.
SumsByKey(f, key, n, e, c) ==
    [i \in 1..c |-> SumTo([k \in 1..n |-> IF key[k] = e[i] THEN f[k] ELSE 0], n)]

\* Numbers summed by their key, and those sums over all keys, are summed once.
LEMMA SumByKey ==
  ASSUME NEW n, NEW f, NEW key, NEW c, NEW e, Keyed(f, key, n, e, c)
  PROVE  SumTo(SumsByKey(f, key, n, e, c), c) = SumTo(f, n)
<1>0. /\ n \in Nat /\ c \in Nat
      /\ \A k \in 1..n : f[k] \in Int
      /\ \A i, j \in 1..c : e[i] = e[j] => i = j
      /\ \A k \in 1..n : f[k] = 0 \/ \E i \in 1..c : e[i] = key[k]
  BY DEF Keyed
<1> DEFINE part(i) == [k \in 1..n |-> IF key[k] = e[i] THEN f[k] ELSE 0]
           row(m) == [i \in 1..c |-> SumTo(part(i), m)]
           S == {m \in 0..n : SumTo(row(m), c) = SumTo(f, m)}
<1>1. ASSUME NEW i \in 1..c
      PROVE  /\ \A k \in 1..n : part(i)[k] \in Int
             /\ SumTo(part(i), 0) = 0
             /\ \A k \in 0..n : SumTo(part(i), k) \in Int
             /\ \A k \in 1..n : SumTo(part(i), k) = SumTo(part(i), k - 1) + part(i)[k]
  <2>1. \A k \in 1..n : part(i)[k] \in Int
    BY <1>0
  <2> HIDE DEF part
  <2> QED  BY <1>0, <2>1, SumSteps
<1>2. 0 \in S
  <2>1. \A i \in 1..c : row(0)[i] = 0
    BY <1>1
  <2> HIDE DEF row, part
  <2>2. SumTo(row(0), c) = 0
    BY <1>0, <2>1, SumZero
  <2>3. SumTo(f, 0) = 0
    BY <1>0, SumSteps
  <2> QED  BY <1>0, <2>2, <2>3
<1>3. ASSUME NEW m \in 1..n, m - 1 \in S  PROVE m \in S
  <2> DEFINE new == [i \in 1..c |-> part(i)[m]]
  <2>0. m \in 0..n /\ m - 1 \in 0..n
    BY <1>0
  <2>1. \A i \in 1..c : /\ row(m - 1)[i] \in Int /\ new[i] \in Int
                       /\ row(m)[i] = row(m - 1)[i] + new[i]
    <3> SUFFICES ASSUME NEW i \in 1..c
                 PROVE  /\ row(m - 1)[i] \in Int /\ new[i] \in Int
                        /\ row(m)[i] = row(m - 1)[i] + new[i]
      OBVIOUS
    <3>1. /\ row(m)[i] = SumTo(part(i), m) /\ row(m - 1)[i] = SumTo(part(i), m - 1)
          /\ new[i] = part(i)[m]
      OBVIOUS
    <3> HIDE DEF row, part, new
    <3> QED  BY <3>1, <1>1, <2>0
  <2>2. \A p \in 1..c : e[p] = key[m] =>
           new[p] = f[m] /\ \A i \in 1..c : i # p => new[i] = 0
    BY <1>0
  <2>3. f[m] = 0 => \A i \in 1..c : new[i] = 0
    OBVIOUS
  <2>4. SumTo(row(m - 1), c) = SumTo(f, m - 1)
    BY <1>3
  <2> HIDE DEF row, part, new
  <2>5. SumTo(f, m) = SumTo(f, m - 1) + f[m] /\ f[m] \in Int
    <3>1. n \in Nat /\ \A k \in 1..n : f[k] \in Int
      BY <1>0
    <3>2. \A k \in 1..n : SumTo(f, k) = SumTo(f, k - 1) + f[k]
      BY <3>1, SumSteps
    <3> QED  BY <3>1, <3>2
  <2>6. SumTo(new, c) = f[m]
    <3>1. CASE f[m] = 0
      BY <1>0, <2>3, <3>1, SumZero
    <3>2. ASSUME NEW p \in 1..c, e[p] = key[m]  PROVE SumTo(new, c) = f[m]
      BY <1>0, <2>2, <2>5, <3>2, SumSingle
    <3> QED  BY <1>0, <3>1, <3>2
  <2>7. SumTo(row(m), c) = SumTo(row(m - 1), c) + SumTo(new, c)
    BY <1>0, <2>1, SumPlus
  <2> QED  BY <1>0, <2>0, <2>4, <2>5, <2>6, <2>7
<1>4. \A m \in 0..n : m \in S
  <2> HIDE DEF S
  <2> QED  BY <1>0, <1>2, <1>3, LengthInduction
<1>5. n \in S
  <2>1. n \in 0..n
    BY <1>0
  <2> HIDE DEF S
  <2> QED  BY <1>4, <2>1
<1>6. SumsByKey(f, key, n, e, c) = row(n)
  BY DEF SumsByKey
<1> QED  BY <1>5, <1>6

\* A term of a sum of natural numbers is no greater than the sum.
LEMMA SumTerm ==
  ASSUME NEW n \in Nat, NEW f, \A k \in 1..n : f[k] \in Nat, NEW p \in 1..n
  PROVE  f[p] <= SumTo(f, n)
<1> DEFINE g == [k \in 1..n |-> IF k = p THEN f[p] ELSE 0]
<1>1. /\ \A k \in 1..n : g[k] \in Int /\ f[k] \in Int /\ g[k] <= f[k]
      /\ \A k \in 1..n : k # p => g[k] = 0
      /\ g[p] \in Int /\ g[p] = f[p]
  OBVIOUS
<1> HIDE DEF g
<1>2. SumTo(g, n) <= SumTo(f, n)
  BY <1>1, SumMonotone
<1>3. SumTo(g, n) = g[p]
  BY <1>1, SumSingle
<1> QED  BY <1>1, <1>2, <1>3

\* A common factor may be taken out of a sum.
LEMMA SumScaled ==
  ASSUME NEW n \in Nat, NEW a \in Int, NEW f, NEW g,
         \A k \in 1..n : f[k] \in Int /\ g[k] = a * f[k]
  PROVE  SumTo(g, n) = a * SumTo(f, n)
<1> DEFINE S == {k \in 0..n : SumTo(g, k) = a * SumTo(f, k)}
<1>1. /\ SumTo(f, 0) = 0
      /\ \A k \in 0..n : SumTo(f, k) \in Int
      /\ \A k \in 1..n : SumTo(f, k) = SumTo(f, k - 1) + f[k]
  BY SumSteps
<1>2. /\ SumTo(g, 0) = 0
      /\ \A k \in 1..n : SumTo(g, k) = SumTo(g, k - 1) + g[k]
  <2>1. \A k \in 1..n : g[k] \in Int
    OBVIOUS
  <2> QED  BY <2>1, SumSteps
<1>3. 0 \in S
  BY <1>1, <1>2
<1>4. ASSUME NEW k \in 1..n, k - 1 \in S  PROVE k \in S
  <2>1. /\ SumTo(g, k) = a * SumTo(f, k - 1) + a * f[k]
        /\ SumTo(f, k - 1) \in Int /\ f[k] \in Int
        /\ SumTo(f, k) = SumTo(f, k - 1) + f[k]
    <3>1. k - 1 \in 0..n
      OBVIOUS
    <3> QED  BY <1>1, <1>2, <1>4, <3>1
  <2>2. \A x, y \in Int : a * (x + y) = a * x + a * y
    OBVIOUS
  <2>3. SumTo(g, k) = a * SumTo(f, k)
    BY <2>1, <2>2
  <2> QED  BY <2>3
<1>5. \A k \in 0..n : k \in S
  <2> HIDE DEF S
  <2> QED  BY <1>3, <1>4, LengthInduction
<1> QED  BY <1>5

\* A mean of numbers with weights, some of them positive, is at least one of the
\* numbers that have weight, and at most one.
LEMMA WeightedMean ==
  ASSUME NEW n \in Nat, NEW c, NEW p, NEW x,
         \A k \in 1..n : /\ c[k] \in Nat /\ p[k] \in Int
                         /\ c[k] = 0 => p[k] = 0
                         /\ c[k] > 0 => x[k] \in Int /\ p[k] = x[k] * c[k],
         SumTo(c, n) > 0
  PROVE  /\ \E k \in 1..n : c[k] > 0 /\ x[k] * SumTo(c, n) <= SumTo(p, n)
         /\ \E k \in 1..n : c[k] > 0 /\ x[k] * SumTo(c, n) >= SumTo(p, n)
<1> DEFINE W == SumTo(c, n)
           D == SumTo(p, n)
<1>1. W \in Int /\ D \in Int /\ W > 0
  BY SumSteps
<1> HIDE DEF W, D
<1>2. ASSUME NEW b \in Int
      PROVE  /\ SumTo([k \in 1..n |-> b * c[k]], n) = b * W
             /\ SumTo([k \in 1..n |-> W * p[k]], n) = W * D
             /\ \A k \in 1..n : b * c[k] \in Int /\ W * p[k] \in Int
  <2> DEFINE g == [k \in 1..n |-> b * c[k]]
             h == [k \in 1..n |-> W * p[k]]
  <2>1. \A k \in 1..n : c[k] \in Int /\ g[k] = b * c[k] /\ p[k] \in Int /\ h[k] = W * p[k]
    OBVIOUS
  <2>2. \A i, j \in Int : i * j \in Int
    OBVIOUS
  <2>3. \A k \in 1..n : b * c[k] \in Int /\ W * p[k] \in Int
    BY <1>1, <2>1, <2>2
  <2> HIDE DEF g, h
  <2>4. SumTo(g, n) = b * W
    BY <2>1, SumScaled DEF W
  <2>5. SumTo(h, n) = W * D
    BY <1>1, <2>1, SumScaled DEF D
  <2> QED  BY <2>3, <2>4, <2>5 DEF g, h
<1>3. ASSUME \A k \in 1..n : c[k] > 0 => ~ x[k] * W <= D  PROVE FALSE
  <2> DEFINE b == D + 1
             g == [k \in 1..n |-> b * c[k]]
             h == [k \in 1..n |-> W * p[k]]
  <2>1. b \in Int
    BY <1>1
  <2>2. ASSUME NEW k \in 1..n  PROVE g[k] <= h[k]
    <3>1. CASE c[k] = 0
      BY <1>1, <2>1, <3>1
    <3>2. CASE c[k] > 0
      <4>1. x[k] \in Int /\ p[k] = x[k] * c[k] /\ c[k] \in Nat
        BY <3>2
      <4>2. b <= x[k] * W
        <5>1. \A i, j \in Int : i * j \in Int
          OBVIOUS
        <5>2. x[k] * W \in Int /\ ~ x[k] * W <= D
          BY <1>1, <1>3, <3>2, <4>1, <5>1
        <5> QED  BY <1>1, <5>2
      <4>3. \A i, j \in Int, m \in Nat : i <= j => i * m <= j * m
        BY SMT
      <4>4. b * c[k] <= (x[k] * W) * c[k]
        <5>1. \A i, j \in Int : i * j \in Int
          OBVIOUS
        <5>2. x[k] * W \in Int
          BY <1>1, <4>1, <5>1
        <5> DEFINE y == x[k] * W
        <5>3. y \in Int /\ b <= y
          BY <4>2, <5>2
        <5> HIDE DEF y, b
        <5>4. b * c[k] <= y * c[k]
          BY <2>1, <4>1, <4>3, <5>3
        <5> QED  BY <5>4 DEF y
      <4>5. (x[k] * W) * c[k] = W * p[k]
        <5>1. \A i, j, m \in Int : (i * j) * m = j * (i * m)
          BY SMT
        <5> QED  BY <1>1, <4>1, <5>1
      <4> QED  BY <4>4, <4>5
    <3> QED  BY <3>1, <3>2
  <2>3. SumTo(g, n) <= SumTo(h, n)
    <3>1. \A k \in 1..n : g[k] \in Int /\ h[k] \in Int
      BY <1>2, <2>1
    <3> HIDE DEF g, h
    <3> QED  BY <2>2, <3>1, SumMonotone
  <2>4. b * W <= W * D
    <3> HIDE DEF b
    <3> QED  BY <1>2, <2>1, <2>3
  <2>5. \A i, j \in Int : j > 0 => ~ (i + 1) * j <= j * i
    BY SMT
  <2> QED  BY <1>1, <2>4, <2>5
<1>4. ASSUME \A k \in 1..n : c[k] > 0 => ~ x[k] * W >= D  PROVE FALSE
  <2> DEFINE b == D - 1
             g == [k \in 1..n |-> b * c[k]]
             h == [k \in 1..n |-> W * p[k]]
  <2>1. b \in Int
    BY <1>1
  <2>2. ASSUME NEW k \in 1..n  PROVE h[k] <= g[k]
    <3>1. CASE c[k] = 0
      BY <1>1, <2>1, <3>1
    <3>2. CASE c[k] > 0
      <4>1. x[k] \in Int /\ p[k] = x[k] * c[k] /\ c[k] \in Nat
        BY <3>2
      <4>2. x[k] * W \in Int /\ x[k] * W <= b
        <5>1. \A i, j \in Int : i * j \in Int
          OBVIOUS
        <5>2. x[k] * W \in Int /\ ~ x[k] * W >= D
          BY <1>1, <1>4, <3>2, <4>1, <5>1
        <5> QED  BY <1>1, <5>2
      <4>3. \A i, j \in Int, m \in Nat : i <= j => i * m <= j * m
        BY SMT
      <4>4. (x[k] * W) * c[k] <= b * c[k]
        <5> DEFINE y == x[k] * W
        <5>1. y \in Int /\ y <= b
          BY <4>2
        <5> HIDE DEF y, b
        <5>2. y * c[k] <= b * c[k]
          BY <2>1, <4>1, <4>3, <5>1
        <5> QED  BY <5>2 DEF y
      <4>5. (x[k] * W) * c[k] = W * p[k]
        <5>1. \A i, j, m \in Int : (i * j) * m = j * (i * m)
          BY SMT
        <5> QED  BY <1>1, <4>1, <5>1
      <4> QED  BY <4>4, <4>5
    <3> QED  BY <3>1, <3>2
  <2>3. SumTo(h, n) <= SumTo(g, n)
    <3>1. \A k \in 1..n : g[k] \in Int /\ h[k] \in Int
      BY <1>2, <2>1
    <3> HIDE DEF g, h
    <3> QED  BY <2>2, <3>1, SumMonotone
  <2>4. W * D <= b * W
    <3> HIDE DEF b
    <3> QED  BY <1>2, <2>1, <2>3
  <2>5. \A i, j \in Int : j > 0 => ~ j * i <= (i - 1) * j
    BY SMT
  <2> QED  BY <1>1, <2>4, <2>5
<1> QED  BY <1>3, <1>4 DEF W, D

-----------------------------------------------------------------------------
(* Sums over sets *)

\* SetToSeq lists each element of a finite set once.
LEMMA Listing ==
  ASSUME NEW S, IsFiniteSet(S)
  PROVE  LET c == Cardinality(S)
             e == SetToSeq(S)
         IN  /\ c \in Nat /\ e \in [1..c -> S]
             /\ \A i, j \in 1..c : e[i] = e[j] => i = j
             /\ \A x \in S : \E i \in 1..c : e[i] = x
<1> DEFINE c == Cardinality(S)
           e == SetToSeq(S)
<1>1. c \in Nat /\ ExistsBijection(1..c, S)
  BY FS_CardinalityType
<1> HIDE DEF c
<1>2. PICK b : b \in Bijection(1..c, S)
  BY <1>1 DEF ExistsBijection
<1>3. b \in [1..c -> S] /\ IsInjective(b)
  BY <1>2 DEF Bijection, Injection
<1>4. e \in [1..c -> S] /\ IsInjective(e)
  BY <1>3 DEF SetToSeq, c
<1> HIDE DEF e
<1>5. e \in Injection(1..c, S)
  BY <1>4 DEF Injection
<1>6. IsFiniteSet(1..c) /\ Cardinality(1..c) = c
  BY <1>1, FS_Interval
<1>7. e \in Surjection(1..c, S)
  BY <1>5, <1>6, FS_Injection DEF c
<1>8. \A x \in S : \E i \in 1..c : e[i] = x
  BY <1>7 DEF Surjection
<1>9. \A i, j \in 1..c : e[i] = e[j] => i = j
  BY <1>4 DEF IsInjective
<1> QED  BY <1>1, <1>4, <1>8, <1>9 DEF c, e

\* g is the sum, for each key in S, of the numbers f that have it.
ByKey(g, S, f, key, n) ==
    /\ IsFiniteSet(S) /\ n \in Nat
    /\ \A k \in 1..n : f[k] \in Int /\ (f[k] = 0 \/ key[k] \in S)
    /\ \A x \in S : g[x] = SumTo([k \in 1..n |-> IF key[k] = x THEN f[k] ELSE 0], n)

\* Such sums, over all keys, are the sum of the numbers.
LEMMA SumOverKeys ==
  ASSUME NEW g, NEW S, NEW f, NEW key, NEW n, ByKey(g, S, f, key, n)
  PROVE  SumOver(g, S) = SumTo(f, n)
<1> DEFINE c == Cardinality(S)
           e == SetToSeq(S)
           h == [i \in 1..c |-> g[e[i]]]
<1>1. /\ IsFiniteSet(S) /\ n \in Nat
      /\ \A k \in 1..n : f[k] \in Int /\ (f[k] = 0 \/ key[k] \in S)
      /\ \A x \in S : g[x] = SumTo([k \in 1..n |-> IF key[k] = x THEN f[k] ELSE 0], n)
  BY DEF ByKey
<1>2. /\ c \in Nat /\ e \in [1..c -> S]
      /\ \A i, j \in 1..c : e[i] = e[j] => i = j
      /\ \A x \in S : \E i \in 1..c : e[i] = x
  BY <1>1, Listing
<1>3. SumOver(g, S) = SumTo(h, c)
  BY DEF SumOver
<1> HIDE DEF c, e
<1>4. \A k \in 1..n : f[k] = 0 \/ \E i \in 1..c : e[i] = key[k]
  BY <1>1, <1>2
<1>5. Keyed(f, key, n, e, c)
  BY <1>1, <1>2, <1>4 DEF Keyed
<1>6. SumTo(SumsByKey(f, key, n, e, c), c) = SumTo(f, n)
  BY <1>5, SumByKey
<1>7. SumsByKey(f, key, n, e, c) = h
  <2>1. \A i \in 1..c : g[e[i]] = SumTo([k \in 1..n |-> IF key[k] = e[i] THEN f[k] ELSE 0], n)
    BY <1>1, <1>2
  <2> QED  BY <2>1 DEF SumsByKey
<1> QED  BY <1>3, <1>6, <1>7

\* The n rows are different; those in S are all of S, and f has their numbers.
Rows(g, S, f, row, n) ==
    /\ IsFiniteSet(S) /\ n \in Nat
    /\ \A i, j \in 1..n : row[i] = row[j] => i = j
    /\ \A x \in S : g[x] \in Int /\ \E k \in 1..n : row[k] = x
    /\ \A k \in 1..n : f[k] = IF row[k] \in S THEN g[row[k]] ELSE 0

\* A sum over a set is a sum over the rows that list it, in whatever order.
LEMMA SumOverRows ==
  ASSUME NEW g, NEW S, NEW f, NEW row, NEW n, Rows(g, S, f, row, n)
  PROVE  SumOver(g, S) = SumTo(f, n)
<1>1. /\ IsFiniteSet(S) /\ n \in Nat
      /\ \A i, j \in 1..n : row[i] = row[j] => i = j
      /\ \A x \in S : g[x] \in Int /\ \E k \in 1..n : row[k] = x
      /\ \A k \in 1..n : f[k] = IF row[k] \in S THEN g[row[k]] ELSE 0
  BY DEF Rows
<1>2. ASSUME NEW x \in S
      PROVE  g[x] = SumTo([k \in 1..n |-> IF row[k] = x THEN f[k] ELSE 0], n)
  <2> DEFINE h == [k \in 1..n |-> IF row[k] = x THEN f[k] ELSE 0]
  <2>1. PICK p \in 1..n : row[p] = x
    BY <1>1
  <2>2. h[p] = g[x] /\ h[p] \in Int /\ \A k \in 1..n : k # p => h[k] = 0
    BY <1>1, <2>1
  <2> HIDE DEF h
  <2>3. SumTo(h, n) = h[p]
    BY <1>1, <2>2, SumSingle
  <2> QED  BY <2>2, <2>3 DEF h
<1>3. \A k \in 1..n : f[k] \in Int /\ (f[k] = 0 \/ row[k] \in S)
  BY <1>1
<1>4. ByKey(g, S, f, row, n)
  BY <1>1, <1>2, <1>3 DEF ByKey
<1> QED  BY <1>4, SumOverKeys

\* The rows at the positions P, and how many positions those are.
Chosen(row, P, n) == {row[k] : k \in P \cap (1..n)}
HowMany(P, n) == SumTo([k \in 1..n |-> IF k \in P THEN 1 ELSE 0], n)

\* Different rows are as many as their positions.
LEMMA CountRows ==
  ASSUME NEW n \in Nat, NEW row, NEW P,
         \A i, j \in 1..n : row[i] = row[j] => i = j
  PROVE  IsFiniteSet(Chosen(row, P, n)) /\ Cardinality(Chosen(row, P, n)) = HowMany(P, n)
<1> DEFINE f == [k \in 1..n |-> IF k \in P THEN 1 ELSE 0]
           R(m) == {row[k] : k \in P \cap (1..m)}
           T == {m \in 0..n : IsFiniteSet(R(m)) /\ Cardinality(R(m)) = SumTo(f, m)}
<1>1. \A k \in 1..n : f[k] \in Int /\ f[k] = IF k \in P THEN 1 ELSE 0
  OBVIOUS
<1> HIDE DEF f
<1>2. /\ SumTo(f, 0) = 0
      /\ \A k \in 0..n : SumTo(f, k) \in Int
      /\ \A k \in 1..n : SumTo(f, k) = SumTo(f, k - 1) + f[k]
  BY <1>1, SumSteps
<1>3. 0 \in T
  <2>1. R(0) = {}
    OBVIOUS
  <2> HIDE DEF R
  <2> QED  BY <1>2, <2>1, FS_EmptySet
<1>4. ASSUME NEW m \in 1..n, m - 1 \in T  PROVE m \in T
  <2>1. IsFiniteSet(R(m - 1)) /\ Cardinality(R(m - 1)) = SumTo(f, m - 1)
    BY <1>4
  <2>2. CASE m \in P
    <3>1. R(m) = R(m - 1) \cup {row[m]}
      <4>1. \A k : k \in P \cap (1..m) <=> k \in P \cap (1..(m - 1)) \/ k = m
        BY <2>2
      <4> QED  BY <4>1
    <3>2. row[m] \notin R(m - 1)
      BY SMT
    <3>3. IsFiniteSet(R(m)) /\ Cardinality(R(m)) = Cardinality(R(m - 1)) + 1
      <4> DEFINE A == R(m - 1)
      <4>1. IsFiniteSet(A) /\ row[m] \notin A /\ R(m) = A \cup {row[m]}
        BY <2>1, <3>1, <3>2
      <4> HIDE DEF A
      <4>2. IsFiniteSet(R(m)) /\ Cardinality(R(m)) = Cardinality(A) + 1
        <5> HIDE DEF R
        <5> QED  BY <4>1, FS_AddElement
      <4> QED  BY <4>2 DEF A
    <3>4. SumTo(f, m) = SumTo(f, m - 1) + 1
      BY <1>1, <1>2, <2>2
    <3> QED  BY <2>1, <3>3, <3>4
  <2>3. CASE m \notin P
    <3>1. R(m) = R(m - 1)
      <4>1. \A k : k \in P \cap (1..m) <=> k \in P \cap (1..(m - 1))
        BY <2>3
      <4> QED  BY <4>1
    <3> HIDE DEF R
    <3>2. SumTo(f, m) = SumTo(f, m - 1)
      <4>1. SumTo(f, m - 1) \in Int /\ f[m] = 0 /\ SumTo(f, m) = SumTo(f, m - 1) + f[m]
        <5>1. m - 1 \in 0..n
          OBVIOUS
        <5> QED  BY <1>1, <1>2, <2>3, <5>1
      <4> QED  BY <4>1
    <3> QED  BY <2>1, <3>1, <3>2
  <2> QED  BY <2>2, <2>3
<1>5. n \in T
  <2>1. \A m \in 0..n : m \in T
    <3> HIDE DEF T
    <3> QED  BY <1>3, <1>4, LengthInduction
  <2> QED  BY <2>1
<1> QED  BY <1>5 DEF f, Chosen, HowMany
=============================================================================
