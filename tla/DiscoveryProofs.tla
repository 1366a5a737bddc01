--------------------------- MODULE DiscoveryProofs ---------------------------
(***************************************************************************)
(* Theorems about Discovery: the types of its variables, that filters      *)
(* select only zones that matched them, and that no zone that was there    *)
(* all along is lost to the paging unless an entry left a listing.         *)
(***************************************************************************)
EXTENDS Discovery, SumTheorems, FiniteSetTheorems, SequenceTheorems

-----------------------------------------------------------------------------
(* Counting and keeping the entries of a list that are in a set *)

\* One more entry counts 1 if it is in the set.
LEMMA CountSteps ==
  ASSUME NEW X, NEW list \in Seq(X), NEW S
  PROVE  /\ Count(list, S, 0) = 0
         /\ \A n \in 0..Len(list) : Count(list, S, n) \in Nat
         /\ \A n \in 1..Len(list) :
               Count(list, S, n) = Count(list, S, n - 1) + (IF list[n] \in S THEN 1 ELSE 0)
<1> DEFINE f == [i \in DOMAIN list |-> IF list[i] \in S THEN 1 ELSE 0]
<1>1. Len(list) \in Nat /\ DOMAIN list = 1..Len(list)
  BY LenProperties
<1>2. \A i \in 1..Len(list) : f[i] \in Nat /\ f[i] \in Int /\ f[i] = IF list[i] \in S THEN 1 ELSE 0
  BY <1>1
<1>3. \A n : Count(list, S, n) = SumTo(f, n)
  BY DEF Count
<1> HIDE DEF f
<1>4. /\ SumTo(f, 0) = 0
      /\ \A k \in 1..Len(list) : SumTo(f, k) = SumTo(f, k - 1) + f[k]
  BY <1>1, <1>2, SumSteps
<1>5. ASSUME NEW n \in 0..Len(list)  PROVE SumTo(f, n) \in Nat
  BY <1>1, <1>2, SumNat
<1> QED  BY <1>2, <1>3, <1>4, <1>5

\* Going further counts no less, and more once an entry of the set is passed.
LEMMA CountMonotone ==
  ASSUME NEW X, NEW list \in Seq(X), NEW S,
         NEW a \in 0..Len(list), NEW b \in 0..Len(list), a <= b
  PROVE  /\ Count(list, S, a) <= Count(list, S, b)
         /\ a < b /\ list[b] \in S => Count(list, S, a) < Count(list, S, b)
<1> DEFINE n == Len(list)
           c(k) == Count(list, S, k)
           T == {k \in 0..n : a <= k => c(a) <= c(k)}
<1>1. n \in Nat
  BY LenProperties
<1>2. /\ \A k \in 0..n : c(k) \in Nat
      /\ \A k \in 1..n : c(k) = c(k - 1) + (IF list[k] \in S THEN 1 ELSE 0)
  BY CountSteps
<1> HIDE DEF c, n
<1>3. 0 \in T
  BY <1>1, <1>2 DEF n
<1>4. ASSUME NEW k \in 1..n, k - 1 \in T  PROVE k \in T
  <2>1. CASE a <= k - 1
    <3>1. k - 1 \in 0..n /\ a \in 0..n /\ c(a) <= c(k - 1)
      BY <1>1, <1>4, <2>1 DEF n
    <3> QED  BY <1>1, <1>2, <1>4, <3>1
  <2>2. CASE ~(a <= k - 1)
    BY <1>1, <1>2, <1>4, <2>2 DEF n
  <2> QED  BY <2>1, <2>2
<1>5. \A k \in 0..n : k \in T
  <2> HIDE DEF T
  <2> QED  BY <1>1, <1>3, <1>4, LengthInduction
<1>6. c(a) <= c(b)
  BY <1>5 DEF n
<1>7. ASSUME a < b, list[b] \in S  PROVE c(a) < c(b)
  <2>1. b - 1 \in 0..n /\ a <= b - 1 /\ b \in 1..n /\ a \in 0..n
    BY <1>1, <1>7 DEF n
  <2>2. c(a) <= c(b - 1)
    BY <1>5, <2>1
  <2>3. c(b) = c(b - 1) + 1
    BY <1>2, <1>7, <2>1
  <2> QED  BY <1>2, <2>1, <2>2, <2>3
<1> QED  BY <1>6, <1>7 DEF c

\* The k-th entry kept is found in the list.
LEMMA CountReached ==
  ASSUME NEW X, NEW list \in Seq(X), NEW S, NEW k \in 1..Count(list, S, Len(list))
  PROVE  \E i \in DOMAIN list : list[i] \in S /\ Count(list, S, i) = k
<1> DEFINE n == Len(list)
           c(m) == Count(list, S, m)
           T == {m \in 0..n : c(m) >= k}
<1>1. n \in Nat /\ DOMAIN list = 1..n
  BY LenProperties
<1>2. /\ c(0) = 0
      /\ \A m \in 0..n : c(m) \in Nat
      /\ \A m \in 1..n : c(m) = c(m - 1) + (IF list[m] \in S THEN 1 ELSE 0)
  BY CountSteps
<1>3. k \in 1..c(n)
  OBVIOUS
<1> HIDE DEF c, n
<1>4. n \in T
  BY <1>1, <1>2, <1>3
<1>5. PICK m \in T : \A j \in T : m <= j
  <2>1. T \in SUBSET Nat /\ T # {}
    BY <1>1, <1>4
  <2> HIDE DEF T
  <2> QED  BY <2>1, LeastPosition
<1>6. m \in 1..n
  BY <1>1, <1>2, <1>3
<1>7. m - 1 \in 0..n /\ c(m - 1) < k
  <2>1. m - 1 \in 0..n /\ m - 1 \notin T
    BY <1>1, <1>5, <1>6
  <2> QED  BY <1>2, <1>3, <2>1
<1>8. list[m] \in S /\ c(m) = k
  BY <1>2, <1>3, <1>6, <1>7
<1> QED  BY <1>1, <1>6, <1>8 DEF c

\* No two of them count the same.
LEMMA CountUnique ==
  ASSUME NEW X, NEW list \in Seq(X), NEW S,
         NEW i \in DOMAIN list, NEW j \in DOMAIN list, list[i] \in S, list[j] \in S,
         Count(list, S, i) = Count(list, S, j)
  PROVE  i = j
<1>1. Len(list) \in Nat /\ DOMAIN list = 1..Len(list)
  BY LenProperties
<1>2. Count(list, S, i) \in Nat /\ Count(list, S, j) \in Nat
  <2>1. i \in 0..Len(list) /\ j \in 0..Len(list)
    BY <1>1
  <2> QED  BY <2>1, CountSteps
<1>3. CASE i < j
  <2>1. Count(list, S, i) < Count(list, S, j)
    BY <1>1, <1>3, CountMonotone
  <2> QED  BY <1>2, <2>1
<1>4. CASE j < i
  <2>1. Count(list, S, j) < Count(list, S, i)
    BY <1>1, <1>4, CountMonotone
  <2> QED  BY <1>2, <2>1
<1> QED  BY <1>1, <1>3, <1>4

\* What is kept, and where.
LEMMA KeptEntries ==
  ASSUME NEW X, NEW list \in Seq(X), NEW S
  PROVE  /\ Kept(list, S) \in Seq(X)
         /\ Len(Kept(list, S)) = Count(list, S, Len(list))
         /\ \A k \in DOMAIN Kept(list, S) : Kept(list, S)[k] \in S \cap ToSet(list)
         /\ \A i \in DOMAIN list : list[i] \in S =>
               /\ Count(list, S, i) \in 1..Len(Kept(list, S))
               /\ Kept(list, S)[Count(list, S, i)] = list[i]
<1> DEFINE n == Len(list)
           c(m) == Count(list, S, m)
           at(k) == CHOOSE i \in DOMAIN list : list[i] \in S /\ c(i) = k
           kept == [k \in 1..c(n) |-> list[at(k)]]
<1>1. n \in Nat /\ DOMAIN list = 1..n /\ \A i \in 1..n : list[i] \in X
  BY LenProperties
<1>2. /\ c(0) = 0 /\ c(n) \in Nat
      /\ \A m \in 0..n : c(m) \in Nat
  <2>1. c(0) = 0 /\ \A m \in 0..n : c(m) \in Nat
    BY CountSteps
  <2> HIDE DEF c, n
  <2> QED  BY <1>1, <2>1
<1>3. ASSUME NEW k \in 1..c(n)
      PROVE  at(k) \in DOMAIN list /\ list[at(k)] \in S /\ c(at(k)) = k
  <2>1. \E i \in DOMAIN list : list[i] \in S /\ c(i) = k
    BY CountReached
  <2> HIDE DEF c
  <2> QED  BY <2>1
<1>4. ASSUME NEW i \in DOMAIN list, list[i] \in S
      PROVE  c(i) \in 1..c(n) /\ at(c(i)) = i
  <2>1. c(i) \in 1..c(n)
    <3>1. c(0) < c(i)
      BY <1>1, <1>4, CountMonotone
    <3>2. c(i) <= c(n)
      BY <1>1, CountMonotone
    <3> HIDE DEF c, n
    <3> QED  BY <1>1, <1>2, <3>1, <3>2
  <2>2. at(c(i)) \in DOMAIN list /\ list[at(c(i))] \in S /\ c(at(c(i))) = c(i)
    BY <1>3, <2>1
  <2> HIDE DEF at
  <2>3. at(c(i)) = i
    BY <1>4, <2>2, CountUnique
  <2> QED  BY <2>1, <2>3
<1>5. Kept(list, S) = kept
  BY DEF Kept
<1> HIDE DEF at, c, n
<1>6. kept \in Seq(X) /\ Len(kept) = c(n) /\ DOMAIN kept = 1..c(n)
  <2>1. \A k \in 1..c(n) : list[at(k)] \in X
    BY <1>1, <1>3
  <2> QED  BY <1>2, <2>1
<1>7. \A k \in DOMAIN kept : kept[k] \in S \cap ToSet(list)
  BY <1>3 DEF ToSet
<1>8. \A i \in DOMAIN list : list[i] \in S => c(i) \in 1..Len(kept) /\ kept[c(i)] = list[i]
  BY <1>4, <1>6
<1> HIDE DEF kept
<1> QED  BY <1>5, <1>6, <1>7, <1>8 DEF c, n

\* What is kept are the entries in the set.
LEMMA KeptSet ==
  ASSUME NEW X, NEW list \in Seq(X), NEW S
  PROVE  ToSet(Kept(list, S)) = ToSet(list) \cap S
<1>1. ToSet(Kept(list, S)) \subseteq ToSet(list) \cap S
  BY KeptEntries DEF ToSet
<1>2. ASSUME NEW i \in DOMAIN list, list[i] \in S
      PROVE  list[i] \in ToSet(Kept(list, S))
  <2>1. /\ Count(list, S, i) \in 1..Len(Kept(list, S))
        /\ Kept(list, S)[Count(list, S, i)] = list[i]
        /\ Kept(list, S) \in Seq(X)
    BY <1>2, KeptEntries
  <2>2. DOMAIN Kept(list, S) = 1..Len(Kept(list, S))
    BY <2>1, LenProperties
  <2> QED  BY <2>1, <2>2 DEF ToSet
<1> QED  BY <1>1, <1>2 DEF ToSet

\* A set that holds more of a list's entries counts no less.
LEMMA CountGrows ==
  ASSUME NEW X, NEW list \in Seq(X), NEW S, NEW T,
         \A i \in DOMAIN list : list[i] \in S => list[i] \in T,
         NEW n \in 0..Len(list)
  PROVE  Count(list, S, n) <= Count(list, T, n)
<1> DEFINE f == [i \in DOMAIN list |-> IF list[i] \in S THEN 1 ELSE 0]
           g == [i \in DOMAIN list |-> IF list[i] \in T THEN 1 ELSE 0]
<1>1. Len(list) \in Nat /\ DOMAIN list = 1..Len(list)
  BY LenProperties
<1>2. n \in Nat /\ \A i \in 1..n : f[i] \in Int /\ g[i] \in Int /\ f[i] <= g[i]
  BY <1>1
<1>3. Count(list, S, n) = SumTo(f, n) /\ Count(list, T, n) = SumTo(g, n)
  BY DEF Count
<1> HIDE DEF f, g
<1> QED  BY <1>2, <1>3, SumMonotone

-----------------------------------------------------------------------------
(* Inserting an entry, removing one, reading a page *)

\* An entry put into a list moves those behind it by one.
Inserted(list, i, z, longer) ==
  /\ longer \in Seq(Zones) /\ Len(longer) = Len(list) + 1
  /\ longer[i] = z
  /\ \A k \in DOMAIN list : longer[IF k < i THEN k ELSE k + 1] = list[k]
  /\ \A k \in DOMAIN longer : k # i => longer[k] = list[IF k < i THEN k ELSE k - 1]

\* InsertAt does that.
LEMMA InsertEntries ==
  ASSUME NEW list \in Seq(Zones), NEW i \in 1..(Len(list) + 1), NEW z \in Zones
  PROVE  Inserted(list, i, z, InsertAt(list, i, z))
<1> DEFINE n == Len(list)
           a == SubSeq(list, 1, i - 1)
           b == SubSeq(list, i, n)
           one == <<z>>
<1>1. n \in Nat /\ DOMAIN list = 1..n /\ \A k \in 1..n : list[k] \in Zones
  BY LenProperties
<1>2. /\ a \in Seq(Zones) /\ Len(a) = i - 1
      /\ \A k \in 1..(i - 1) : a[k] = list[k]
  <2>1. \A k \in 1..(i - 1) : list[k] \in Zones
    BY <1>1
  <2>2. /\ a \in Seq(Zones) /\ Len(a) = IF 1 <= i - 1 THEN i - 1 - 1 + 1 ELSE 0
        /\ \A k \in 1..(i - 1 - 1 + 1) : a[k] = list[1 + k - 1]
    BY <2>1, SubSeqProperties
  <2> HIDE DEF a
  <2> QED  BY <2>2
<1>3. /\ b \in Seq(Zones) /\ Len(b) = n + 1 - i
      /\ \A k \in 1..(n + 1 - i) : b[k] = list[i + k - 1]
  <2>1. \A k \in i..n : list[k] \in Zones
    BY <1>1
  <2>2. /\ b \in Seq(Zones) /\ Len(b) = IF i <= n THEN n - i + 1 ELSE 0
        /\ \A k \in 1..(n - i + 1) : b[k] = list[i + k - 1]
    BY <1>1, <2>1, SubSeqProperties
  <2> HIDE DEF b
  <2> QED  BY <1>1, <2>2
<1>4. one \in Seq(Zones) /\ Len(one) = 1 /\ one[1] = z
  OBVIOUS
<1>5. InsertAt(list, i, z) = (a \o one) \o b
  BY DEF InsertAt
<1> HIDE DEF a, b, one
<1> DEFINE c == a \o one
<1>6. /\ c \in Seq(Zones) /\ Len(c) = i
      /\ \A k \in 1..i : c[k] = IF k <= i - 1 THEN a[k] ELSE one[k - (i - 1)]
  <2>1. /\ c \in Seq(Zones) /\ Len(c) = Len(a) + Len(one)
        /\ \A k \in 1..(Len(a) + Len(one)) :
              c[k] = IF k <= Len(a) THEN a[k] ELSE one[k - Len(a)]
    BY <1>2, <1>4, ConcatProperties
  <2>2. Len(a) = i - 1 /\ Len(a) + Len(one) = i
    BY <1>1, <1>2, <1>4
  <2> HIDE DEF c
  <2> QED  BY <2>1, <2>2
<1> HIDE DEF c
<1> DEFINE r == c \o b
<1>7. /\ r \in Seq(Zones) /\ Len(r) = n + 1
      /\ \A k \in 1..(n + 1) : r[k] = IF k <= i THEN c[k] ELSE b[k - i]
  <2>1. /\ r \in Seq(Zones) /\ Len(r) = Len(c) + Len(b)
        /\ \A k \in 1..(Len(c) + Len(b)) :
              r[k] = IF k <= Len(c) THEN c[k] ELSE b[k - Len(c)]
    BY <1>3, <1>6, ConcatProperties
  <2>2. Len(c) = i /\ Len(c) + Len(b) = n + 1
    BY <1>1, <1>3, <1>6
  <2> HIDE DEF r
  <2> QED  BY <2>1, <2>2
<1>8. InsertAt(list, i, z) = r
  BY <1>5 DEF c
<1> HIDE DEF r
<1>9. Len(r) = n + 1 /\ DOMAIN r = 1..(n + 1)
  BY <1>1, <1>7, LenProperties
<1>10. r[i] = z
  BY <1>1, <1>4, <1>6, <1>7
<1>11. \A k \in 1..n : r[IF k < i THEN k ELSE k + 1] = list[k]
  <2> SUFFICES ASSUME NEW k \in 1..n  PROVE r[IF k < i THEN k ELSE k + 1] = list[k]
    OBVIOUS
  <2>1. CASE k < i
    BY <1>1, <1>2, <1>6, <1>7, <2>1
  <2>2. CASE ~(k < i)
    <3>1. r[k + 1] = b[k + 1 - i]
      <4>1. k + 1 \in 1..(n + 1) /\ ~(k + 1 <= i)
        BY <1>1, <2>2
      <4> QED  BY <1>7, <4>1
    <3>2. k + 1 - i \in 1..(n + 1 - i) /\ i + (k + 1 - i) - 1 = k
      BY <1>1, <2>2
    <3> QED  BY <1>3, <2>2, <3>1, <3>2
  <2> QED  BY <2>1, <2>2
<1>12. \A k \in 1..(n + 1) : k # i => r[k] = list[IF k < i THEN k ELSE k - 1]
  <2> SUFFICES ASSUME NEW k \in 1..(n + 1), k # i
               PROVE  r[k] = list[IF k < i THEN k ELSE k - 1]
    OBVIOUS
  <2>1. CASE k < i
    BY <1>1, <1>2, <1>6, <1>7, <2>1
  <2>2. CASE ~(k < i)
    <3>1. k - 1 \in 1..n /\ ~(k - 1 < i)
      BY <1>1, <2>2
    <3>2. r[(k - 1) + 1] = list[k - 1]
      BY <1>11, <3>1
    <3> QED  BY <2>2, <3>2
  <2> QED  BY <2>1, <2>2
<1> QED  BY <1>1, <1>7, <1>8, <1>9, <1>10, <1>11, <1>12 DEF Inserted

\* Before an entry there are no fewer kept ones after another was inserted.
LEMMA CountInserted ==
  ASSUME NEW list \in Seq(Zones), NEW i \in 1..(Len(list) + 1), NEW z, NEW longer,
         Inserted(list, i, z, longer), NEW S, NEW k \in DOMAIN list
  PROVE  Count(list, S, k) <= Count(longer, S, IF k < i THEN k ELSE k + 1)
<1> DEFINE n == Len(list)
           old(m) == Count(list, S, m)
           new(m) == Count(longer, S, m)
           at(m) == IF m < i THEN m ELSE m + 1
           T == {m \in 0..n : old(m) <= new(at(m))}
<1>1. n \in Nat /\ DOMAIN list = 1..n /\ Len(longer) = n + 1 /\ longer \in Seq(Zones)
      /\ i \in 1..(n + 1)
  BY LenProperties DEF Inserted
<1>2. /\ old(0) = 0
      /\ \A m \in 0..n : old(m) \in Nat
      /\ \A m \in 1..n : old(m) = old(m - 1) + (IF list[m] \in S THEN 1 ELSE 0)
  BY CountSteps
<1>3. /\ new(0) = 0
      /\ \A m \in 0..(n + 1) : new(m) \in Nat
      /\ \A m \in 1..(n + 1) : new(m) = new(m - 1) + (IF longer[m] \in S THEN 1 ELSE 0)
  <2>1. /\ new(0) = 0
        /\ \A m \in 0..Len(longer) : new(m) \in Nat
        /\ \A m \in 1..Len(longer) : new(m) = new(m - 1) + (IF longer[m] \in S THEN 1 ELSE 0)
    BY <1>1, CountSteps
  <2> HIDE DEF new, n
  <2> QED  BY <1>1, <2>1
<1>4. \A m \in 1..n : longer[at(m)] = list[m]
  BY <1>1 DEF Inserted
<1> HIDE DEF old, new, n
<1>5. 0 \in T
  BY <1>1, <1>2, <1>3
<1>6. ASSUME NEW m \in 1..n, m - 1 \in T  PROVE m \in T
  <2>1. /\ m - 1 \in 0..n /\ m \in 0..n /\ at(m) \in 1..(n + 1) /\ at(m) - 1 \in 0..(n + 1)
        /\ at(m - 1) \in 0..(n + 1)
    BY <1>1
  <2>2. new(at(m)) = new(at(m) - 1) + (IF list[m] \in S THEN 1 ELSE 0)
    BY <1>3, <1>4, <2>1
  <2>3. old(m) = old(m - 1) + (IF list[m] \in S THEN 1 ELSE 0)
    BY <1>2
  <2>4. new(at(m - 1)) <= new(at(m) - 1)
    <3>1. CASE at(m) - 1 = at(m - 1)
      BY <1>3, <2>1, <3>1
    <3>2. CASE at(m) - 1 # at(m - 1)
      <4>1. at(m) - 1 = at(m - 1) + 1
        BY <1>1, <3>2
      <4>2. new(at(m) - 1) = new(at(m - 1)) + (IF longer[at(m) - 1] \in S THEN 1 ELSE 0)
        <5>1. at(m) - 1 \in 1..(n + 1) /\ at(m) - 1 - 1 = at(m - 1)
          BY <1>1, <2>1, <4>1
        <5> HIDE DEF at
        <5> QED  BY <1>3, <5>1
      <4> HIDE DEF at
      <4> QED  BY <1>3, <2>1, <4>2
    <3> QED  BY <3>1, <3>2
  <2> HIDE DEF at
  <2>5. /\ old(m - 1) <= new(at(m - 1)) /\ old(m - 1) \in Nat
        /\ new(at(m - 1)) \in Nat /\ new(at(m) - 1) \in Nat
    BY <1>2, <1>3, <1>6, <2>1
  <2> QED  BY <2>1, <2>2, <2>3, <2>4, <2>5
<1>7. \A m \in 0..n : m \in T
  <2> HIDE DEF T
  <2> QED  BY <1>1, <1>5, <1>6, LengthInduction
<1> QED  BY <1>1, <1>7 DEF old, new, n

\* Removing an entry leaves the others.
LEMMA RemoveEntries ==
  ASSUME NEW list \in Seq(Zones), NEW i \in DOMAIN list
  PROVE  /\ RemoveAt(list, i) \in Seq(Zones)
         /\ DOMAIN RemoveAt(list, i) = 1..(Len(list) - 1)
         /\ \A k \in 1..(Len(list) - 1) :
               RemoveAt(list, i)[k] = list[IF k < i THEN k ELSE k + 1]
<1> DEFINE n == Len(list)
           a == SubSeq(list, 1, i - 1)
           b == SubSeq(list, i + 1, n)
           r == a \o b
<1>1. n \in Nat /\ DOMAIN list = 1..n /\ \A k \in 1..n : list[k] \in Zones
  BY LenProperties
<1>2. /\ a \in Seq(Zones) /\ Len(a) = i - 1
      /\ \A k \in 1..(i - 1) : a[k] = list[k]
  <2>1. i - 1 \in Int /\ \A k \in 1..(i - 1) : list[k] \in Zones
    BY <1>1
  <2>2. /\ a \in Seq(Zones) /\ Len(a) = IF 1 <= i - 1 THEN i - 1 - 1 + 1 ELSE 0
        /\ \A k \in 1..(i - 1 - 1 + 1) : a[k] = list[1 + k - 1]
    BY <2>1, SubSeqProperties
  <2> HIDE DEF a
  <2> QED  BY <1>1, <2>2
<1>3. /\ b \in Seq(Zones) /\ Len(b) = n - i
      /\ \A k \in 1..(n - i) : b[k] = list[i + k]
  <2>1. i + 1 \in Int /\ \A k \in (i + 1)..n : list[k] \in Zones
    BY <1>1
  <2>2. /\ b \in Seq(Zones) /\ Len(b) = IF i + 1 <= n THEN n - (i + 1) + 1 ELSE 0
        /\ \A k \in 1..(n - (i + 1) + 1) : b[k] = list[i + 1 + k - 1]
    BY <1>1, <2>1, SubSeqProperties
  <2> HIDE DEF b
  <2>3. Len(b) = n - i
    BY <1>1, <2>2
  <2>4. ASSUME NEW k \in 1..(n - i)  PROVE b[k] = list[i + k]
    <3>1. k \in 1..(n - (i + 1) + 1) /\ i + 1 + k - 1 = i + k
      BY <1>1
    <3> QED  BY <2>2, <3>1
  <2> QED  BY <2>2, <2>3, <2>4
<1>4. RemoveAt(list, i) = r
  BY DEF RemoveAt
<1> HIDE DEF a, b
<1>5. /\ r \in Seq(Zones) /\ Len(r) = n - 1
      /\ \A k \in 1..(n - 1) : r[k] = IF k <= i - 1 THEN a[k] ELSE b[k - (i - 1)]
  <2>1. /\ r \in Seq(Zones) /\ Len(r) = Len(a) + Len(b)
        /\ \A k \in 1..(Len(a) + Len(b)) :
              r[k] = IF k <= Len(a) THEN a[k] ELSE b[k - Len(a)]
    BY <1>2, <1>3, ConcatProperties
  <2>2. Len(a) = i - 1 /\ Len(a) + Len(b) = n - 1
    BY <1>1, <1>2, <1>3
  <2> HIDE DEF r
  <2> QED  BY <2>1, <2>2
<1> HIDE DEF r
<1>6. DOMAIN r = 1..(n - 1)
  BY <1>1, <1>5, LenProperties
<1>7. ASSUME NEW k \in 1..(n - 1)
      PROVE  r[k] = list[IF k < i THEN k ELSE k + 1]
  <2>1. CASE k < i
    BY <1>1, <1>2, <1>5, <2>1
  <2>2. CASE ~(k < i)
    <3>1. k - (i - 1) \in 1..(n - i) /\ i + (k - (i - 1)) = k + 1 /\ ~(k <= i - 1)
      BY <1>1, <2>2
    <3>2. r[k] = b[k - (i - 1)] /\ b[k - (i - 1)] = list[k + 1]
      BY <1>3, <1>5, <3>1
    <3> QED  BY <2>2, <3>2
  <2> QED  BY <2>1, <2>2
<1> QED  BY <1>4, <1>5, <1>6, <1>7

-----------------------------------------------------------------------------
(* Pages and filters *)

\* How much of the current listing has been read.
Read == page * PageSize

\* The numbers among the constants.
LEMMA Bounds == PageSize \in Nat \ {0} /\ MaxChanges \in Nat
BY DiscoveryAssumption

\* A page more moves the reading by a page; a new listing is read from its start.
LEMMA ReadSteps ==
  ASSUME page \in Nat
  PROVE  /\ Read \in Nat /\ PageSize \in Nat \ {0}
         /\ page' = page + 1 => Read' = Read + PageSize
         /\ page' = 0 => Read' = 0
<1>1. PageSize \in Nat \ {0}
  BY Bounds
<1>2. Read \in Nat
  BY <1>1 DEF Read
<1>3. ASSUME page' = page + 1  PROVE Read' = Read + PageSize
  BY <1>1, <1>3 DEF Read
<1>4. ASSUME page' = 0  PROVE Read' = 0
  BY <1>1, <1>4 DEF Read
<1> QED  BY <1>1, <1>2, <1>3, <1>4

\* A page holds the entries behind those read, as many as fit; it is empty only
\* when all have been read.
LEMMA PageEntries ==
  ASSUME NEW X, NEW list \in Seq(X), page \in Nat
  PROVE  /\ ToSet(Page(list)) \subseteq ToSet(list)
         /\ Page(list) \in Seq(X)
         /\ \A i \in DOMAIN list :
               Read < i /\ i <= Read + PageSize => list[i] \in ToSet(Page(list))
         /\ Page(list) = << >> => Len(list) <= Read
<1> DEFINE n == Len(list)
           last == IF Read + PageSize < n THEN Read + PageSize ELSE n
           p == SubSeq(list, Read + 1, last)
<1>1. n \in Nat /\ DOMAIN list = 1..n /\ \A k \in 1..n : list[k] \in X
  BY LenProperties
<1>2. Read \in Nat /\ PageSize \in Nat \ {0}
  BY ReadSteps
<1>3. (page + 1) * PageSize = Read + PageSize
  BY <1>2 DEF Read
<1>4. Page(list) = p
  BY <1>3 DEF Page, Read
<1>5. last \in Int /\ last <= n /\ last <= Read + PageSize
  BY <1>1, <1>2
<1>6. /\ p \in Seq(X)
      /\ Len(p) = IF Read + 1 <= last THEN last - (Read + 1) + 1 ELSE 0
      /\ \A k \in 1..(last - (Read + 1) + 1) : p[k] = list[Read + 1 + k - 1]
  <2>1. \A k \in (Read + 1)..last : list[k] \in X
    BY <1>1, <1>2, <1>5
  <2>2. Read + 1 \in Int
    BY <1>2
  <2> HIDE DEF last, n
  <2> QED  BY <1>5, <2>1, <2>2, SubSeqProperties
<1> HIDE DEF p
<1>7. DOMAIN p = 1..Len(p)
  BY <1>6, LenProperties
<1>8. ASSUME NEW k \in DOMAIN p  PROVE p[k] \in ToSet(list)
  <2>1. Read + 1 <= last /\ k \in 1..(last - (Read + 1) + 1)
    <3> HIDE DEF last
    <3> QED  BY <1>2, <1>5, <1>6, <1>7, <1>8
  <2>2. p[k] = list[Read + k] /\ Read + k \in 1..n
    <3>1. Read + 1 + k - 1 = Read + k /\ Read + k \in 1..n
      BY <1>1, <1>2, <1>5, <2>1
    <3> QED  BY <1>6, <2>1, <3>1
  <2> QED  BY <1>1, <2>2 DEF ToSet
<1>9. ASSUME NEW i \in DOMAIN list, Read < i, i <= Read + PageSize
      PROVE  list[i] \in ToSet(p)
  <2>1. i <= last
    BY <1>1, <1>9
  <2> DEFINE k == i - Read
  <2>2. k \in 1..(last - (Read + 1) + 1) /\ Read + 1 + k - 1 = i /\ Read + 1 <= last
    BY <1>1, <1>2, <1>5, <1>9, <2>1
  <2> HIDE DEF k, last
  <2>3. p[k] = list[i] /\ k \in DOMAIN p
    BY <1>6, <1>7, <2>2
  <2> QED  BY <2>3 DEF ToSet
<1>10. p = << >> => n <= Read
  <2>1. CASE Read + 1 <= last
    <3>1. Len(p) = last - (Read + 1) + 1 /\ Len(p) # 0
      BY <1>2, <1>5, <1>6, <2>1
    <3> QED  BY <3>1
  <2>2. CASE ~(Read + 1 <= last)
    BY <1>1, <1>2, <2>2
  <2> QED  BY <2>1, <2>2
<1> QED  BY <1>4, <1>6, <1>8, <1>9, <1>10 DEF ToSet

\* The service reads a query as the file means the filter.
LEMMA FilterMeaning ==
  ASSUME NEW f \in [key : STRING, value : STRING, negate : BOOLEAN], NEW t
  PROVE  Satisfies(t, queryString(f)) <=> Meant(f, t)
<1> DEFINE q == queryString(f)
<1>1. CASE f.value = "" /\ f.negate
  <2>1. q = <<"lacks", f.key>>
    BY <1>1 DEF queryString
  <2>2. q[1] = "lacks" /\ q[2] = f.key
    BY <2>1
  <2> HIDE DEF q
  <2>3. Satisfies(t, q) <=> f.key \notin KeysOf(t)
    BY <2>2 DEF Satisfies
  <2>4. Meant(f, t) <=> f.key \notin KeysOf(t)
    BY <1>1 DEF Meant
  <2> QED  BY <2>3, <2>4 DEF q
<1>2. CASE f.value = "" /\ ~f.negate
  <2>1. q = <<"has", f.key>>
    BY <1>2 DEF queryString
  <2>2. q[1] = "has" /\ q[2] = f.key
    BY <2>1
  <2> HIDE DEF q
  <2>3. Satisfies(t, q) <=> f.key \in KeysOf(t)
    BY <2>2 DEF Satisfies
  <2>4. Meant(f, t) <=> f.key \in KeysOf(t)
    BY <1>2 DEF Meant
  <2> QED  BY <2>3, <2>4 DEF q
<1>3. CASE f.value # "" /\ f.negate
  <2>1. q = <<"differs", f.key, f.value>>
    BY <1>3 DEF queryString
  <2>2. q[1] = "differs" /\ q[2] = f.key /\ q[3] = f.value
    BY <2>1
  <2> HIDE DEF q
  <2>3. Satisfies(t, q) <=> <<f.key, f.value>> \notin t
    BY <2>2 DEF Satisfies
  <2>4. Meant(f, t) <=> <<f.key, f.value>> \notin t
    BY <1>3 DEF Meant
  <2> QED  BY <2>3, <2>4 DEF q
<1>4. CASE f.value # "" /\ ~f.negate
  <2>1. q = <<"equal", f.key, f.value>>
    BY <1>4 DEF queryString
  <2>2. q[1] = "equal" /\ q[2] = f.key /\ q[3] = f.value
    BY <2>1
  <2> HIDE DEF q
  <2>3. Satisfies(t, q) <=> <<f.key, f.value>> \in t
    BY <2>2 DEF Satisfies
  <2>4. Meant(f, t) <=> <<f.key, f.value>> \in t
    BY <1>4 DEF Meant
  <2> QED  BY <2>3, <2>4 DEF q
<1> QED  BY <1>1, <1>2, <1>3, <1>4

\* So the zones that satisfy a job's query are those that match its filters.
LEMMA QueryMeaning ==
  ASSUME filters \in JobFilters
  PROVE  Satisfying(TagQuery) = {z \in Zones : Matches(tagsOf[z])}
<1>1. /\ filters \in Seq([key : STRING, value : STRING, negate : BOOLEAN])
  BY DiscoveryAssumption
<1>2. \A i \in DOMAIN filters : filters[i] \in [key : STRING, value : STRING, negate : BOOLEAN]
  BY <1>1, LenProperties
<1>3. DOMAIN TagQuery = DOMAIN filters /\ \A i \in DOMAIN filters : TagQuery[i] = queryString(filters[i])
  BY DEF TagQuery
<1>4. ASSUME NEW t
      PROVE  (\A i \in DOMAIN TagQuery : Satisfies(t, TagQuery[i]))
                <=> \A i \in DOMAIN filters : Meant(filters[i], t)
  <2>1. \A i \in DOMAIN filters : Satisfies(t, queryString(filters[i])) <=> Meant(filters[i], t)
    BY <1>2, FilterMeaning
  <2> QED  BY <1>3, <2>1
<1> QED  BY <1>4 DEF Satisfying, Matches

-----------------------------------------------------------------------------
(* The inductive invariant *)

\* The service lists no zone twice.
DistinctListing ==
  \A i, k \in DOMAIN listed : listed[i] = listed[k] => i = k

\* A zone that is called stable is still listed, and matches.
HistoryInv == stable \subseteq Wanted(listed, tagsOf)

\* While zones are read, a stable one has been read or is still ahead.
ZonesInv ==
  pc = "zones" =>
     /\ result = {}
     /\ ~shrunk => \A i \in DOMAIN listed :
                      listed[i] \in stable => listed[i] \in ToSet(out) \/ Read < i

\* While tags are read, what is named has matched, and a stable zone has been
\* named or is still ahead in the tag listing: one behind the zones before it
\* that satisfy the query, as an item that is no zone comes first.
TagsInv ==
  pc = "tags" =>
     /\ ~shrunk => stable \subseteq ToSet(out)
     /\ filters # << >> =>
           /\ Wanted(listed, tagsOf) \subseteq matching
           /\ \A p \in result : p[1] \in matching
           /\ ~shrunk => \A i \in DOMAIN listed :
                 listed[i] \in stable =>
                    InTags(listed[i]) \/ Read < 1 + Count(listed, Satisfying(TagQuery), i)

\* The inductive invariant.
DInv ==
  /\ TypeOK /\ DistinctListing /\ HistoryInv /\ ZonesInv /\ TagsInv
  /\ SelectionMatches /\ StableZonesSelected

-----------------------------------------------------------------------------
(* It holds initially, and a change at the service keeps it *)

\* A zone that is wanted is listed, and matches if there are filters.
LEMMA WantedZones ==
  ASSUME NEW l, NEW t, NEW z
  PROVE  z \in Wanted(l, t) <=> z \in ToSet(l) /\ (filters # << >> => Matches(t[z]))
BY DEF Wanted

\* The entries of a concatenation.
LEMMA ToSetJoin ==
  ASSUME NEW X, NEW p \in Seq(X), NEW q \in Seq(X)
  PROVE  ToSet(p) \subseteq ToSet(p \o q) /\ ToSet(q) \subseteq ToSet(p \o q)
<1>1. /\ Len(p) \in Nat /\ DOMAIN p = 1..Len(p) /\ Len(q) \in Nat /\ DOMAIN q = 1..Len(q)
  BY LenProperties
<1> DEFINE r == p \o q
<1>2. /\ r \in Seq(X) /\ Len(r) = Len(p) + Len(q)
      /\ \A i \in 1..(Len(p) + Len(q)) : r[i] = IF i <= Len(p) THEN p[i] ELSE q[i - Len(p)]
  BY ConcatProperties
<1> HIDE DEF r
<1>3. DOMAIN r = 1..(Len(p) + Len(q))
  BY <1>2, LenProperties
<1>4. ASSUME NEW i \in DOMAIN p  PROVE i \in DOMAIN r /\ r[i] = p[i]
  BY <1>1, <1>2, <1>3
<1>5. ASSUME NEW i \in DOMAIN q  PROVE Len(p) + i \in DOMAIN r /\ r[Len(p) + i] = q[i]
  <2>1. Len(p) + i \in 1..(Len(p) + Len(q)) /\ ~(Len(p) + i <= Len(p)) /\ Len(p) + i - Len(p) = i
    BY <1>1
  <2> QED  BY <1>2, <1>3, <2>1
<1> QED  BY <1>4, <1>5 DEF ToSet, r

\* Initially nothing is read and every zone wanted is stable.
LEMMA DiscoveryInit == Init => DInv
<1> SUFFICES ASSUME Init  PROVE DInv
  OBVIOUS
<1>1. PICK S \in SUBSET Zones : listed \in SetToSeqs(S)
  BY DEF Init
<1>2. Cardinality(S) \in Nat
  BY DiscoveryAssumption, FS_Subset, FS_CardinalityType
<1>3. /\ listed \in [1..Cardinality(S) -> S]
      /\ \A i, k \in 1..Cardinality(S) : i # k => listed[i] # listed[k]
  BY <1>1 DEF SetToSeqs
<1>4. listed \in Seq(Zones) /\ DOMAIN listed = 1..Cardinality(S) /\ DistinctListing
  BY <1>2, <1>3 DEF DistinctListing
<1>5. Wanted(listed, tagsOf) \subseteq Zones
  BY <1>3 DEF Wanted, ToSet
<1>6. TypeOK
  <2>1. changes \in 0..MaxChanges
    BY Bounds DEF Init
  <2>2. << >> \in Seq(Zones)
    OBVIOUS
  <2>3. out \in Seq(Zones) /\ selected \in Seq(Zones)
    BY <2>2 DEF Init
  <2>4. \A p \in result : p[1] \in Zones
    BY DEF Init
  <2>5. shrunk \in BOOLEAN /\ stable \subseteq Zones /\ matching \subseteq Zones
    BY <1>5 DEF Init
  <2>6. page \in Nat /\ pc \in {"zones", "tags", "selected", "failed"}
    BY DEF Init
  <2>7. filters \in JobFilters /\ tagsOf \in [Zones -> TagSets]
    BY DEF Init
  <2> QED  BY <1>4, <2>1, <2>3, <2>4, <2>5, <2>6, <2>7 DEF TypeOK
<1>7. Read = 0
  BY Bounds DEF Init, Read
<1>8. ZonesInv
  BY <1>4, <1>7 DEF Init, ZonesInv
<1> QED
  BY <1>4, <1>6, <1>8 DEF Init, DInv, HistoryInv, TagsInv, SelectionMatches, StableZonesSelected

\* After a change the same holds of the zones that satisfy the query.
LEMMA QueryMeaningAfter ==
  ASSUME filters \in JobFilters, filters' = filters
  PROVE  Satisfying(TagQuery)' = {z \in Zones : Matches(tagsOf'[z])}
<1>1. /\ filters \in Seq([key : STRING, value : STRING, negate : BOOLEAN])
  BY DiscoveryAssumption
<1>2. \A i \in DOMAIN filters : filters[i] \in [key : STRING, value : STRING, negate : BOOLEAN]
  BY <1>1, LenProperties
<1>3. DOMAIN TagQuery' = DOMAIN filters /\ \A i \in DOMAIN filters : TagQuery'[i] = queryString(filters[i])
  BY DEF TagQuery
<1>4. ASSUME NEW t
      PROVE  (\A i \in DOMAIN TagQuery' : Satisfies(t, TagQuery'[i]))
                <=> \A i \in DOMAIN filters : Meant(filters[i], t)
  <2>1. \A i \in DOMAIN filters : Satisfies(t, queryString(filters[i])) <=> Meant(filters[i], t)
    BY <1>2, FilterMeaning
  <2> QED  BY <1>3, <2>1
<1> QED  BY <1>4 DEF Satisfying, Matches

\* No stable zone comes nearer to the front of either listing.
MatchingIn(t) == {z \in Zones : Matches(t[z])}

Advances(l, t) ==
  \A m \in DOMAIN l : l[m] \in stable =>
     \E k \in DOMAIN listed :
        /\ listed[k] = l[m] /\ k <= m
        /\ filters # << >> => Count(listed, MatchingIn(tagsOf), k) <= Count(l, MatchingIn(t), m)

\* A change after which that holds keeps the invariant.
LEMMA BecomesStep ==
  ASSUME DInv, NEW l \in Seq(Zones), NEW t \in [Zones -> TagSets], Becomes(l, t),
         \A i, k \in DOMAIN l : l[i] = l[k] => i = k,
         ~shrunk' => Advances(l, t)
  PROVE  DInv'
<1>1. /\ pc \in {"zones", "tags"} /\ changes < MaxChanges
      /\ changes' = changes + 1
      /\ listed' = l /\ tagsOf' = t
      /\ shrunk' = (\/ shrunk
                    \/ ~(ToSet(listed) \subseteq ToSet(l))
                    \/ ~(Wanted(listed, tagsOf) \subseteq Wanted(l, t)))
      /\ stable' = stable \cap Wanted(l, t)
      /\ matching' = (IF pc = "tags" THEN matching \cup Wanted(l, t) ELSE matching)
      /\ UNCHANGED <<filters, pc, page, out, result, selected>>
  BY DEF Becomes
<1>2. Wanted(l, t) \subseteq Zones
  <2>1. ToSet(l) \subseteq Zones
    BY LenProperties DEF ToSet
  <2> QED  BY <2>1, WantedZones
<1>3. TypeOK'
  <2>1. changes' \in 0..MaxChanges
    BY <1>1, Bounds DEF DInv, TypeOK
  <2>2. shrunk' \in BOOLEAN
    BY <1>1
  <2>3. stable' \subseteq Zones /\ matching' \subseteq Zones
    BY <1>1, <1>2 DEF DInv, TypeOK
  <2> QED  BY <1>1, <2>1, <2>2, <2>3 DEF DInv, TypeOK
<1>4. DistinctListing'
  BY <1>1 DEF DistinctListing
<1>5. \A x, y : Wanted(x, y)' = Wanted(x', y')
  BY <1>1 DEF Wanted, Matches
<1>6. Wanted(listed, tagsOf)' = Wanted(l, t)
  BY <1>1 DEF Wanted, Matches
<1>7. HistoryInv'
  BY <1>1, <1>6 DEF HistoryInv
<1>8. page \in Nat /\ Read' = Read
  BY <1>1 DEF DInv, TypeOK, Read
<1>9. ASSUME ~shrunk', NEW m \in DOMAIN l, l[m] \in stable'
      PROVE  \E k \in DOMAIN listed :
                /\ listed[k] = l[m] /\ k <= m /\ listed[k] \in stable
                /\ filters # << >> => Count(listed, MatchingIn(tagsOf), k) <= Count(l, MatchingIn(t), m)
  BY <1>1, <1>9 DEF Advances
<1>10. ZonesInv'
  <2> SUFFICES ASSUME pc = "zones"
               PROVE  /\ result = {}
                      /\ ~shrunk' => \A m \in DOMAIN l :
                            l[m] \in stable' => l[m] \in ToSet(out) \/ Read < m
    BY <1>1, <1>8 DEF ZonesInv
  <2>1. ASSUME ~shrunk', NEW m \in DOMAIN l, l[m] \in stable'
        PROVE  l[m] \in ToSet(out) \/ Read < m
    <3>1. PICK k \in DOMAIN listed : listed[k] = l[m] /\ k <= m /\ listed[k] \in stable
      BY <1>9, <2>1
    <3>2. listed[k] \in ToSet(out) \/ Read < k
      BY <1>1, <2>1, <3>1 DEF DInv, ZonesInv
    <3>3. k \in Nat /\ m \in Nat /\ Read \in Nat
      BY <1>8, ReadSteps, LenProperties DEF DInv, TypeOK
    <3> QED  BY <3>1, <3>2, <3>3
  <2> QED  BY <2>1 DEF DInv, ZonesInv
<1>11. TagsInv'
  <2> SUFFICES ASSUME pc = "tags"  PROVE TagsInv'
    BY <1>1 DEF TagsInv
  <2>1. ~shrunk' => stable' \subseteq ToSet(out')
    BY <1>1 DEF DInv, TagsInv
  <2>2. ASSUME filters # << >>
        PROVE  Wanted(listed, tagsOf)' \subseteq matching' /\ \A p \in result' : p[1] \in matching'
    BY <1>1, <1>6, <2>2 DEF DInv, TagsInv
  <2>3. ASSUME filters # << >>, ~shrunk', NEW m \in DOMAIN l, l[m] \in stable'
        PROVE  InTags(l[m])' \/ Read' < 1 + Count(listed', Satisfying(TagQuery)', m)
    <3>1. PICK k \in DOMAIN listed :
                /\ listed[k] = l[m] /\ k <= m /\ listed[k] \in stable
                /\ Count(listed, MatchingIn(tagsOf), k) <= Count(l, MatchingIn(t), m)
      BY <1>9, <2>3
    <3>2. Satisfying(TagQuery) = MatchingIn(tagsOf) /\ Satisfying(TagQuery)' = MatchingIn(t)
      BY <1>1, QueryMeaning, QueryMeaningAfter DEF DInv, TypeOK, MatchingIn
    <3>3. InTags(listed[k]) \/ Read < 1 + Count(listed, MatchingIn(tagsOf), k)
      BY <1>1, <2>3, <3>1, <3>2 DEF DInv, TagsInv
    <3>4. /\ Count(listed, MatchingIn(tagsOf), k) \in Nat /\ Count(l, MatchingIn(t), m) \in Nat
          /\ Read \in Nat
      <4>1. k \in 0..Len(listed) /\ m \in 0..Len(l) /\ listed \in Seq(Zones)
        BY LenProperties DEF DInv, TypeOK
      <4> QED  BY <1>8, <4>1, CountSteps, ReadSteps
    <3>5. InTags(l[m])' <=> InTags(l[m])
      BY <1>1 DEF InTags
    <3>6. Count(listed', Satisfying(TagQuery)', m) = Count(l, MatchingIn(t), m)
      BY <1>1, <3>2
    <3> QED  BY <1>8, <3>1, <3>3, <3>4, <3>5, <3>6
  <2> QED  BY <1>1, <2>1, <2>2, <2>3 DEF TagsInv
<1>12. SelectionMatches' /\ StableZonesSelected'
  BY <1>1 DEF SelectionMatches, StableZonesSelected
<1> QED  BY <1>3, <1>4, <1>7, <1>10, <1>11, <1>12 DEF DInv

\* An added zone only moves others back.
LEMMA AddedStep == DInv /\ ZoneAdded => DInv'
<1> SUFFICES ASSUME DInv, NEW z \in Zones \ ToSet(listed), NEW i \in 1..(Len(listed) + 1),
                    Becomes(InsertAt(listed, i, z), tagsOf)
             PROVE  DInv'
  BY DEF ZoneAdded
<1> DEFINE l == InsertAt(listed, i, z)
           n == Len(listed)
<1>1. /\ n \in Nat /\ listed \in Seq(Zones) /\ DOMAIN listed = 1..n
      /\ tagsOf \in [Zones -> TagSets]
  BY LenProperties DEF DInv, TypeOK
<1>2. Inserted(listed, i, z, l)
  BY <1>1, InsertEntries
<1> HIDE DEF l
<1>3. /\ l \in Seq(Zones) /\ Len(l) = n + 1 /\ l[i] = z /\ DOMAIN l = 1..(n + 1)
      /\ \A k \in DOMAIN l : k # i => l[k] = listed[IF k < i THEN k ELSE k - 1]
  BY <1>1, <1>2, LenProperties DEF Inserted
<1>4. ASSUME NEW m \in DOMAIN l, m # i
      PROVE  \E k \in DOMAIN listed :
                k = (IF m < i THEN m ELSE m - 1) /\ listed[k] = l[m] /\ k <= m
                /\ m = IF k < i THEN k ELSE k + 1
  <2> DEFINE k == IF m < i THEN m ELSE m - 1
  <2>1. k \in 1..n /\ k <= m /\ m = IF k < i THEN k ELSE k + 1
    <3> HIDE DEF n
    <3> QED  BY <1>1, <1>3, <1>4 DEF n
  <2> QED  BY <1>1, <1>3, <1>4, <2>1
<1>5. \A k \in DOMAIN listed : listed[k] # z
  BY DEF ToSet
<1>6. ASSUME NEW m \in DOMAIN l, NEW j \in DOMAIN l, l[m] = l[j]
      PROVE  m = j
  <2>1. CASE m = i \/ j = i
    BY <1>3, <1>4, <1>5, <1>6, <2>1
  <2>2. CASE m # i /\ j # i
    <3>1. PICK a \in DOMAIN listed : listed[a] = l[m] /\ m = IF a < i THEN a ELSE a + 1
      BY <1>4, <2>2
    <3>2. PICK b \in DOMAIN listed : listed[b] = l[j] /\ j = IF b < i THEN b ELSE b + 1
      BY <1>4, <2>2
    <3>3. a = b
      BY <1>6, <3>1, <3>2 DEF DInv, DistinctListing
    <3> QED  BY <3>1, <3>2, <3>3
  <2> QED  BY <2>1, <2>2
<1>7. Advances(l, tagsOf)
  <2> SUFFICES ASSUME NEW m \in DOMAIN l, l[m] \in stable
               PROVE  \E k \in DOMAIN listed :
                         /\ listed[k] = l[m] /\ k <= m
                         /\ Count(listed, MatchingIn(tagsOf), k) <= Count(l, MatchingIn(tagsOf), m)
    BY DEF Advances
  <2>1. m # i
    <3>1. stable \subseteq ToSet(listed)
      BY WantedZones DEF DInv, HistoryInv
    <3> QED  BY <1>3, <3>1
  <2>2. PICK k \in DOMAIN listed : /\ listed[k] = l[m] /\ k <= m
                                   /\ m = IF k < i THEN k ELSE k + 1
    BY <1>4, <2>1
  <2>3. Count(listed, MatchingIn(tagsOf), k) <= Count(l, MatchingIn(tagsOf), m)
    BY <1>1, <1>2, <2>2, CountInserted
  <2> QED  BY <2>2, <2>3
<1>8. Becomes(l, tagsOf)
  BY DEF l
<1> QED  BY <1>1, <1>3, <1>6, <1>7, <1>8, BecomesStep

\* A zone that is removed leaves the listing, so it shrinks.
LEMMA RemovedStep == DInv /\ ZoneRemoved => DInv'
<1> SUFFICES ASSUME DInv, NEW i \in DOMAIN listed, Becomes(RemoveAt(listed, i), tagsOf)
             PROVE  DInv'
  BY DEF ZoneRemoved
<1> DEFINE l == RemoveAt(listed, i)
           n == Len(listed)
<1>1. /\ n \in Nat /\ listed \in Seq(Zones) /\ DOMAIN listed = 1..n
      /\ tagsOf \in [Zones -> TagSets]
  BY LenProperties DEF DInv, TypeOK
<1>2. /\ l \in Seq(Zones) /\ DOMAIN l = 1..(n - 1)
      /\ \A k \in 1..(n - 1) : l[k] = listed[IF k < i THEN k ELSE k + 1]
  BY <1>1, RemoveEntries
<1> HIDE DEF l
<1>3. ASSUME NEW m \in DOMAIN l
      PROVE  \E k \in DOMAIN listed : /\ k # i /\ listed[k] = l[m]
                                      /\ k = IF m < i THEN m ELSE m + 1
  <2> DEFINE k == IF m < i THEN m ELSE m + 1
  <2>1. k \in 1..n /\ k # i
    BY <1>1, <1>2
  <2> QED  BY <1>1, <1>2, <2>1
<1>4. ASSUME NEW m \in DOMAIN l, NEW j \in DOMAIN l, l[m] = l[j]
      PROVE  m = j
  <2>1. PICK a \in DOMAIN listed : listed[a] = l[m] /\ a = IF m < i THEN m ELSE m + 1
    BY <1>3
  <2>2. PICK b \in DOMAIN listed : listed[b] = l[j] /\ b = IF j < i THEN j ELSE j + 1
    BY <1>3
  <2>3. a = b
    BY <1>4, <2>1, <2>2 DEF DInv, DistinctListing
  <2>4. m \in Nat /\ j \in Nat /\ i \in Nat
    BY <1>1, <1>2
  <2> QED  BY <2>1, <2>2, <2>3, <2>4
<1>5. listed[i] \in ToSet(listed) /\ listed[i] \notin ToSet(l)
  <2>1. \A m \in DOMAIN l : l[m] # listed[i]
    BY <1>3 DEF DInv, DistinctListing
  <2> QED  BY <2>1 DEF ToSet
<1>6. Becomes(l, tagsOf)
  BY DEF l
<1>7. shrunk'
  BY <1>5, <1>6 DEF Becomes
<1> QED  BY <1>1, <1>2, <1>4, <1>6, <1>7, BecomesStep

\* Changed tags take no wanted zone out, or the tag listing shrinks.
LEMMA RetaggedStep == DInv /\ ZoneRetagged => DInv'
<1> SUFFICES ASSUME DInv, NEW z \in ToSet(listed), NEW new \in TagSets,
                    Becomes(listed, [tagsOf EXCEPT ![z] = new])
             PROVE  DInv'
  BY DEF ZoneRetagged
<1> DEFINE t == [tagsOf EXCEPT ![z] = new]
<1>1. /\ listed \in Seq(Zones) /\ DOMAIN listed = 1..Len(listed) /\ Len(listed) \in Nat
      /\ t \in [Zones -> TagSets]
  BY LenProperties DEF DInv, TypeOK
<1>2. Becomes(listed, t)
  OBVIOUS
<1> HIDE DEF t
<1>3. ASSUME ~shrunk'  PROVE Advances(listed, t)
  <2> SUFFICES ASSUME NEW m \in DOMAIN listed, filters # << >>
               PROVE  Count(listed, MatchingIn(tagsOf), m) <= Count(listed, MatchingIn(t), m)
    BY <1>1 DEF Advances
  <2>1. Wanted(listed, tagsOf) \subseteq Wanted(listed, t)
    BY <1>2, <1>3 DEF Becomes
  <2>2. \A i \in DOMAIN listed : listed[i] \in MatchingIn(tagsOf) => listed[i] \in MatchingIn(t)
    <3> SUFFICES ASSUME NEW i \in DOMAIN listed, listed[i] \in MatchingIn(tagsOf)
                 PROVE  listed[i] \in MatchingIn(t)
      OBVIOUS
    <3>1. listed[i] \in ToSet(listed) /\ listed[i] \in Zones
      BY <1>1 DEF ToSet, MatchingIn
    <3>2. listed[i] \in Wanted(listed, t)
      BY <2>1, <3>1, WantedZones DEF MatchingIn
    <3> QED  BY <3>1, <3>2, WantedZones DEF MatchingIn
  <2>3. m \in 0..Len(listed)
    BY <1>1
  <2> QED  BY <1>1, <2>2, <2>3, CountGrows
<1> QED  BY <1>1, <1>2, <1>3, BecomesStep DEF DInv, DistinctListing

-----------------------------------------------------------------------------
(* collectAccount's own steps keep it *)

\* What these steps leave to the service.
LEMMA ServiceKept ==
  ASSUME UNCHANGED Service
  PROVE  /\ UNCHANGED <<filters, listed, tagsOf, changes, shrunk, stable>>
         /\ Wanted(listed, tagsOf)' = Wanted(listed, tagsOf)
         /\ Satisfying(TagQuery)' = Satisfying(TagQuery)
         /\ TagListing(TagQuery)' = TagListing(TagQuery)
BY DEF Service, Wanted, Matches, Satisfying, TagQuery, TagListing

\* The zones kept of a listing satisfy the query.
LEMMA ListedWanted ==
  ASSUME TypeOK, filters # << >>
  PROVE  ToSet(listed) \cap Satisfying(TagQuery) = Wanted(listed, tagsOf)
<1>1. Satisfying(TagQuery) = {z \in Zones : Matches(tagsOf[z])}
  BY QueryMeaning DEF TypeOK
<1>2. ToSet(listed) \subseteq Zones
  BY LenProperties DEF TypeOK, ToSet
<1> QED  BY <1>1, <1>2 DEF Wanted

\* The tag listing: an item that is no zone, then the zones that satisfy the query.
LEMMA TagListingEntries ==
  ASSUME TypeOK
  PROVE  LET L == TagListing(TagQuery)
             S == Satisfying(TagQuery)
         IN  /\ L \in Seq(Zones \cup {NoZone})
             /\ ToSet(L) \subseteq {NoZone} \cup (ToSet(listed) \cap S)
             /\ \A i \in DOMAIN listed : listed[i] \in S =>
                   1 + Count(listed, S, i) \in DOMAIN L /\ L[1 + Count(listed, S, i)] = listed[i]
<1> DEFINE S == Satisfying(TagQuery)
           kept == Kept(listed, S)
           one == <<NoZone>>
           L == one \o kept
           c(i) == Count(listed, S, i)
<1>1. TagListing(TagQuery) = L
  BY DEF TagListing
<1>2. listed \in Seq(Zones)
  BY DEF TypeOK
<1>3. /\ kept \in Seq(Zones)
      /\ \A i \in DOMAIN listed : listed[i] \in S => c(i) \in 1..Len(kept) /\ kept[c(i)] = listed[i]
  BY <1>2, KeptEntries
<1>4. ToSet(kept) = ToSet(listed) \cap S
  BY <1>2, KeptSet
<1>5. Len(kept) \in Nat /\ DOMAIN kept = 1..Len(kept) /\ \A k \in 1..Len(kept) : kept[k] \in Zones
  BY <1>3, LenProperties
<1> DEFINE Items == Zones \cup {NoZone}
<1>6. kept \in Seq(Items) /\ one \in Seq(Items) /\ Len(one) = 1 /\ one[1] = NoZone
  <2> HIDE DEF kept
  <2>1. kept \in Seq(Items)
    BY <1>3, <1>5
  <2> QED  BY <2>1
<1> HIDE DEF kept, one, Items, c, S
<1> DEFINE n == 1 + Len(kept)
<1>7. /\ L \in Seq(Items) /\ Len(L) = n
      /\ \A k \in 1..n : L[k] = IF k <= 1 THEN one[k] ELSE kept[k - 1]
  <2>1. /\ L \in Seq(Items) /\ Len(L) = Len(one) + Len(kept)
        /\ \A k \in 1..(Len(one) + Len(kept)) :
              L[k] = IF k <= Len(one) THEN one[k] ELSE kept[k - Len(one)]
    BY <1>6, ConcatProperties
  <2> HIDE DEF L
  <2> QED  BY <1>6, <2>1
<1> HIDE DEF L
<1>8. DOMAIN L = 1..n
  BY <1>5, <1>7, LenProperties
<1>9. ToSet(L) \subseteq {NoZone} \cup (ToSet(listed) \cap S)
  <2> SUFFICES ASSUME NEW k \in 1..n  PROVE L[k] \in {NoZone} \cup ToSet(kept)
    BY <1>4, <1>8 DEF ToSet
  <2>1. CASE k = 1
    BY <1>5, <1>6, <1>7, <2>1
  <2>2. CASE k # 1
    <3>1. k - 1 \in DOMAIN kept /\ ~(k <= 1)
      BY <1>5, <2>2
    <3>2. L[k] = kept[k - 1]
      BY <1>7, <3>1
    <3> QED  BY <3>1, <3>2 DEF ToSet
  <2> QED  BY <2>1, <2>2
<1>10. ASSUME NEW i \in DOMAIN listed, listed[i] \in S
       PROVE  1 + c(i) \in DOMAIN L /\ L[1 + c(i)] = listed[i]
  <2>1. c(i) \in 1..Len(kept) /\ kept[c(i)] = listed[i]
    BY <1>3, <1>10
  <2>2. 1 + c(i) \in 1..n /\ ~(1 + c(i) <= 1) /\ (1 + c(i)) - 1 = c(i)
    BY <1>5, <2>1
  <2>3. L[1 + c(i)] = kept[c(i)]
    BY <1>7, <2>2
  <2> QED  BY <1>8, <2>1, <2>2, <2>3
<1> QED  BY <1>1, <1>7, <1>9, <1>10 DEF L, Items, c, S

\* A page of zones: what was ahead within a page is now read.
LEMMA ZonePageStep == DInv /\ ZonePage => DInv'
<1> SUFFICES ASSUME DInv, ZonePage  PROVE DInv'
  OBVIOUS
<1>1. /\ pc = "zones" /\ pc' = "zones"
      /\ out' = out \o Page(listed) /\ page' = page + 1
      /\ result' = result /\ selected' = selected /\ matching' = matching
  BY DEF ZonePage
<1>2. UNCHANGED Service
  BY DEF ZonePage
<1>3. TypeOK
  BY DEF DInv
<1>4. listed \in Seq(Zones) /\ out \in Seq(Zones) /\ page \in Nat
  BY <1>3 DEF TypeOK
<1>5. /\ Page(listed) \in Seq(Zones)
      /\ \A i \in DOMAIN listed :
            Read < i /\ i <= Read + PageSize => listed[i] \in ToSet(Page(listed))
  BY <1>4, PageEntries
<1>6. out' \in Seq(Zones) /\ ToSet(out) \subseteq ToSet(out') /\ ToSet(Page(listed)) \subseteq ToSet(out')
  <2>1. out \o Page(listed) \in Seq(Zones)
    BY <1>4, <1>5, ConcatProperties
  <2> QED  BY <1>1, <1>4, <1>5, <2>1, ToSetJoin
<1>7. Read \in Nat /\ Read' = Read + PageSize /\ PageSize \in Nat
  BY <1>1, <1>4, ReadSteps
<1>8. TypeOK'
  <2>1. page' \in Nat
    BY <1>1, <1>4
  <2> QED  BY <1>1, <1>2, <1>3, <1>6, <2>1, ServiceKept DEF TypeOK
<1>9. DistinctListing' /\ HistoryInv'
  BY <1>2, ServiceKept DEF DInv, DistinctListing, HistoryInv
<1>10. ZonesInv'
  <2> SUFFICES ASSUME ~shrunk, NEW i \in DOMAIN listed, listed[i] \in stable
               PROVE  listed[i] \in ToSet(out') \/ Read' < i
    BY <1>1, <1>2, ServiceKept DEF DInv, ZonesInv
  <2>1. listed[i] \in ToSet(out) \/ Read < i
    BY <1>1 DEF DInv, ZonesInv
  <2>2. i \in Nat
    BY <1>4, LenProperties
  <2>3. CASE Read < i /\ i <= Read + PageSize
    BY <1>5, <1>6, <2>3
  <2>4. CASE ~(Read < i) /\ listed[i] \in ToSet(out)
    BY <1>6, <2>4
  <2>5. CASE ~(i <= Read + PageSize)
    BY <1>7, <2>2, <2>5
  <2> QED  BY <2>1, <2>3, <2>4, <2>5
<1> QED
  BY <1>1, <1>8, <1>9, <1>10 DEF DInv, TagsInv, SelectionMatches, StableZonesSelected

\* The empty page comes when every zone listed has been read.
LEMMA ZonesListedStep == DInv /\ ZonesListed => DInv'
<1> SUFFICES ASSUME DInv, ZonesListed  PROVE DInv'
  OBVIOUS
<1>1. /\ pc = "zones" /\ pc' = "tags" /\ page' = 0 /\ Page(listed) = << >>
      /\ matching' = Wanted(listed, tagsOf)
      /\ out' = out /\ result' = result /\ selected' = selected
  BY DEF ZonesListed
<1>2. UNCHANGED Service
  BY DEF ZonesListed
<1>3. TypeOK
  BY DEF DInv
<1>4. listed \in Seq(Zones) /\ page \in Nat /\ Len(listed) \in Nat /\ DOMAIN listed = 1..Len(listed)
  BY <1>3, LenProperties DEF TypeOK
<1>5. Len(listed) <= Read /\ Read \in Nat /\ Read' = 0
  BY <1>1, <1>4, PageEntries, ReadSteps
<1>6. Wanted(listed, tagsOf) \subseteq Zones
  <2>1. ToSet(listed) \subseteq Zones
    BY <1>4, LenProperties DEF ToSet
  <2> QED  BY <2>1, WantedZones
<1>7. TypeOK'
  <2>1. page' \in Nat /\ pc' \in {"zones", "tags", "selected", "failed"} /\ matching' \subseteq Zones
    BY <1>1, <1>6
  <2> QED  BY <1>1, <1>2, <1>3, <2>1, ServiceKept DEF TypeOK
<1>8. DistinctListing' /\ HistoryInv'
  BY <1>2, ServiceKept DEF DInv, DistinctListing, HistoryInv
<1>9. ~shrunk => stable \subseteq ToSet(out)
  <2> SUFFICES ASSUME ~shrunk, NEW z \in stable  PROVE z \in ToSet(out)
    OBVIOUS
  <2>1. z \in ToSet(listed)
    BY WantedZones DEF DInv, HistoryInv
  <2>2. PICK i \in DOMAIN listed : listed[i] = z
    BY <2>1 DEF ToSet
  <2>3. listed[i] \in ToSet(out) \/ Read < i
    BY <1>1, <2>2 DEF DInv, ZonesInv
  <2> QED  BY <1>4, <1>5, <2>2, <2>3
<1>10. \A i \in DOMAIN listed : 0 < 1 + Count(listed, Satisfying(TagQuery), i)
  <2> SUFFICES ASSUME NEW i \in DOMAIN listed
               PROVE  Count(listed, Satisfying(TagQuery), i) \in Nat
    OBVIOUS
  <2>1. i \in 0..Len(listed)
    BY <1>4
  <2> QED  BY <1>4, <2>1, CountSteps
<1>11. result = {}
  BY <1>1 DEF DInv, ZonesInv
<1>12. TagsInv'
  <2>1. Wanted(listed, tagsOf)' \subseteq matching'
    BY <1>1, <1>2, ServiceKept
  <2>2. \A p \in result' : p[1] \in matching'
    BY <1>1, <1>11
  <2>3. \A i \in DOMAIN listed' : Read' < 1 + Count(listed', Satisfying(TagQuery)', i)
    BY <1>2, <1>5, <1>10, ServiceKept
  <2>4. ~shrunk' => stable' \subseteq ToSet(out')
    BY <1>1, <1>2, <1>9, ServiceKept
  <2> QED  BY <2>1, <2>2, <2>3, <2>4 DEF TagsInv
<1>13. ZonesInv' /\ SelectionMatches' /\ StableZonesSelected'
  BY <1>1 DEF ZonesInv, SelectionMatches, StableZonesSelected
<1> QED  BY <1>7, <1>8, <1>12, <1>13 DEF DInv

\* A failed listing ends the account.
LEMMA ListZonesFailsStep == DInv /\ ListZonesFails => DInv'
<1> SUFFICES ASSUME DInv, ListZonesFails  PROVE DInv'
  OBVIOUS
<1>1. /\ pc' = "failed" /\ out' = << >>
      /\ page' = page /\ result' = result /\ selected' = selected /\ matching' = matching
  BY DEF ListZonesFails
<1>2. UNCHANGED Service
  BY DEF ListZonesFails
<1>3. TypeOK'
  <2>1. out' \in Seq(Zones) /\ pc' \in {"zones", "tags", "selected", "failed"}
    BY <1>1
  <2> QED  BY <1>1, <1>2, <2>1, ServiceKept DEF DInv, TypeOK
<1>4. DistinctListing' /\ HistoryInv'
  BY <1>2, ServiceKept DEF DInv, DistinctListing, HistoryInv
<1> QED
  BY <1>1, <1>3, <1>4 DEF DInv, ZonesInv, TagsInv, SelectionMatches, StableZonesSelected

\* A page of the tag listing names its zones, and no other becomes named.
LEMMA TagPageResult ==
  ASSUME TypeOK, TagPage
  PROVE  LET items == ToSet(Page(TagListing(TagQuery)))
         IN  /\ \A p \in result' : p \in result \/ (p[1] \in items /\ p[1] # NoZone)
             /\ \A z \in Zones : InTags(z) \/ z \in items => \E p \in result' : p[1] = z
<1> DEFINE items == ToSet(Page(TagListing(TagQuery)))
<1>1. PICK t \in [items -> UNION {Decoded(z) : z \in items}] :
             result' = {p \in result : p[1] \notin items} \cup UNION {Named(z, t[z]) : z \in items}
  BY DEF TagPage
<1> HIDE DEF items
<1>2. ASSUME NEW p, p \in result', p \notin result  PROVE p[1] \in items /\ p[1] # NoZone
  <2>1. PICK z \in items : p \in Named(z, t[z])
    BY <1>1, <1>2
  <2>2. z # NoZone /\ p = <<z, t[z]>>
    BY <2>1 DEF Named
  <2> QED  BY <2>1, <2>2
<1>3. ASSUME NEW z \in Zones, z \in items  PROVE \E p \in result' : p[1] = z
  <2>1. z # NoZone
    BY DiscoveryAssumption DEF NoZone
  <2>2. <<z, t[z]>> \in Named(z, t[z])
    BY <2>1 DEF Named
  <2>3. <<z, t[z]>> \in result'
    BY <1>1, <1>3, <2>2
  <2> QED  BY <2>3
<1>4. ASSUME NEW z \in Zones, InTags(z), z \notin items
      PROVE  \E p \in result' : p[1] = z
  <2>1. PICK p \in result : p[1] = z
    BY <1>4 DEF InTags
  <2>2. p \in result'
    BY <1>1, <1>4, <2>1
  <2> QED  BY <2>1, <2>2
<1>5. \A p \in result' : p \in result \/ (p[1] \in items /\ p[1] # NoZone)
  BY <1>2
<1>6. \A z \in Zones : InTags(z) \/ z \in items => \E p \in result' : p[1] = z
  BY <1>3, <1>4
<1> QED  BY <1>5, <1>6 DEF items

\* A page of tags: what was ahead within a page is now named, the rest still ahead.
LEMMA TagPageStep == DInv /\ TagPage => DInv'
<1> SUFFICES ASSUME DInv, TagPage  PROVE DInv'
  OBVIOUS
<1> DEFINE L == TagListing(TagQuery)
           items == ToSet(Page(L))
           S == Satisfying(TagQuery)
<1>1. /\ pc = "tags" /\ pc' = "tags" /\ page' = page + 1
      /\ out' = out /\ selected' = selected /\ matching' = matching
  BY DEF TagPage
<1>2. UNCHANGED Service
  BY DEF TagPage
<1>3. TypeOK
  BY DEF DInv
<1>4. /\ listed \in Seq(Zones) /\ page \in Nat
      /\ DOMAIN listed = 1..Len(listed) /\ \A i \in DOMAIN listed : listed[i] \in Zones
  BY <1>3, LenProperties DEF TypeOK
<1>5. /\ \A p \in result' : p \in result \/ (p[1] \in items /\ p[1] # NoZone)
      /\ \A z \in Zones : InTags(z) \/ z \in items => \E p \in result' : p[1] = z
  BY <1>3, TagPageResult
<1>6. /\ L \in Seq(Zones \cup {NoZone})
      /\ ToSet(L) \subseteq {NoZone} \cup (ToSet(listed) \cap S)
      /\ \A i \in DOMAIN listed : listed[i] \in S =>
            1 + Count(listed, S, i) \in DOMAIN L /\ L[1 + Count(listed, S, i)] = listed[i]
  BY <1>3, TagListingEntries
<1> HIDE DEF L
<1>7. /\ items \subseteq ToSet(L)
      /\ \A j \in DOMAIN L : Read < j /\ j <= Read + PageSize => L[j] \in items
  BY <1>4, <1>6, PageEntries
<1> HIDE DEF items, S
<1>8. Read \in Nat /\ Read' = Read + PageSize /\ PageSize \in Nat
  BY <1>1, <1>4, ReadSteps
<1>9. \A z \in items : z # NoZone => z \in ToSet(listed) \cap S
  BY <1>6, <1>7
<1>10. \A p \in result' : p \in result \/ p[1] \in ToSet(listed) \cap S
  BY <1>5, <1>9
<1>11. TypeOK'
  <2>1. ToSet(listed) \subseteq Zones
    BY <1>4 DEF ToSet
  <2>2. \A p \in result' : p[1] \in Zones
    BY <1>3, <1>10, <2>1 DEF TypeOK
  <2>3. page' \in Nat
    BY <1>1, <1>4
  <2> QED  BY <1>1, <1>2, <1>3, <2>2, <2>3, ServiceKept DEF TypeOK
<1>12. DistinctListing' /\ HistoryInv'
  BY <1>2, ServiceKept DEF DInv, DistinctListing, HistoryInv
<1>13. TagsInv'
  <2>1. ~shrunk' => stable' \subseteq ToSet(out')
    BY <1>1, <1>2, ServiceKept DEF DInv, TagsInv
  <2>2. ASSUME filters # << >>
        PROVE  /\ Wanted(listed, tagsOf)' \subseteq matching'
               /\ \A p \in result' : p[1] \in matching'
    <3>1. Wanted(listed, tagsOf) \subseteq matching /\ \A p \in result : p[1] \in matching
      BY <1>1, <2>2 DEF DInv, TagsInv
    <3>2. ToSet(listed) \cap S = Wanted(listed, tagsOf)
      BY <1>3, <2>2, ListedWanted DEF S
    <3> QED  BY <1>1, <1>2, <1>10, <3>1, <3>2, ServiceKept
  <2>3. ASSUME filters # << >>, ~shrunk, NEW i \in DOMAIN listed, listed[i] \in stable
        PROVE  (\E p \in result' : p[1] = listed[i]) \/ Read' < 1 + Count(listed, S, i)
    <3> DEFINE c == Count(listed, S, i)
    <3>1. InTags(listed[i]) \/ Read < 1 + c
      BY <1>1, <2>3 DEF DInv, TagsInv, S
    <3>2. c \in Nat
      <4>1. i \in 0..Len(listed)
        BY <1>4, LenProperties
      <4> QED  BY <1>4, <4>1, CountSteps
    <3>3. listed[i] \in S
      BY <1>3, <2>3, ListedWanted DEF DInv, HistoryInv, S
    <3>4. 1 + c \in DOMAIN L /\ L[1 + c] = listed[i]
      BY <1>6, <3>3
    <3> HIDE DEF c
    <3>5. CASE InTags(listed[i])
      BY <1>4, <1>5, <3>5
    <3>6. CASE Read < 1 + c /\ 1 + c <= Read + PageSize
      <4>1. listed[i] \in items
        BY <1>7, <3>4, <3>6
      <4> QED  BY <1>4, <1>5, <4>1
    <3>7. CASE ~(1 + c <= Read + PageSize)
      <4>1. Read' < 1 + c
        BY <1>8, <3>2, <3>7
      <4> QED  BY <4>1 DEF c
    <3> QED  BY <3>1, <3>5, <3>6, <3>7
  <2>4. ASSUME filters # << >>, ~shrunk, NEW i \in DOMAIN listed, listed[i] \in stable
        PROVE  InTags(listed[i])' \/ Read' < 1 + Count(listed', Satisfying(TagQuery)', i)
    <3>1. listed' = listed /\ Satisfying(TagQuery)' = S
      BY <1>2, ServiceKept DEF S
    <3>2. InTags(listed[i])' <=> \E p \in result' : p[1] = listed[i]
      BY <3>1 DEF InTags
    <3> QED  BY <2>3, <2>4, <3>1, <3>2
  <2>5. UNCHANGED <<filters, listed, shrunk, stable>>
    BY <1>2, ServiceKept
  <2> QED  BY <2>1, <2>2, <2>4, <2>5 DEF TagsInv
<1> QED
  BY <1>1, <1>11, <1>12, <1>13 DEF DInv, ZonesInv, SelectionMatches, StableZonesSelected

\* What Select takes of the zones listed.
LEMMA SelectedZones ==
  ASSUME TypeOK, Select
  PROVE  /\ selected' \in Seq(Zones)
         /\ ToSet(selected') = {z \in ToSet(out) : filters # << >> => InTags(z)}
<1> DEFINE S == {z \in Zones : filters # << >> => InTags(z)}
<1>1. out \in Seq(Zones) /\ ToSet(out) \subseteq Zones
  BY LenProperties DEF TypeOK, ToSet
<1>2. selected' = Kept(out, S)
  BY DEF Select
<1> HIDE DEF S
<1>3. selected' \in Seq(Zones) /\ ToSet(selected') = ToSet(out) \cap S
  BY <1>1, <1>2, KeptEntries, KeptSet
<1> QED  BY <1>1, <1>3 DEF S

\* The empty page of tags comes when every zone that satisfies the query is named.
LEMMA ZoneTagsStep == DInv /\ ZoneTags => DInv'
<1> SUFFICES ASSUME DInv, ZoneTags  PROVE DInv'
  OBVIOUS
<1> DEFINE L == TagListing(TagQuery)
           S == Satisfying(TagQuery)
<1>1. /\ pc = "tags" /\ pc' = "selected" /\ Page(L) = << >> /\ Select
      /\ page' = page /\ out' = out /\ result' = result /\ matching' = matching
  BY DEF ZoneTags, Select
<1>2. UNCHANGED Service
  BY DEF ZoneTags, Select
<1>3. TypeOK
  BY DEF DInv
<1>4. /\ selected' \in Seq(Zones)
      /\ ToSet(selected') = {z \in ToSet(out) : filters # << >> => InTags(z)}
  BY <1>1, <1>3, SelectedZones
<1>5. listed \in Seq(Zones) /\ page \in Nat /\ Len(listed) \in Nat /\ DOMAIN listed = 1..Len(listed)
  BY <1>3, LenProperties DEF TypeOK
<1>6. /\ L \in Seq(Zones \cup {NoZone})
      /\ \A i \in DOMAIN listed : listed[i] \in S => 1 + Count(listed, S, i) \in DOMAIN L
  BY <1>3, TagListingEntries
<1> HIDE DEF L
<1>7. Len(L) <= Read /\ Read \in Nat /\ Len(L) \in Nat /\ DOMAIN L = 1..Len(L)
  BY <1>1, <1>5, <1>6, PageEntries, ReadSteps, LenProperties
<1>8. TypeOK'
  <2>1. pc' \in {"zones", "tags", "selected", "failed"}
    BY <1>1
  <2> QED  BY <1>1, <1>2, <1>3, <1>4, <2>1, ServiceKept DEF TypeOK
<1>9. DistinctListing' /\ HistoryInv'
  BY <1>2, ServiceKept DEF DInv, DistinctListing, HistoryInv
<1>10. SelectionMatches'
  <2> SUFFICES ASSUME filters # << >>  PROVE ToSet(selected') \subseteq matching
    BY <1>1, <1>2, ServiceKept DEF SelectionMatches
  <2>1. \A p \in result : p[1] \in matching
    BY <1>1 DEF DInv, TagsInv
  <2> QED  BY <1>4, <2>1 DEF InTags
<1>11. StableZonesSelected'
  <2> SUFFICES ASSUME ~shrunk, NEW z \in stable  PROVE z \in ToSet(selected')
    BY <1>1, <1>2, ServiceKept DEF StableZonesSelected
  <2>1. z \in ToSet(out)
    BY <1>1 DEF DInv, TagsInv
  <2>2. ASSUME filters # << >>  PROVE InTags(z)
    <3>1. z \in Wanted(listed, tagsOf)
      BY DEF DInv, HistoryInv
    <3>2. z \in S /\ z \in ToSet(listed)
      BY <1>3, <2>2, <3>1, ListedWanted
    <3>3. PICK i \in DOMAIN listed : listed[i] = z
      BY <3>2 DEF ToSet
    <3>4. InTags(listed[i]) \/ Read < 1 + Count(listed, S, i)
      BY <1>1, <2>2, <3>3 DEF DInv, TagsInv
    <3>5. 1 + Count(listed, S, i) \in 1..Len(L)
      BY <1>6, <1>7, <3>2, <3>3
    <3>6. ~(Read < 1 + Count(listed, S, i))
      <4> DEFINE c == 1 + Count(listed, S, i)
      <4> HIDE DEF c
      <4>1. c \in 1..Len(L)
        BY <3>5 DEF c
      <4>2. ~(Read < c)
        BY <1>7, <4>1
      <4> QED  BY <4>2 DEF c
    <3> QED  BY <3>3, <3>4, <3>6
  <2> QED  BY <1>4, <2>1, <2>2
<1> QED  BY <1>1, <1>8, <1>9, <1>10, <1>11 DEF DInv, ZonesInv, TagsInv

\* Without filters the account goes on when the tags cannot be read.
LEMMA ZoneTagsFailsStep == DInv /\ ZoneTagsFails => DInv'
<1> SUFFICES ASSUME DInv, ZoneTagsFails  PROVE DInv'
  OBVIOUS
<1>1. /\ pc = "tags" /\ result' = {}
      /\ pc' = (IF filters # << >> THEN "failed" ELSE "selected")
      /\ selected' = (IF filters # << >> THEN << >> ELSE out)
      /\ page' = page /\ out' = out /\ matching' = matching
  BY DEF ZoneTagsFails
<1>2. UNCHANGED Service
  BY DEF ZoneTagsFails
<1>3. TypeOK
  BY DEF DInv
<1>4. TypeOK'
  <2>1. << >> \in Seq(Zones)
    OBVIOUS
  <2>2. selected' \in Seq(Zones) /\ pc' \in {"zones", "tags", "selected", "failed"}
    BY <1>1, <1>3, <2>1 DEF TypeOK
  <2>3. \A p \in result' : p[1] \in Zones
    BY <1>1
  <2> QED  BY <1>1, <1>2, <1>3, <2>2, <2>3, ServiceKept DEF TypeOK
<1>5. DistinctListing' /\ HistoryInv'
  BY <1>2, ServiceKept DEF DInv, DistinctListing, HistoryInv
<1>6. SelectionMatches'
  BY <1>1, <1>2, ServiceKept DEF SelectionMatches
<1>7. StableZonesSelected'
  BY <1>1, <1>2, ServiceKept DEF StableZonesSelected, DInv, TagsInv
<1>8. ZonesInv' /\ TagsInv'
  BY <1>1 DEF ZonesInv, TagsInv
<1> QED  BY <1>4, <1>5, <1>6, <1>7, <1>8 DEF DInv

\* A stuttering step keeps everything.
LEMMA DiscoveryKept == DInv /\ UNCHANGED vars => DInv'
<1> SUFFICES ASSUME DInv, UNCHANGED vars  PROVE DInv'
  OBVIOUS
<1>1. UNCHANGED Service /\ UNCHANGED <<pc, page, out, result, selected, matching>>
  BY DEF vars, Service
<1>2. UNCHANGED <<filters, listed, tagsOf, changes, shrunk, stable>>
      /\ Wanted(listed, tagsOf)' = Wanted(listed, tagsOf)
      /\ Satisfying(TagQuery)' = Satisfying(TagQuery)
  BY <1>1, ServiceKept
<1>3. Read' = Read /\ \A i : InTags(listed[i])' <=> InTags(listed[i])
  BY <1>1, <1>2 DEF Read, InTags
<1>4. TypeOK'
  BY <1>1, <1>2 DEF DInv, TypeOK
<1>5. DistinctListing' /\ HistoryInv'
  BY <1>2 DEF DInv, DistinctListing, HistoryInv
<1>6. ZonesInv'
  BY <1>1, <1>2, <1>3 DEF DInv, ZonesInv
<1>7. TagsInv'
  BY <1>1, <1>2, <1>3 DEF DInv, TagsInv
<1>8. SelectionMatches' /\ StableZonesSelected'
  BY <1>1, <1>2 DEF DInv, SelectionMatches, StableZonesSelected
<1> QED  BY <1>4, <1>5, <1>6, <1>7, <1>8 DEF DInv

-----------------------------------------------------------------------------
(* The theorems *)

\* The inductive invariant holds throughout, for any account, page size, set of
\* jobs and number of changes (collectAccount, ListZones and ZoneTags).
THEOREM DiscoveryInvariance == Spec => []DInv
<1>1. Init => DInv
  BY DiscoveryInit
<1>2. DInv /\ [Next]_vars => DInv'
  <2> SUFFICES ASSUME DInv, [Next]_vars  PROVE DInv'
    OBVIOUS
  <2>1. CASE ZoneAdded
    BY <2>1, AddedStep
  <2>2. CASE ZoneRemoved
    BY <2>2, RemovedStep
  <2>3. CASE ZoneRetagged
    BY <2>3, RetaggedStep
  <2>4. CASE ZonePage
    BY <2>4, ZonePageStep
  <2>5. CASE ZonesListed
    BY <2>5, ZonesListedStep
  <2>6. CASE ListZonesFails
    BY <2>6, ListZonesFailsStep
  <2>7. CASE TagPage
    BY <2>7, TagPageStep
  <2>8. CASE ZoneTags
    BY <2>8, ZoneTagsStep
  <2>9. CASE ZoneTagsFails
    BY <2>9, ZoneTagsFailsStep
  <2>10. CASE Done \/ UNCHANGED vars
    BY <2>10, DiscoveryKept DEF Done
  <2> QED  BY <2>1, <2>2, <2>3, <2>4, <2>5, <2>6, <2>7, <2>8, <2>9, <2>10 DEF Next
<1> QED  BY <1>1, <1>2, PTL DEF Spec

\* The variables keep their types; only zones get into the map of tags.
THEOREM DiscoveryTypeCorrect == Spec => []TypeOK
<1>1. DInv => TypeOK
  BY DEF DInv
<1> QED  BY <1>1, DiscoveryInvariance, PTL

\* A zone selected by filters matched all of them while tags were read
\* (config.go:42, collector.go:463-470).
THEOREM FiltersHold == Spec => []SelectionMatches
<1>1. DInv => SelectionMatches
  BY DEF DInv
<1> QED  BY <1>1, DiscoveryInvariance, PTL

\* Paging loses no zone that stood and matched throughout, as long as no entry
\* leaves either listing.
THEOREM NothingLost == Spec => []StableZonesSelected
<1>1. DInv => StableZonesSelected
  BY DEF DInv
<1> QED  BY <1>1, DiscoveryInvariance, PTL
=============================================================================
