------------------------ MODULE ZoneHttpMetricsProofs ------------------------
(***************************************************************************)
(* The gauges of an HTTP answer are what its buckets amount to, for any    *)
(* number of zones, buckets and rows and any limit.                        *)
(***************************************************************************)
EXTENDS ZoneHttpMetrics, SumTheorems, FiniteSetTheorems, SequenceTheorems

-----------------------------------------------------------------------------
(* Sequences of series *)

Breakdowns == {"status", "country", "browser"}
Fields(b) == CASE b = "status" -> {"requests"}
               [] b = "country" -> {"requests", "threats"}
               [] b = "browser" -> {"views"}

RowsOf(b) == UNION {{m[b][k] : k \in DOMAIN m[b]} : m \in Minutes}

Metrics == {"requests", "requests_cached", "uniques", "cache_hit_ratio", "error_ratio",
            "requests_status", "requests_country", "threats_country", "browser_page_views"}
Labels  == {"", "edge"} \cup UNION {NamesOf(b) : b \in Breakdowns}
Series  == [zone : Zones, metric : Metrics, label : Labels, value : Nat \cup (Nat \X Nat)]

\* No two entries of a sequence of series are one series.
Distinct(p) ==
    \A i, k \in DOMAIN p :
       p[i].zone = p[k].zone /\ p[i].metric = p[k].metric /\ p[i].label = p[k].label => i = k

StatusPart(p, z) ==
    [i \in DOMAIN p |-> IF p[i].zone = z /\ p[i].metric = "requests_status"
                        THEN p[i].value ELSE 0]

\* The entries of p are the series R of zone z, each once; their metrics are in M
\* and the requests by status add up to n.
Emitted(p, z, M, R, n) ==
    /\ p \in Seq(Series) /\ R = {p[i] : i \in DOMAIN p}
    /\ \A s \in R : s.zone = z /\ s.metric \in M
    /\ Distinct(p)
    /\ \A i \in DOMAIN p : p[i].metric = "requests_status" => p[i].value \in Nat
    /\ SumTo(StatusPart(p, z), Len(p)) = n

\* Concatenation, entry by entry.
LEMMA JoinEntries ==
  ASSUME NEW S, NEW p \in Seq(S), NEW q \in Seq(S)
  PROVE  /\ p \o q \in Seq(S) /\ Len(p \o q) = Len(p) + Len(q)
         /\ DOMAIN (p \o q) = 1..(Len(p) + Len(q))
         /\ \A i \in 1..Len(p) : (p \o q)[i] = p[i]
         /\ \A i \in 1..Len(q) : (p \o q)[Len(p) + i] = q[i]
         /\ \A i \in DOMAIN (p \o q) :
               i \in 1..Len(p) \/ \E k \in 1..Len(q) : i = Len(p) + k
<1>1. Len(p) \in Nat /\ Len(q) \in Nat
  OBVIOUS
<1>2. /\ p \o q \in Seq(S) /\ Len(p \o q) = Len(p) + Len(q)
      /\ \A i \in 1 .. Len(p) + Len(q) :
            (p \o q)[i] = IF i <= Len(p) THEN p[i] ELSE q[i - Len(p)]
  BY ConcatProperties
<1>3. DOMAIN (p \o q) = 1..(Len(p) + Len(q))
  BY <1>2, LenProperties
<1>4. ASSUME NEW i \in 1..Len(q)  PROVE (p \o q)[Len(p) + i] = q[i]
  <2>1. Len(p) + i \in 1..(Len(p) + Len(q)) /\ ~(Len(p) + i <= Len(p))
        /\ (Len(p) + i) - Len(p) = i
    BY <1>1
  <2> QED  BY <1>2, <2>1
<1>5. ASSUME NEW i \in 1..(Len(p) + Len(q)), i \notin 1..Len(p)
      PROVE  \E k \in 1..Len(q) : i = Len(p) + k
  <2>1. i - Len(p) \in 1..Len(q) /\ i = Len(p) + (i - Len(p))
    BY <1>1, <1>5
  <2> QED  BY <2>1
<1> QED  BY <1>1, <1>2, <1>3, <1>4, <1>5

\* The requests by status of two sequences of series add up.
LEMMA JoinStatus ==
  ASSUME NEW z, NEW p \in Seq(Series), NEW q \in Seq(Series),
         \A i \in DOMAIN p : p[i].metric = "requests_status" => p[i].value \in Nat,
         \A i \in DOMAIN q : q[i].metric = "requests_status" => q[i].value \in Nat
  PROVE  SumTo(StatusPart(p \o q, z), Len(p \o q))
            = SumTo(StatusPart(p, z), Len(p)) + SumTo(StatusPart(q, z), Len(q))
<1> DEFINE r == p \o q
<1>1. Len(p) \in Nat /\ Len(q) \in Nat /\ DOMAIN p = 1..Len(p) /\ DOMAIN q = 1..Len(q)
  BY LenProperties
<1>2. /\ Len(r) = Len(p) + Len(q) /\ DOMAIN r = 1..(Len(p) + Len(q))
      /\ \A i \in 1..Len(p) : r[i] = p[i]
      /\ \A i \in 1..Len(q) : r[Len(p) + i] = q[i]
  BY JoinEntries
<1> HIDE DEF r
<1>3. ASSUME NEW k \in 1..Len(p)
      PROVE  StatusPart(p, z)[k] \in Int /\ StatusPart(r, z)[k] = StatusPart(p, z)[k]
  <2>1. k \in 1..(Len(p) + Len(q))
    BY <1>1
  <2> QED  BY <1>1, <1>2, <2>1 DEF StatusPart
<1>4. ASSUME NEW k \in 1..Len(q)
      PROVE  /\ StatusPart(q, z)[k] \in Int
             /\ StatusPart(r, z)[Len(p) + k] = StatusPart(q, z)[k]
  <2>1. Len(p) + k \in 1..(Len(p) + Len(q))
    BY <1>1
  <2> QED  BY <1>1, <1>2, <2>1 DEF StatusPart
<1>5. SumTo(StatusPart(r, z), Len(p) + Len(q))
         = SumTo(StatusPart(p, z), Len(p)) + SumTo(StatusPart(q, z), Len(q))
  <2> DEFINE f == StatusPart(p, z)
             g == StatusPart(q, z)
             h == StatusPart(r, z)
  <2>1. \A k \in 1..Len(p) : f[k] \in Int /\ h[k] = f[k]
    BY <1>3
  <2>2. \A k \in 1..Len(q) : g[k] \in Int /\ h[Len(p) + k] = g[k]
    BY <1>4
  <2> HIDE DEF f, g, h
  <2>3. SumTo(h, Len(p) + Len(q)) = SumTo(f, Len(p)) + SumTo(g, Len(q))
    <3>1. Joined(f, Len(p), g, Len(q), h)
      BY <1>1, <2>1, <2>2 DEF Joined
    <3> QED  BY <3>1, SumJoin
  <2> QED  BY <2>3 DEF f, g, h
<1> QED  BY <1>2, <1>5 DEF r

\* Pieces of an emission with different metrics make up a longer one.
LEMMA JoinEmitted ==
  ASSUME NEW z, NEW p, NEW M, NEW R, NEW n, Emitted(p, z, M, R, n),
         NEW q, NEW N, NEW Q, NEW k, Emitted(q, z, N, Q, k), M \cap N = {}
  PROVE  Emitted(p \o q, z, M \cup N, R \cup Q, n + k)
<1> DEFINE r == p \o q
<1>1. p \in Seq(Series) /\ q \in Seq(Series)
  BY DEF Emitted
<1>2. Len(p) \in Nat /\ Len(q) \in Nat /\ DOMAIN p = 1..Len(p) /\ DOMAIN q = 1..Len(q)
  BY <1>1, LenProperties
<1>3. /\ r \in Seq(Series) /\ Len(r) = Len(p) + Len(q)
      /\ DOMAIN r = 1..(Len(p) + Len(q))
      /\ \A i \in 1..Len(p) : r[i] = p[i]
      /\ \A i \in 1..Len(q) : r[Len(p) + i] = q[i]
      /\ \A i \in DOMAIN r : i \in 1..Len(p) \/ \E j \in 1..Len(q) : i = Len(p) + j
  BY <1>1, JoinEntries
<1>4. SumTo(StatusPart(r, z), Len(r)) = n + k
  BY <1>1, JoinStatus DEF Emitted
<1> HIDE DEF r
<1>5. /\ \A i \in 1..Len(p) : i \in DOMAIN r
      /\ \A j \in 1..Len(q) : Len(p) + j \in DOMAIN r
  BY <1>2, <1>3
<1>11. R = {p[i] : i \in 1..Len(p)} /\ Q = {q[i] : i \in 1..Len(q)}
  BY <1>2 DEF Emitted
<1>6. R \cup Q = {r[i] : i \in DOMAIN r}
  <2>1. ASSUME NEW s \in R \cup Q  PROVE \E i \in DOMAIN r : s = r[i]
    <3>1. CASE s \in R
      BY <1>3, <1>5, <1>11, <3>1
    <3>2. CASE s \in Q
      BY <1>3, <1>5, <1>11, <3>2
    <3> QED  BY <3>1, <3>2
  <2>2. ASSUME NEW i \in DOMAIN r  PROVE r[i] \in R \cup Q
    BY <1>3, <1>11
  <2> QED  BY <2>1, <2>2
<1>7. \A s \in R \cup Q : s.zone = z /\ s.metric \in M \cup N
  BY DEF Emitted
<1>8. \A i \in DOMAIN r : r[i].metric = "requests_status" => r[i].value \in Nat
  <2>1. /\ \A i \in 1..Len(p) : p[i].metric = "requests_status" => p[i].value \in Nat
        /\ \A i \in 1..Len(q) : q[i].metric = "requests_status" => q[i].value \in Nat
    BY <1>2 DEF Emitted
  <2> QED  BY <1>3, <2>1
<1>9. Distinct(r)
  <2> SUFFICES ASSUME NEW i \in DOMAIN r, NEW j \in DOMAIN r, r[i].zone = r[j].zone,
                      r[i].metric = r[j].metric, r[i].label = r[j].label
               PROVE  i = j
    BY DEF Distinct
  <2>1. CASE i \in 1..Len(p) /\ j \in 1..Len(p)
    BY <1>2, <1>3, <2>1 DEF Emitted, Distinct
  <2>2. CASE i \in 1..Len(p) /\ j \notin 1..Len(p)
    <3>1. PICK b \in 1..Len(q) : j = Len(p) + b
      BY <1>3, <2>2
    <3>2. r[i] \in R /\ r[j] \in Q
      BY <1>2, <1>3, <2>2, <3>1 DEF Emitted
    <3> QED  BY <3>2 DEF Emitted
  <2>3. CASE i \notin 1..Len(p) /\ j \in 1..Len(p)
    <3>1. PICK b \in 1..Len(q) : i = Len(p) + b
      BY <1>3, <2>3
    <3>2. r[j] \in R /\ r[i] \in Q
      BY <1>2, <1>3, <2>3, <3>1 DEF Emitted
    <3> QED  BY <3>2 DEF Emitted
  <2>4. CASE i \notin 1..Len(p) /\ j \notin 1..Len(p)
    <3>1. PICK a \in 1..Len(q) : i = Len(p) + a
      BY <1>3, <2>4
    <3>2. PICK b \in 1..Len(q) : j = Len(p) + b
      BY <1>3, <2>4
    <3>3. a = b
      <4>1. r[i] = q[a] /\ r[j] = q[b]
        BY <1>3, <3>1, <3>2
      <4>2. Distinct(q)
        BY DEF Emitted
      <4> QED  BY <1>2, <4>1, <4>2 DEF Distinct
    <3> QED  BY <3>1, <3>2, <3>3
  <2> QED  BY <2>1, <2>2, <2>3, <2>4
<1>10. Emitted(r, z, M \cup N, R \cup Q, n + k)
  BY <1>3, <1>4, <1>6, <1>7, <1>8, <1>9 DEF Emitted
<1> QED  BY <1>10 DEF r

-----------------------------------------------------------------------------
(* What emitZoneMetrics sends *)

\* SetToSeq lists each member of a finite set once.
LEMMA Enumeration ==
  ASSUME NEW S, IsFiniteSet(S)
  PROVE  /\ Cardinality(S) \in Nat
         /\ SetToSeq(S) \in [1..Cardinality(S) -> S]
         /\ \A i, j \in 1..Cardinality(S) : SetToSeq(S)[i] = SetToSeq(S)[j] => i = j
         /\ \A x \in S : \E i \in 1..Cardinality(S) : SetToSeq(S)[i] = x
<1> DEFINE c == Cardinality(S)
           e == SetToSeq(S)
<1>1. c \in Nat /\ ExistsBijection(1..c, S)
  BY FS_CardinalityType
<1>2. PICK f \in [1..c -> S] : IsInjective(f)
  BY <1>1 DEF ExistsBijection, Bijection, Injection, IsInjective
<1>3. e \in [1..c -> S] /\ IsInjective(e)
  BY <1>2 DEF SetToSeq
<1> HIDE DEF e, c
<1>4. \A i, j \in 1..c : e[i] = e[j] => i = j
  BY <1>3 DEF IsInjective
<1>5. ASSUME NEW x \in S  PROVE \E i \in 1..c : e[i] = x
  <2> SUFFICES ASSUME \A i \in 1..c : e[i] # x  PROVE FALSE
    OBVIOUS
  <2>1. e \in [1..c -> S \ {x}]
    BY <1>3
  <2>2. e \in Injection(1..c, S \ {x})
    BY <2>1, <1>4 DEF Injection, IsInjective
  <2>3. IsFiniteSet(S \ {x}) /\ Cardinality(S \ {x}) = c - 1
    BY FS_RemoveElement DEF c
  <2>4. IsFiniteSet(1..c) /\ Cardinality(1..c) = c
    BY <1>1, FS_Interval
  <2>5. Cardinality(1..c) <= Cardinality(S \ {x})
    BY <2>2, <2>3, FS_Injection DEF ExistsInjection
  <2> QED  BY <1>1, <2>3, <2>4, <2>5
<1> QED  BY <1>1, <1>3, <1>4, <1>5 DEF e, c

\* A single series.
LEMMA OneEmitted ==
  ASSUME NEW g \in Series, g.metric # "requests_status"
  PROVE  Emitted(<<g>>, g.zone, {g.metric}, {g}, 0)
<1> DEFINE p == <<g>>
<1>1. p \in Seq(Series) /\ Len(p) = 1 /\ DOMAIN p = 1..1 /\ p[1] = g
  OBVIOUS
<1> HIDE DEF p
<1>2. \A k \in 1..1 : StatusPart(p, g.zone)[k] = 0
  BY <1>1 DEF StatusPart
<1>3. SumTo(StatusPart(p, g.zone), Len(p)) = 0
  BY <1>1, <1>2, SumZero
<1>4. Emitted(p, g.zone, {g.metric}, {g}, 0)
  BY <1>1, <1>3 DEF Emitted, Distinct
<1> QED  BY <1>4 DEF p

LEMMA NoneEmitted == ASSUME NEW z  PROVE Emitted(<< >>, z, {}, {}, 0)
<1> DEFINE p == << >>
<1>1. p \in Seq(Series) /\ Len(p) = 0 /\ DOMAIN p = {}
  OBVIOUS
<1> HIDE DEF p
<1>2. SumTo(StatusPart(p, z), Len(p)) = 0
  BY <1>1, SumZero
<1>3. Emitted(p, z, {}, {}, 0)
  BY <1>1, <1>2 DEF Emitted, Distinct
<1> QED  BY <1>3 DEF p

\* The series of a breakdown: one for each name.
LEMMA MapEmitted ==
  ASSUME NEW z \in Zones, NEW metric \in Metrics, NEW D, IsFiniteSet(D), D \subseteq Labels,
         NEW sums \in [D -> Nat], NEW t,
         t = IF metric = "requests_status"
             THEN SumTo([i \in 1..Cardinality(D) |-> sums[SetToSeq(D)[i]]], Cardinality(D))
             ELSE 0
  PROVE  Emitted(EmitMap(z, metric, sums), z, {metric},
                 {Gauge(z, metric, n, sums[n]) : n \in D}, t)
<1> DEFINE p == EmitMap(z, metric, sums)
           c == Cardinality(D)
           e == SetToSeq(D)
           v == [i \in 1..c |-> sums[e[i]]]
<1>1. /\ c \in Nat /\ e \in [1..c -> D]
      /\ \A i, j \in 1..c : e[i] = e[j] => i = j
      /\ \A x \in D : \E i \in 1..c : e[i] = x
  BY Enumeration
<1>2. p = [i \in 1..c |-> Gauge(z, metric, e[i], sums[e[i]])]
  <2>1. DOMAIN sums = D
    OBVIOUS
  <2>2. p = [i \in DOMAIN e |-> Gauge(z, metric, e[i], sums[e[i]])]
    BY <2>1 DEF EmitMap
  <2> QED  BY <1>1, <2>2
<1>3. t = IF metric = "requests_status" THEN SumTo(v, c) ELSE 0
  OBVIOUS
<1> HIDE DEF p, c, e
<1>4. ASSUME NEW i \in 1..c
      PROVE  /\ p[i] \in Series /\ p[i].zone = z /\ p[i].metric = metric
             /\ p[i].label = e[i] /\ p[i].value = sums[e[i]] /\ p[i].value \in Nat
  <2>1. e[i] \in D /\ e[i] \in Labels /\ sums[e[i]] \in Nat
    BY <1>1
  <2> QED  BY <1>2, <2>1 DEF Gauge, Series
<1>5. p \in Seq(Series) /\ Len(p) = c /\ DOMAIN p = 1..c
  <2>1. p \in [1..c -> Series]
    BY <1>2, <1>4
  <2> QED  BY <1>1, <2>1
<1>6. {Gauge(z, metric, n, sums[n]) : n \in D} = {p[i] : i \in DOMAIN p}
  <2> DEFINE G(n) == Gauge(z, metric, n, sums[n])
  <2>1. ASSUME NEW n \in D  PROVE \E i \in 1..c : p[i] = G(n)
    BY <1>1, <1>2
  <2>2. ASSUME NEW i \in 1..c  PROVE e[i] \in D /\ p[i] = G(e[i])
    BY <1>1, <1>2
  <2> HIDE DEF G
  <2>3. {G(n) : n \in D} = {p[i] : i \in DOMAIN p}
    <3>1. ASSUME NEW s \in {G(n) : n \in D}  PROVE s \in {p[i] : i \in DOMAIN p}
      <4>1. PICK n \in D : s = G(n)
        OBVIOUS
      <4> QED  BY <1>5, <2>1, <4>1
    <3>2. ASSUME NEW s \in {p[i] : i \in DOMAIN p}  PROVE s \in {G(n) : n \in D}
      <4>1. PICK i \in 1..c : s = p[i]
        BY <1>5
      <4> QED  BY <2>2, <4>1
    <3> QED  BY <3>1, <3>2
  <2> QED  BY <2>3 DEF G
<1>7. Distinct(p)
  BY <1>1, <1>4, <1>5 DEF Distinct
<1>8. SumTo(StatusPart(p, z), c) = t
  <2>1. CASE metric = "requests_status"
    <3>1. \A i \in 1..c : v[i] \in Int /\ StatusPart(p, z)[i] = v[i]
      BY <1>4, <1>5, <2>1 DEF StatusPart
    <3> HIDE DEF v
    <3> QED  BY <1>1, <1>3, <2>1, <3>1, SumSame
  <2>2. CASE metric # "requests_status"
    <3>1. \A i \in 1..c : StatusPart(p, z)[i] = 0
      BY <1>4, <1>5, <2>2 DEF StatusPart
    <3> QED  BY <1>1, <1>3, <2>2, <3>1, SumZero
  <2> QED  BY <2>1, <2>2
<1>9. \A s \in {p[i] : i \in DOMAIN p} : s.zone = z /\ s.metric \in {metric}
  BY <1>4, <1>5
<1> QED  BY <1>4, <1>5, <1>6, <1>7, <1>8, <1>9 DEF Emitted, p

\* What a group of merged buckets always is: rows of some bucket each, the statuses
\* accounting for the requests.
Sound(g) ==
    /\ g.requests \in Nat /\ g.cached \in 0..g.requests /\ g.uniques \in Nat
    /\ g.status \in Seq(RowsOf("status"))
    /\ g.country \in Seq(RowsOf("country"))
    /\ g.browser \in Seq(RowsOf("browser"))
    /\ SumTo([i \in DOMAIN g.status |-> g.status[i].requests], Len(g.status)) = g.requests

\* The names and counts of a row.
LEMMA RowTypes ==
  ASSUME NEW b \in Breakdowns, NEW row \in RowsOf(b)
  PROVE  /\ row.name \in NamesOf(b) /\ row.name \in Labels
         /\ \A f \in Fields(b) : row[f] \in Nat
         /\ b = "status" => row.name \in Int
<1>1. PICK m \in Minutes : \E k \in DOMAIN m[b] : row = m[b][k]
  BY DEF RowsOf
<1>2. PICK k \in DOMAIN m[b] : row = m[b][k]
  BY <1>1
<1>3. /\ m.status \in Seq([name : Int, requests : Nat])
      /\ m.country \in Seq([name : STRING, requests : Nat, threats : Nat])
      /\ m.browser \in Seq([name : STRING, views : Nat])
  BY BucketAssumption
<1>4. row.name \in NamesOf(b)
  BY <1>1, <1>2 DEF NamesOf
<1>5. CASE b = "status"
  <2>0. m[b] = m.status
    BY <1>5
  <2>1. row \in [name : Int, requests : Nat]
    BY <1>2, <1>3, <2>0, ElementOfSeq, LenProperties
  <2> QED  BY <1>4, <1>5, <2>1 DEF Fields, Labels
<1>6. CASE b = "country"
  <2>0. m[b] = m.country
    BY <1>6
  <2>1. row \in [name : STRING, requests : Nat, threats : Nat]
    BY <1>2, <1>3, <2>0, ElementOfSeq, LenProperties
  <2> QED  BY <1>4, <1>6, <2>1 DEF Fields, Labels, Breakdowns
<1>7. CASE b = "browser"
  <2>0. m[b] = m.browser
    BY <1>7
  <2>1. row \in [name : STRING, views : Nat]
    BY <1>2, <1>3, <2>0, ElementOfSeq, LenProperties
  <2> QED  BY <1>4, <1>7, <2>1 DEF Fields, Labels, Breakdowns
<1> QED  BY <1>5, <1>6, <1>7 DEF Breakdowns

\* The sum of the rows with a name, whatever the name.
LEMMA SumNamedType ==
  ASSUME NEW b \in Breakdowns, NEW rows \in Seq(RowsOf(b)), NEW f \in Fields(b), NEW n
  PROVE  SumNamed(rows, n, f) \in Nat
<1> DEFINE v == [i \in DOMAIN rows |-> IF rows[i].name = n THEN rows[i][f] ELSE 0]
<1>1. Len(rows) \in Nat /\ DOMAIN rows = 1..Len(rows)
  BY LenProperties
<1>2. \A k \in 1..Len(rows) : v[k] \in Nat
  BY <1>1, RowTypes, ElementOfSeq
<1> HIDE DEF v
<1>3. SumTo(v, Len(rows)) \in Nat
  BY <1>1, <1>2, SumNat
<1> QED  BY <1>3 DEF SumNamed, v

\* The sums by name: one natural number for each name of a row.
LEMMA SumByType ==
  ASSUME NEW b \in Breakdowns, NEW rows \in Seq(RowsOf(b)), NEW f \in Fields(b)
  PROVE  /\ SumBy(rows, f) \in [{rows[i].name : i \in DOMAIN rows} -> Nat]
         /\ {rows[i].name : i \in DOMAIN rows} \subseteq Labels
         /\ IsFiniteSet({rows[i].name : i \in DOMAIN rows})
<1>1. Len(rows) \in Nat /\ DOMAIN rows = 1..Len(rows)
  BY LenProperties
<1> DEFINE names == {rows[i].name : i \in DOMAIN rows}
           h == [i \in 1..Len(rows) |-> rows[i].name]
<1>2. SumBy(rows, f) \in [names -> Nat]
  BY SumNamedType DEF SumBy
<1>3. names \subseteq Labels
  BY <1>1, RowTypes, ElementOfSeq
<1>4. IsFiniteSet(1..Len(rows))
  BY <1>1, FS_Interval
<1>5. h \in Surjection(1..Len(rows), names)
  BY <1>1 DEF Surjection
<1>6. IsFiniteSet(names)
  <2> HIDE DEF h, names
  <2> QED  BY <1>4, <1>5, FS_Surjection
<1> QED  BY <1>2, <1>3, <1>6

\* The sums by name add up to the sum over all rows.
LEMMA StatusPartition ==
  ASSUME NEW b \in Breakdowns, NEW rows \in Seq(RowsOf(b)), NEW f \in Fields(b)
  PROVE  LET names == {rows[i].name : i \in DOMAIN rows} IN
         SumTo([i \in 1..Cardinality(names) |-> SumBy(rows, f)[SetToSeq(names)[i]]],
               Cardinality(names))
            = SumTo([i \in DOMAIN rows |-> rows[i][f]], Len(rows))
<1> DEFINE names == {rows[i].name : i \in DOMAIN rows}
           c == Cardinality(names)
           e == SetToSeq(names)
           n == Len(rows)
           v == [i \in 1..n |-> rows[i][f]]
           key == [i \in 1..n |-> rows[i].name]
           part(i) == [k \in 1..n |-> IF key[k] = e[i] THEN v[k] ELSE 0]
<1>1. n \in Nat /\ DOMAIN rows = 1..n
  BY LenProperties
<1>2. \A k \in 1..n : v[k] \in Int
  BY <1>1, RowTypes, ElementOfSeq
<1>3. IsFiniteSet(names)
  BY SumByType
<1>4. /\ c \in Nat /\ e \in [1..c -> names]
      /\ \A i, j \in 1..c : e[i] = e[j] => i = j
      /\ \A x \in names : \E i \in 1..c : e[i] = x
  <2> HIDE DEF names
  <2> QED  BY <1>3, Enumeration
<1>5. \A k \in 1..n : key[k] \in names
  BY <1>1
<1>6. \A i \in 1..c : SumBy(rows, f)[e[i]] = SumTo(part(i), n)
  <2> SUFFICES ASSUME NEW i \in 1..c  PROVE SumBy(rows, f)[e[i]] = SumTo(part(i), n)
    OBVIOUS
  <2>1. e[i] \in names
    BY <1>4
  <2>2. SumBy(rows, f)[e[i]] = SumNamed(rows, e[i], f)
    BY <2>1 DEF SumBy
  <2>3. part(i) = [k \in DOMAIN rows |-> IF rows[k].name = e[i] THEN rows[k][f] ELSE 0]
    BY <1>1
  <2> QED  BY <2>2, <2>3 DEF SumNamed
<1>7. SumTo([i \in 1..c |-> SumTo(part(i), n)], c) = SumTo(v, n)
  <2> HIDE DEF names, c, e, n, v, key
  <2>1. \A k \in 1..n : \E i \in 1..c : e[i] = key[k]
    BY <1>4, <1>5
  <2>2. Keyed(v, key, n, e, c)
    BY <1>1, <1>2, <1>4, <2>1 DEF Keyed
  <2>3. SumTo(SumsByKey(v, key, n, e, c), c) = SumTo(v, n)
    BY <2>2, SumByKey
  <2> QED  BY <2>3 DEF SumsByKey
<1>8. [i \in 1..c |-> SumBy(rows, f)[e[i]]] = [i \in 1..c |-> SumTo(part(i), n)]
  <2> HIDE DEF part, c, e
  <2> QED  BY <1>6
<1>9. v = [i \in DOMAIN rows |-> rows[i][f]]
  BY <1>1
<1> HIDE DEF names, c, e, n, v, part
<1> QED  BY <1>7, <1>8, <1>9 DEF names, c, e, n

OfMap(z, metric, sums) == {Gauge(z, metric, n, sums[n]) : n \in DOMAIN sums}

Positive(sums) == [n \in {k \in DOMAIN sums : sums[k] > 0} |-> sums[n]]

\* The series of a zone with a group, as a set.
SeriesFor(z, g) ==
    {Gauge(z, "requests", "", g.requests), Gauge(z, "requests_cached", "", g.cached),
     Gauge(z, "uniques", "", g.uniques)}
    \cup (IF g.requests > 0
          THEN {Gauge(z, "cache_hit_ratio", "", <<g.cached, g.requests>>),
                Gauge(z, "error_ratio", "edge", <<EdgeErrors(g), g.requests>>)}
          ELSE {})
    \cup OfMap(z, "requests_status", SumBy(g.status, "requests"))
    \cup OfMap(z, "requests_country", SumBy(g.country, "requests"))
    \cup OfMap(z, "threats_country", Positive(SumBy(g.country, "threats")))
    \cup OfMap(z, "browser_page_views", Positive(SumBy(g.browser, "views")))

\* The edge errors are some of the requests.
LEMMA EdgeErrorsBound ==
  ASSUME NEW g, Sound(g)
  PROVE  EdgeErrors(g) \in 0..g.requests
<1> DEFINE n == Len(g.status)
           v == [i \in DOMAIN g.status |-> g.status[i].requests]
           w == [i \in DOMAIN g.status |->
                   IF g.status[i].name >= 400 THEN g.status[i].requests ELSE 0]
<1>1. n \in Nat /\ DOMAIN g.status = 1..n /\ g.status \in Seq(RowsOf("status"))
  BY LenProperties DEF Sound
<1>2. ASSUME NEW k \in 1..n  PROVE v[k] \in Nat /\ w[k] \in Nat /\ w[k] <= v[k]
  <2>1. g.status[k] \in RowsOf("status")
    BY <1>1, ElementOfSeq
  <2>2. g.status[k].requests \in Nat /\ g.status[k].name \in Int
    BY <2>1, RowTypes DEF Breakdowns, Fields
  <2> QED  BY <1>1, <2>2
<1>3. EdgeErrors(g) = SumTo(w, n)
  BY DEF EdgeErrors
<1>4. g.requests = SumTo(v, n) /\ g.requests \in Nat
  BY DEF Sound
<1> HIDE DEF v, w, n
<1>5. SumTo(w, n) \in Nat
  BY <1>1, <1>2, SumNat
<1>6. SumTo(w, n) <= SumTo(v, n)
  BY <1>1, <1>2, SumMonotone
<1> QED  BY <1>3, <1>4, <1>5, <1>6

\* The totals and the ratios.
LEMMA TotalsEmitted ==
  ASSUME NEW z \in Zones, NEW g, Sound(g)
  PROVE  Emitted(<<Gauge(z, "requests", "", g.requests),
                   Gauge(z, "requests_cached", "", g.cached),
                   Gauge(z, "uniques", "", g.uniques)>>,
                 z, {"requests", "requests_cached", "uniques"},
                 {Gauge(z, "requests", "", g.requests),
                  Gauge(z, "requests_cached", "", g.cached),
                  Gauge(z, "uniques", "", g.uniques)}, 0)
<1> DEFINE a == Gauge(z, "requests", "", g.requests)
           b == Gauge(z, "requests_cached", "", g.cached)
           c == Gauge(z, "uniques", "", g.uniques)
           p == <<a, b, c>>
<1>0. g.requests \in Nat /\ g.cached \in Nat /\ g.uniques \in Nat
  BY DEF Sound
<1>1. /\ a \in Series /\ a.zone = z /\ a.metric = "requests"
      /\ b \in Series /\ b.zone = z /\ b.metric = "requests_cached"
      /\ c \in Series /\ c.zone = z /\ c.metric = "uniques"
  BY <1>0 DEF Gauge, Series, Metrics, Labels
<1> HIDE DEF a, b, c
<1>2. /\ p \in Seq(Series) /\ Len(p) = 3 /\ DOMAIN p = 1..3
      /\ p[1] = a /\ p[2] = b /\ p[3] = c
  BY <1>1
<1> HIDE DEF p
<1>3. \A k \in 1..3 : k = 1 \/ k = 2 \/ k = 3
  OBVIOUS
<1>4. \A k \in 1..3 : StatusPart(p, z)[k] = 0
  BY <1>1, <1>2, <1>3 DEF StatusPart
<1>5. SumTo(StatusPart(p, z), Len(p)) = 0
  BY <1>2, <1>4, SumZero
<1>6. {a, b, c} = {p[i] : i \in DOMAIN p}
  BY <1>2, <1>3
<1>7. Distinct(p)
  BY <1>1, <1>2, <1>3 DEF Distinct
<1>8. Emitted(p, z, {"requests", "requests_cached", "uniques"}, {a, b, c}, 0)
  BY <1>1, <1>2, <1>3, <1>5, <1>6, <1>7 DEF Emitted
<1> QED  BY <1>8 DEF a, b, c, p

LEMMA RatiosEmitted ==
  ASSUME NEW z \in Zones, NEW g, Sound(g)
  PROVE  Emitted(Ratios(z, g), z, {"cache_hit_ratio", "error_ratio"},
                 IF g.requests > 0
                 THEN {Gauge(z, "cache_hit_ratio", "", <<g.cached, g.requests>>),
                       Gauge(z, "error_ratio", "edge", <<EdgeErrors(g), g.requests>>)}
                 ELSE {}, 0)
<1> DEFINE a == Gauge(z, "cache_hit_ratio", "", <<g.cached, g.requests>>)
           b == Gauge(z, "error_ratio", "edge", <<EdgeErrors(g), g.requests>>)
           p == <<a, b>>
           q == << >>
<1>1. CASE g.requests > 0
  <2>0. g.requests \in Nat /\ g.cached \in Nat /\ EdgeErrors(g) \in Nat
    BY EdgeErrorsBound DEF Sound
  <2>00. <<g.cached, g.requests>> \in Nat \X Nat /\ <<EdgeErrors(g), g.requests>> \in Nat \X Nat
    BY <2>0
  <2>1. /\ a \in Series /\ a.zone = z /\ a.metric = "cache_hit_ratio"
        /\ b \in Series /\ b.zone = z /\ b.metric = "error_ratio"
    BY <2>00 DEF Gauge, Series, Metrics, Labels
  <2>9. Ratios(z, g) = p
    BY <1>1 DEF Ratios
  <2> HIDE DEF a, b
  <2>2. /\ p \in Seq(Series) /\ Len(p) = 2 /\ DOMAIN p = 1..2 /\ p[1] = a /\ p[2] = b
    BY <2>1
  <2> HIDE DEF p
  <2>3. \A k \in 1..2 : k = 1 \/ k = 2
    OBVIOUS
  <2>4. \A k \in 1..2 : StatusPart(p, z)[k] = 0
    BY <2>1, <2>2, <2>3 DEF StatusPart
  <2>5. SumTo(StatusPart(p, z), Len(p)) = 0
    BY <2>2, <2>4, SumZero
  <2>6. {a, b} = {p[i] : i \in DOMAIN p}
    BY <2>2, <2>3
  <2>7. Distinct(p)
    BY <2>1, <2>2, <2>3 DEF Distinct
  <2>8. Emitted(p, z, {"cache_hit_ratio", "error_ratio"}, {a, b}, 0)
    BY <2>1, <2>2, <2>3, <2>5, <2>6, <2>7 DEF Emitted
  <2> QED  BY <1>1, <2>8, <2>9 DEF a, b
<1>2. CASE ~(g.requests > 0)
  <2>1. Ratios(z, g) = q
    BY <1>2 DEF Ratios
  <2>2. q \in Seq(Series) /\ Len(q) = 0 /\ DOMAIN q = {}
    OBVIOUS
  <2> HIDE DEF q
  <2>3. SumTo(StatusPart(q, z), Len(q)) = 0
    BY <2>2, SumZero
  <2>4. Emitted(q, z, {"cache_hit_ratio", "error_ratio"}, {}, 0)
    BY <2>2, <2>3 DEF Emitted, Distinct
  <2> QED  BY <1>2, <2>1, <2>4
<1> QED  BY <1>1, <1>2

\* The series of one breakdown, all of them or those above zero.
LEMMA BreakdownEmitted ==
  ASSUME NEW z \in Zones, NEW metric \in Metrics, metric # "requests_status",
         NEW b \in Breakdowns, NEW rows \in Seq(RowsOf(b)), NEW f \in Fields(b)
  PROVE  /\ Emitted(EmitMap(z, metric, SumBy(rows, f)), z, {metric},
                    OfMap(z, metric, SumBy(rows, f)), 0)
         /\ Emitted(EmitNonZero(z, metric, SumBy(rows, f)), z, {metric},
                    OfMap(z, metric, Positive(SumBy(rows, f))), 0)
<1> DEFINE names == {rows[i].name : i \in DOMAIN rows}
           sums == SumBy(rows, f)
           above == {k \in names : sums[k] > 0}
<1>1. sums \in [names -> Nat] /\ names \subseteq Labels /\ IsFiniteSet(names)
  BY SumByType
<1> HIDE DEF names, sums
<1>2. DOMAIN sums = names
  BY <1>1
<1>3. Emitted(EmitMap(z, metric, sums), z, {metric}, OfMap(z, metric, sums), 0)
  BY <1>1, <1>2, MapEmitted DEF OfMap
<1>4. above \subseteq Labels /\ IsFiniteSet(above)
  BY <1>1, FS_Subset
<1>5. Positive(sums) \in [above -> Nat] /\ DOMAIN Positive(sums) = above
  BY <1>1, <1>2 DEF Positive
<1> HIDE DEF above
<1>6. Emitted(EmitMap(z, metric, Positive(sums)), z, {metric},
              OfMap(z, metric, Positive(sums)), 0)
  BY <1>4, <1>5, MapEmitted DEF OfMap
<1>7. EmitNonZero(z, metric, sums) = EmitMap(z, metric, Positive(sums))
  BY DEF EmitNonZero, Positive
<1> QED  BY <1>3, <1>6, <1>7 DEF sums

LEMMA StatusEmitted ==
  ASSUME NEW z \in Zones, NEW g, Sound(g)
  PROVE  Emitted(EmitMap(z, "requests_status", SumBy(g.status, "requests")), z,
                 {"requests_status"},
                 OfMap(z, "requests_status", SumBy(g.status, "requests")), g.requests)
<1> DEFINE rows == g.status
           names == {rows[i].name : i \in DOMAIN rows}
           sums == SumBy(rows, "requests")
           c == Cardinality(names)
           e == SetToSeq(names)
<1>0. "status" \in Breakdowns /\ "requests" \in Fields("status") /\ "requests_status" \in Metrics
  BY DEF Breakdowns, Fields, Metrics
<1>1. rows \in Seq(RowsOf("status"))
      /\ g.requests = SumTo([i \in DOMAIN rows |-> rows[i].requests], Len(rows))
  BY DEF Sound
<1>2. SumTo([i \in 1..c |-> sums[e[i]]], c) = g.requests
  BY <1>0, <1>1, StatusPartition
<1>3. sums \in [names -> Nat] /\ names \subseteq Labels /\ IsFiniteSet(names)
  BY <1>0, <1>1, SumByType
<1> HIDE DEF names, sums
<1>4. DOMAIN sums = names
  BY <1>3
<1>5. Emitted(EmitMap(z, "requests_status", sums), z, {"requests_status"},
              OfMap(z, "requests_status", sums), g.requests)
  BY <1>0, <1>2, <1>3, <1>4, MapEmitted DEF OfMap
<1> QED  BY <1>5 DEF sums

\* What emitZoneMetrics sends for a group: each series of the zone once.
LEMMA ZoneEmitted ==
  ASSUME NEW z \in Zones, NEW g, Sound(g)
  PROVE  Emitted(emitZoneMetrics(z, g), z, Metrics, SeriesFor(z, g), g.requests)
<1>0. /\ g.country \in Seq(RowsOf("country")) /\ g.browser \in Seq(RowsOf("browser"))
      /\ g.requests \in Nat
  BY DEF Sound
<1> DEFINE T == {"requests", "requests_cached", "uniques"}
           A == {"cache_hit_ratio", "error_ratio"}
           p1 == <<Gauge(z, "requests", "", g.requests), Gauge(z, "requests_cached", "", g.cached),
                   Gauge(z, "uniques", "", g.uniques)>>
           R1 == {Gauge(z, "requests", "", g.requests), Gauge(z, "requests_cached", "", g.cached),
                  Gauge(z, "uniques", "", g.uniques)}
           p2 == Ratios(z, g)
           R2 == IF g.requests > 0
                 THEN {Gauge(z, "cache_hit_ratio", "", <<g.cached, g.requests>>),
                       Gauge(z, "error_ratio", "edge", <<EdgeErrors(g), g.requests>>)}
                 ELSE {}
           p3 == EmitMap(z, "requests_status", SumBy(g.status, "requests"))
           R3 == OfMap(z, "requests_status", SumBy(g.status, "requests"))
           p4 == EmitMap(z, "requests_country", SumBy(g.country, "requests"))
           R4 == OfMap(z, "requests_country", SumBy(g.country, "requests"))
           p5 == EmitNonZero(z, "threats_country", SumBy(g.country, "threats"))
           R5 == OfMap(z, "threats_country", Positive(SumBy(g.country, "threats")))
           p6 == EmitNonZero(z, "browser_page_views", SumBy(g.browser, "views"))
           R6 == OfMap(z, "browser_page_views", Positive(SumBy(g.browser, "views")))
           M3 == {"requests_status"}
           M4 == {"requests_country"}
           M5 == {"threats_country"}
           M6 == {"browser_page_views"}
<1>a. emitZoneMetrics(z, g) = p1 \o p2 \o p3 \o p4 \o p5 \o p6
  BY DEF emitZoneMetrics
<1>b. SeriesFor(z, g) = R1 \cup R2 \cup R3 \cup R4 \cup R5 \cup R6
  BY DEF SeriesFor
<1>c. Metrics = T \cup A \cup M3 \cup M4 \cup M5 \cup M6
  BY DEF Metrics
<1>1. Emitted(p1, z, T, R1, 0)
  BY TotalsEmitted
<1>2. Emitted(p2, z, A, R2, 0)
  BY RatiosEmitted
<1>3. Emitted(p3, z, M3, R3, g.requests)
  BY StatusEmitted
<1>d. "country" \in Breakdowns /\ "browser" \in Breakdowns
  BY DEF Breakdowns
<1>e. "requests" \in Fields("country") /\ "threats" \in Fields("country") /\ "views" \in Fields("browser")
  BY DEF Fields
<1>f. "requests_country" \in Metrics /\ "threats_country" \in Metrics /\ "browser_page_views" \in Metrics
  BY DEF Metrics
<1>4. Emitted(p4, z, M4, R4, 0)
  BY <1>0, <1>d, <1>e, <1>f, BreakdownEmitted
<1>5. Emitted(p5, z, M5, R5, 0)
  BY <1>0, <1>d, <1>e, <1>f, BreakdownEmitted
<1>6. Emitted(p6, z, M6, R6, 0)
  BY <1>0, <1>d, <1>e, <1>f, BreakdownEmitted
<1>g. /\ T \cap A = {} /\ (T \cup A) \cap M3 = {} /\ (T \cup A \cup M3) \cap M4 = {}
      /\ (T \cup A \cup M3 \cup M4) \cap M5 = {}
      /\ (T \cup A \cup M3 \cup M4 \cup M5) \cap M6 = {}
  OBVIOUS
<1> HIDE DEF p1, p2, p3, p4, p5, p6, R1, R2, R3, R4, R5, R6, T, A, M3, M4, M5, M6
<1>7. Emitted(p1 \o p2, z, T \cup A, R1 \cup R2, 0 + 0)
  BY <1>1, <1>2, <1>g, JoinEmitted
<1>8. Emitted(p1 \o p2 \o p3, z, T \cup A \cup M3, R1 \cup R2 \cup R3, 0 + 0 + g.requests)
  BY <1>7, <1>3, <1>g, JoinEmitted
<1>9. Emitted(p1 \o p2 \o p3 \o p4, z, T \cup A \cup M3 \cup M4,
              R1 \cup R2 \cup R3 \cup R4, 0 + 0 + g.requests + 0)
  BY <1>8, <1>4, <1>g, JoinEmitted
<1>10. Emitted(p1 \o p2 \o p3 \o p4 \o p5, z, T \cup A \cup M3 \cup M4 \cup M5,
              R1 \cup R2 \cup R3 \cup R4 \cup R5, 0 + 0 + g.requests + 0 + 0)
  BY <1>9, <1>5, <1>g, JoinEmitted
<1>11. Emitted(p1 \o p2 \o p3 \o p4 \o p5 \o p6, z, T \cup A \cup M3 \cup M4 \cup M5 \cup M6,
              R1 \cup R2 \cup R3 \cup R4 \cup R5 \cup R6, 0 + 0 + g.requests + 0 + 0 + 0)
  BY <1>10, <1>6, <1>g, JoinEmitted
<1>12. 0 + 0 + g.requests + 0 + 0 + 0 = g.requests
  BY <1>0
<1> QED  BY <1>11, <1>12, <1>a, <1>b, <1>c

-----------------------------------------------------------------------------
(* Merging *)

\* Group g is what the first j of the buckets l amount to.
Merged(l, j, g) ==
    /\ g.requests = SumTo([i \in DOMAIN l |-> l[i].requests], j)
    /\ \A b \in Breakdowns : \A n \in NamesOf(b), f \in Fields(b) :
          SumNamed(g[b], n, f) = SumTo([i \in DOMAIN l |-> SumNamed(l[i][b], n, f)], j)
    /\ IsFiniteSet(UNION {l[i].visitors : i \in 1..j})
    /\ Cardinality(UNION {l[i].visitors : i \in 1..j}) <= g.uniques

\* The rows of a bucket are rows of the breakdowns.
LEMMA BucketRows ==
  ASSUME NEW m \in Minutes
  PROVE  /\ m.requests \in Nat /\ m.cached \in 0..m.requests /\ Cardinality(m.visitors) \in Nat
         /\ \A b \in Breakdowns : m[b] \in Seq(RowsOf(b))
<1>1. /\ m.requests \in Nat /\ m.cached \in 0..m.requests /\ IsFiniteSet(m.visitors)
      /\ m.status \in Seq([name : Int, requests : Nat])
      /\ m.country \in Seq([name : STRING, requests : Nat, threats : Nat])
      /\ m.browser \in Seq([name : STRING, views : Nat])
  BY BucketAssumption
<1>2. ASSUME NEW b \in Breakdowns  PROVE m[b] \in Seq(RowsOf(b))
  <2>1. PICK S : m[b] \in Seq(S)
    BY <1>1 DEF Breakdowns
  <2>2. Len(m[b]) \in Nat /\ m[b] \in [1..Len(m[b]) -> S] /\ DOMAIN m[b] = 1..Len(m[b])
    BY <2>1, LenProperties
  <2>3. \A k \in 1..Len(m[b]) : m[b][k] \in RowsOf(b)
    BY <2>2 DEF RowsOf
  <2>4. m[b] \in [1..Len(m[b]) -> RowsOf(b)]
    BY <2>2, <2>3
  <2> QED  BY <2>2, <2>4, IsASeq
<1> QED  BY <1>1, <1>2, FS_CardinalityType

\* The rows of two breakdowns are summed by name together.
LEMMA SumNamedJoin ==
  ASSUME NEW b \in Breakdowns, NEW p \in Seq(RowsOf(b)), NEW q \in Seq(RowsOf(b)),
         NEW f \in Fields(b), NEW n
  PROVE  SumNamed(p \o q, n, f) = SumNamed(p, n, f) + SumNamed(q, n, f)
<1> DEFINE r == p \o q
           u == [i \in DOMAIN p |-> IF p[i].name = n THEN p[i][f] ELSE 0]
           v == [i \in DOMAIN q |-> IF q[i].name = n THEN q[i][f] ELSE 0]
           w == [i \in DOMAIN r |-> IF r[i].name = n THEN r[i][f] ELSE 0]
<1>1. Len(p) \in Nat /\ Len(q) \in Nat /\ DOMAIN p = 1..Len(p) /\ DOMAIN q = 1..Len(q)
  BY LenProperties
<1>2. /\ Len(r) = Len(p) + Len(q) /\ DOMAIN r = 1..(Len(p) + Len(q))
      /\ \A i \in 1..Len(p) : r[i] = p[i]
      /\ \A i \in 1..Len(q) : r[Len(p) + i] = q[i]
  BY JoinEntries
<1>3. /\ SumNamed(p, n, f) = SumTo(u, Len(p)) /\ SumNamed(q, n, f) = SumTo(v, Len(q))
      /\ SumNamed(r, n, f) = SumTo(w, Len(r))
  BY DEF SumNamed
<1> HIDE DEF r
<1>4. \A k \in 1..Len(p) : u[k] \in Int /\ w[k] = u[k]
  <2> SUFFICES ASSUME NEW k \in 1..Len(p)  PROVE u[k] \in Int /\ w[k] = u[k]
    OBVIOUS
  <2>1. k \in DOMAIN p /\ k \in DOMAIN r /\ p[k] \in RowsOf(b)
    BY <1>1, <1>2, ElementOfSeq
  <2>2. p[k][f] \in Nat
    BY <2>1, RowTypes
  <2> QED  BY <1>2, <2>1, <2>2
<1>5. \A k \in 1..Len(q) : v[k] \in Int /\ w[Len(p) + k] = v[k]
  <2> SUFFICES ASSUME NEW k \in 1..Len(q)  PROVE v[k] \in Int /\ w[Len(p) + k] = v[k]
    OBVIOUS
  <2>1. k \in DOMAIN q /\ Len(p) + k \in DOMAIN r /\ q[k] \in RowsOf(b)
    BY <1>1, <1>2, ElementOfSeq
  <2>2. q[k][f] \in Nat
    BY <2>1, RowTypes
  <2> QED  BY <1>2, <2>1, <2>2
<1> HIDE DEF u, v, w
<1>6. Joined(u, Len(p), v, Len(q), w)
  BY <1>1, <1>4, <1>5 DEF Joined
<1> QED  BY <1>2, <1>3, <1>6, SumJoin DEF r

\* The requests of two status breakdowns add up.
LEMMA RequestsJoin ==
  ASSUME NEW p \in Seq(RowsOf("status")), NEW q \in Seq(RowsOf("status"))
  PROVE  SumTo([i \in DOMAIN (p \o q) |-> (p \o q)[i].requests], Len(p \o q))
            = SumTo([i \in DOMAIN p |-> p[i].requests], Len(p))
                + SumTo([i \in DOMAIN q |-> q[i].requests], Len(q))
<1> DEFINE r == p \o q
           u == [i \in DOMAIN p |-> p[i].requests]
           v == [i \in DOMAIN q |-> q[i].requests]
           w == [i \in DOMAIN r |-> r[i].requests]
<1>0. \A row \in RowsOf("status") : row.requests \in Int
  BY RowTypes DEF Breakdowns, Fields
<1>1. Len(p) \in Nat /\ Len(q) \in Nat /\ DOMAIN p = 1..Len(p) /\ DOMAIN q = 1..Len(q)
  BY LenProperties
<1>2. /\ Len(r) = Len(p) + Len(q) /\ DOMAIN r = 1..(Len(p) + Len(q))
      /\ \A i \in 1..Len(p) : r[i] = p[i]
      /\ \A i \in 1..Len(q) : r[Len(p) + i] = q[i]
  BY JoinEntries
<1> HIDE DEF r
<1>4. \A k \in 1..Len(p) : u[k] \in Int /\ w[k] = u[k]
  <2> SUFFICES ASSUME NEW k \in 1..Len(p)  PROVE u[k] \in Int /\ w[k] = u[k]
    OBVIOUS
  <2>1. k \in DOMAIN p /\ k \in DOMAIN r /\ p[k] \in RowsOf("status")
    BY <1>1, <1>2, ElementOfSeq
  <2> QED  BY <1>0, <1>2, <2>1
<1>5. \A k \in 1..Len(q) : v[k] \in Int /\ w[Len(p) + k] = v[k]
  <2> SUFFICES ASSUME NEW k \in 1..Len(q)  PROVE v[k] \in Int /\ w[Len(p) + k] = v[k]
    OBVIOUS
  <2>1. k \in DOMAIN q /\ Len(p) + k \in DOMAIN r /\ q[k] \in RowsOf("status")
    BY <1>1, <1>2, ElementOfSeq
  <2> QED  BY <1>0, <1>2, <2>1
<1>7. Joined(u, Len(p), v, Len(q), w)
  <2> HIDE DEF u, v, w
  <2> QED  BY <1>1, <1>4, <1>5 DEF Joined
<1>8. SumTo(w, Len(p) + Len(q)) = SumTo(u, Len(p)) + SumTo(v, Len(q))
  <2> HIDE DEF u, v, w
  <2> QED  BY <1>7, SumJoin
<1> QED  BY <1>2, <1>8 DEF r

\* One more bucket merged keeps a group sound and makes it that of one more.
LEMMA MergeStep ==
  ASSUME NEW l \in Seq(Minutes), NEW j \in Nat, j + 1 \in 1..Len(l),
         NEW g, Sound(g), Merged(l, j, g)
  PROVE  LET h == mergeGroup(g, AsGroup(l[j + 1]))
         IN  Sound(h) /\ Merged(l, j + 1, h)
<1> DEFINE m == l[j + 1]
           h == mergeGroup(g, AsGroup(m))
           n == Len(l)
<1>0. n \in Nat /\ DOMAIN l = 1..n /\ \A i \in 1..n : l[i] \in Minutes
  BY LenProperties, ElementOfSeq
<1>1. m \in Minutes
  BY <1>0
<1> HIDE DEF m
<1>2. /\ m.requests \in Nat /\ m.cached \in 0..m.requests /\ Cardinality(m.visitors) \in Nat
      /\ m.status \in Seq(RowsOf("status")) /\ m.country \in Seq(RowsOf("country"))
      /\ m.browser \in Seq(RowsOf("browser"))
      /\ IsFiniteSet(m.visitors)
      /\ SumTo([i \in DOMAIN m.status |-> m.status[i].requests], Len(m.status)) = m.requests
  <2>1. \A b \in Breakdowns : m[b] \in Seq(RowsOf(b))
    BY <1>1, BucketRows
  <2>2. m.status \in Seq(RowsOf("status")) /\ m.country \in Seq(RowsOf("country"))
        /\ m.browser \in Seq(RowsOf("browser"))
    BY <2>1 DEF Breakdowns
  <2> QED  BY <1>1, <2>2, BucketRows, BucketAssumption
<1>3. /\ h.requests = g.requests + m.requests /\ h.cached = g.cached + m.cached
      /\ h.uniques = g.uniques + Cardinality(m.visitors)
      /\ h.status = g.status \o m.status /\ h.country = g.country \o m.country
      /\ h.browser = g.browser \o m.browser
  BY DEF mergeGroup, AsGroup, NoGroup
<1> HIDE DEF h
<1>4. /\ g.requests \in Nat /\ g.cached \in 0..g.requests /\ g.uniques \in Nat
      /\ g.status \in Seq(RowsOf("status")) /\ g.country \in Seq(RowsOf("country"))
      /\ g.browser \in Seq(RowsOf("browser"))
      /\ SumTo([i \in DOMAIN g.status |-> g.status[i].requests], Len(g.status)) = g.requests
  BY DEF Sound
<1>5. Sound(h)
  <2>1. SumTo([i \in DOMAIN h.status |-> h.status[i].requests], Len(h.status)) = h.requests
    BY <1>2, <1>3, <1>4, RequestsJoin
  <2>2. /\ h.status \in Seq(RowsOf("status")) /\ h.country \in Seq(RowsOf("country"))
        /\ h.browser \in Seq(RowsOf("browser"))
    BY <1>2, <1>3, <1>4, ConcatProperties
  <2>3. h.requests \in Nat /\ h.cached \in 0..h.requests /\ h.uniques \in Nat
    <3>1. \A a, b \in Nat : \A x \in 0..a, y \in 0..b : a + b \in Nat /\ x + y \in 0..(a + b)
      OBVIOUS
    <3>2. \A a, b \in Nat : a + b \in Nat
      OBVIOUS
    <3>3. g.requests + m.requests \in Nat /\ g.cached + m.cached \in 0..(g.requests + m.requests)
      BY <1>2, <1>4, <3>1
    <3>4. g.uniques + Cardinality(m.visitors) \in Nat
      BY <1>2, <1>4, <3>2
    <3> QED  BY <1>3, <3>3, <3>4
  <2> QED  BY <2>1, <2>2, <2>3 DEF Sound
<1>6. h.requests = SumTo([i \in DOMAIN l |-> l[i].requests], j + 1)
  <2> DEFINE v == [i \in DOMAIN l |-> l[i].requests]
  <2>1. \A i \in 1..n : v[i] \in Int
    BY <1>0, BucketRows
  <2>2. v[j + 1] = m.requests
    BY <1>0 DEF m
  <2>3. g.requests = SumTo(v, j)
    BY DEF Merged
  <2> HIDE DEF v
  <2>4. SumTo(v, j + 1) = SumTo(v, (j + 1) - 1) + v[j + 1]
    BY <1>0, <2>1, SumSteps
  <2>5. (j + 1) - 1 = j
    OBVIOUS
  <2> QED  BY <1>3, <2>2, <2>3, <2>4, <2>5 DEF v
<1>7. ASSUME NEW b \in Breakdowns, NEW x \in NamesOf(b), NEW f \in Fields(b)
      PROVE  SumNamed(h[b], x, f)
                = SumTo([i \in DOMAIN l |-> SumNamed(l[i][b], x, f)], j + 1)
  <2> DEFINE v == [i \in DOMAIN l |-> SumNamed(l[i][b], x, f)]
  <2>1. \A i \in 1..n : v[i] \in Int
    BY <1>0, BucketRows, SumNamedType
  <2>2. v[j + 1] = SumNamed(m[b], x, f)
    BY <1>0 DEF m
  <2>3. SumNamed(g[b], x, f) = SumTo(v, j)
    BY DEF Merged
  <2>4. h[b] = g[b] \o m[b] /\ g[b] \in Seq(RowsOf(b)) /\ m[b] \in Seq(RowsOf(b))
    BY <1>2, <1>3, <1>4 DEF Breakdowns
  <2>5. SumNamed(h[b], x, f) = SumNamed(g[b], x, f) + SumNamed(m[b], x, f)
    BY <2>4, SumNamedJoin
  <2> HIDE DEF v
  <2>6. SumTo(v, j + 1) = SumTo(v, (j + 1) - 1) + v[j + 1]
    BY <1>0, <2>1, SumSteps
  <2>7. (j + 1) - 1 = j
    OBVIOUS
  <2> QED  BY <2>2, <2>3, <2>5, <2>6, <2>7 DEF v
<1>8. /\ IsFiniteSet(UNION {l[i].visitors : i \in 1..(j + 1)})
      /\ Cardinality(UNION {l[i].visitors : i \in 1..(j + 1)}) <= h.uniques
  <2> DEFINE U == UNION {l[i].visitors : i \in 1..j}
             W == UNION {l[i].visitors : i \in 1..(j + 1)}
  <2>1. W = U \cup m.visitors
    <3>1. \A i \in 1..(j + 1) : i \in 1..j \/ i = j + 1
      OBVIOUS
    <3>2. j + 1 \in 1..(j + 1) /\ \A i \in 1..j : i \in 1..(j + 1)
      OBVIOUS
    <3>3. ASSUME NEW y \in W  PROVE y \in U \cup m.visitors
      BY <3>1 DEF m
    <3>4. ASSUME NEW y \in U \cup m.visitors  PROVE y \in W
      BY <3>2 DEF m
    <3> QED  BY <3>3, <3>4
  <2>2. IsFiniteSet(U) /\ Cardinality(U) <= g.uniques
    BY DEF Merged
  <2> HIDE DEF U, W
  <2>3. IsFiniteSet(W) /\ Cardinality(W) = Cardinality(U) + Cardinality(m.visitors)
                                             - Cardinality(U \cap m.visitors)
    BY <1>2, <2>1, <2>2, FS_Union
  <2>4. Cardinality(U \cap m.visitors) \in Nat /\ Cardinality(U) \in Nat
    BY <2>2, FS_Intersection, FS_CardinalityType
  <2> QED  BY <1>2, <1>3, <1>4, <2>2, <2>3, <2>4 DEF W
<1>9. Merged(l, j + 1, h)
  BY <1>6, <1>7, <1>8 DEF Merged
<1> QED  BY <1>5, <1>9 DEF h, m

\* The group before any bucket.
LEMMA MergeInit ==
  ASSUME NEW l \in Seq(Minutes)
  PROVE  Sound(NoGroup) /\ Merged(l, 0, NoGroup)
<1> DEFINE n == Len(l)
<1>0. n \in Nat /\ DOMAIN l = 1..n /\ \A i \in 1..n : l[i] \in Minutes
  BY LenProperties, ElementOfSeq
<1>1. /\ NoGroup.requests = 0 /\ NoGroup.cached = 0 /\ NoGroup.uniques = 0
      /\ NoGroup.status = << >> /\ NoGroup.country = << >> /\ NoGroup.browser = << >>
  BY DEF NoGroup
<1>2. \A b \in Breakdowns : NoGroup[b] = << >>
  BY <1>1 DEF Breakdowns
<1>3. Len(<< >>) = 0 /\ \A S : << >> \in Seq(S)
  OBVIOUS
<1>4. \A f : SumTo(f, 0) = 0
  BY SumZero
<1>5. Sound(NoGroup)
  BY <1>1, <1>3, <1>4 DEF Sound
<1>6. \A x, f : SumNamed(<< >>, x, f) = 0
  BY <1>3, <1>4 DEF SumNamed
<1>7. UNION {l[i].visitors : i \in 1..0} = {}
  OBVIOUS
<1>8. IsFiniteSet({}) /\ Cardinality({}) = 0
  BY FS_EmptySet
<1>9. Merged(l, 0, NoGroup)
  <2>1. NoGroup.requests = SumTo([i \in DOMAIN l |-> l[i].requests], 0)
    BY <1>1, <1>4
  <2>2. ASSUME NEW b \in Breakdowns, NEW x \in NamesOf(b), NEW f \in Fields(b)
        PROVE  SumNamed(NoGroup[b], x, f)
                  = SumTo([i \in DOMAIN l |-> SumNamed(l[i][b], x, f)], 0)
    BY <1>2, <1>4, <1>6
  <2>3. 0 <= NoGroup.uniques
    BY <1>1
  <2> HIDE DEF NoGroup
  <2> QED  BY <1>7, <1>8, <2>1, <2>2, <2>3 DEF Merged
<1> QED  BY <1>5, <1>9

-----------------------------------------------------------------------------
(* The inductive invariant *)

SeriesOf(p, z) == {p[i] : i \in {k \in DOMAIN p : p[k].zone = z}}

\* The entries of p for zone z are what the first j of its buckets l amount to.
Published(p, z, l, j) ==
    \E g : /\ Sound(g) /\ Merged(l, j, g)
          /\ SeriesOf(p, z) = SeriesFor(z, g)
          /\ SumTo(StatusPart(p, z), Len(p)) = g.requests

\* Zones of which nothing has been sent yet.
Untouched == todo \cup (IF pc = "merge" THEN {zone} ELSE {})

TypeInv ==
    /\ pc \in {"fetch", "next", "merge", "done"}
    /\ held \in [Zones -> Seq(Minutes)]
    /\ reply \in Replies(Zones) /\ err \in BOOLEAN
    /\ todo \subseteq Zones /\ zone \in Zones
    /\ Len(rest) <= QueryLimit
    /\ Sound(group)

\* When there is nothing to go through.
TodoInv ==
    /\ pc = "fetch" => ~err /\ todo = {}
    /\ err => todo = {} /\ sent = << >> /\ pc # "merge"
    /\ pc = "merge" => zone \notin todo
    /\ pc = "done" => todo = {}

\* What is sent is of zones in scope that have been handled, each series once.
SentInv ==
    /\ sent \in Seq(Series) /\ Distinct(sent)
    /\ \A i \in DOMAIN sent :
          /\ sent[i].zone \in InScope /\ sent[i].zone \notin Untouched /\ pc # "fetch"
          /\ sent[i].metric = "requests_status" => sent[i].value \in Nat

\* The group is what the buckets taken from rest amount to.
MergeInv ==
    pc = "merge" =>
       \E j \in 0..Answered(zone) :
          /\ rest = [i \in 1..(Answered(zone) - j) |-> held[zone][j + i]]
          /\ Merged(held[zone], j, group)

\* Of a whole answer each zone in scope is published once it has been handled.
PublishedInv ==
    pc # "fetch" /\ Whole =>
       \A z \in InScope : z \notin Untouched /\ held[z] # << >> =>
          Published(sent, z, held[z], Answered(z))

HttpInv == TypeInv /\ TodoInv /\ SentInv /\ MergeInv /\ PublishedInv

-----------------------------------------------------------------------------
(* The steps *)

LEMMA ScopeZones == InScope \subseteq Zones /\ QueryLimit \in Nat \ {0}
BY BucketAssumption

\* How many buckets of a list are answered.
LEMMA AnsweredRange ==
  ASSUME NEW z \in Zones, held[z] \in Seq(Minutes)
  PROVE  /\ Answered(z) \in 0..Len(held[z]) /\ Answered(z) <= QueryLimit
         /\ Len(held[z]) \in Nat
         /\ held[z] # << >> => Answered(z) > 0
         /\ Len(held[z]) <= QueryLimit => Answered(z) = Len(held[z])
<1>1. Len(held[z]) \in Nat
  BY LenProperties
<1> QED  BY <1>1, ScopeZones DEF Answered

LEMMA InitHttp == Init => HttpInv
<1> SUFFICES ASSUME Init  PROVE HttpInv
  OBVIOUS
<1>1. held \in [Zones -> Seq(Minutes)]
  <2>1. ASSUME NEW q \in BoundedSeq(Minutes, MaxBuckets)  PROVE q \in Seq(Minutes)
    <3>1. PICK k \in 0..MaxBuckets : q \in [1..k -> Minutes]
      BY DEF BoundedSeq, SeqOf
    <3>2. k \in Nat
      BY BucketAssumption
    <3> QED  BY <3>1, <3>2
  <2> QED  BY <2>1 DEF Init
<1>2. Sound(NoGroup)
  <2>1. PICK z : z \in Zones
    BY BucketAssumption
  <2> QED  BY <1>1, <2>1, MergeInit
<1>3. zone \in Zones
  BY BucketAssumption DEF Init
<1>4. Len(rest) = 0 /\ DOMAIN sent = {} /\ sent \in Seq(Series)
  BY DEF Init
<1>5. TypeInv
  <2>1. Len(rest) <= QueryLimit
    BY <1>4, ScopeZones
  <2>2. Sound(group)
    BY <1>2 DEF Init
  <2> QED  BY <1>1, <1>3, <2>1, <2>2 DEF TypeInv, Init
<1>6. SentInv
  BY <1>4 DEF SentInv, Distinct
<1>7. TodoInv /\ MergeInv /\ PublishedInv
  BY DEF Init, TodoInv, MergeInv, PublishedInv
<1> QED  BY <1>5, <1>6, <1>7 DEF HttpInv

\* A reply that is an answer with data lists all zones.
LEMMA WholeReply ==
  ASSUME NEW r \in Replies(Zones)
  PROVE  /\ Decoded(r) \subseteq Zones
         /\ ~QueryFails(r) /\ r.data # "null" => Decoded(r) = Zones
<1> DEFINE whole == [arrived |-> TRUE, status |-> 200, json |-> TRUE, errors |-> FALSE,
                     data |-> "zones", zones |-> Zones]
<1>1. \/ r = whole \/ r = [whole EXCEPT !.arrived = FALSE] \/ r = [whole EXCEPT !.status = 403]
      \/ r = [whole EXCEPT !.json = FALSE]
      \/ \E d \in {"absent", "null", "garbled"} : r = [whole EXCEPT !.data = d]
      \/ \E S \in SUBSET Zones : r = [whole EXCEPT !.errors = TRUE, !.zones = S]
      \/ r = [whole EXCEPT !.errors = TRUE, !.data = "null"]
  BY DEF Replies
<1>2. CASE r = whole
  BY <1>2 DEF Decoded
<1>3. CASE r = [whole EXCEPT !.arrived = FALSE] \/ r = [whole EXCEPT !.status = 403]
           \/ r = [whole EXCEPT !.json = FALSE]
  BY <1>3 DEF Decoded
<1>4. CASE \E d \in {"absent", "null", "garbled"} : r = [whole EXCEPT !.data = d]
  BY <1>4 DEF Decoded, QueryFails
<1>5. CASE \E S \in SUBSET Zones : r = [whole EXCEPT !.errors = TRUE, !.zones = S]
  BY <1>5 DEF Decoded, QueryFails
<1>6. CASE r = [whole EXCEPT !.errors = TRUE, !.data = "null"]
  BY <1>6 DEF Decoded
<1> QED  BY <1>1, <1>2, <1>3, <1>4, <1>5, <1>6

\* r is p with the series R of z behind, whose statuses sum to n.
Appended(p, r, z, R, n) ==
  /\ r \in Seq(Series) /\ Distinct(r)
  /\ \A i \in DOMAIN r :
        /\ r[i].metric = "requests_status" => r[i].value \in Nat
        /\ r[i].zone = z \/ \E k \in DOMAIN p : r[i].zone = p[k].zone
  /\ SeriesOf(r, z) = R
  /\ SumTo(StatusPart(r, z), Len(r)) = n
  /\ \A y : y # z =>
        /\ SeriesOf(r, y) = SeriesOf(p, y)
        /\ SumTo(StatusPart(r, y), Len(r)) = SumTo(StatusPart(p, y), Len(p))

\* Appending the series of a zone of which there were none.
LEMMA AppendZone ==
  ASSUME NEW p \in Seq(Series), Distinct(p),
         \A i \in DOMAIN p : p[i].metric = "requests_status" => p[i].value \in Nat,
         NEW z, \A i \in DOMAIN p : p[i].zone # z,
         NEW q, NEW M, NEW R, NEW n, Emitted(q, z, M, R, n), n \in Nat
  PROVE  Appended(p, p \o q, z, R, n)
<1> DEFINE r == p \o q
<1>1. q \in Seq(Series) /\ R = {q[i] : i \in DOMAIN q} /\ Distinct(q)
      /\ (\A i \in DOMAIN q : q[i].zone = z)
      /\ \A i \in DOMAIN q : q[i].metric = "requests_status" => q[i].value \in Nat
  BY DEF Emitted
<1>2. Len(p) \in Nat /\ Len(q) \in Nat /\ DOMAIN p = 1..Len(p) /\ DOMAIN q = 1..Len(q)
  BY <1>1, LenProperties
<1>3. /\ r \in Seq(Series) /\ Len(r) = Len(p) + Len(q)
      /\ DOMAIN r = 1..(Len(p) + Len(q))
      /\ \A i \in 1..Len(p) : r[i] = p[i]
      /\ \A i \in 1..Len(q) : r[Len(p) + i] = q[i]
      /\ \A i \in DOMAIN r : i \in 1..Len(p) \/ \E j \in 1..Len(q) : i = Len(p) + j
  BY <1>1, JoinEntries
<1>4. \A y : SumTo(StatusPart(r, y), Len(r))
               = SumTo(StatusPart(p, y), Len(p)) + SumTo(StatusPart(q, y), Len(q))
  BY <1>1, JoinStatus
<1> HIDE DEF r
<1>5. /\ \A i \in 1..Len(p) : i \in DOMAIN r
      /\ \A j \in 1..Len(q) : Len(p) + j \in DOMAIN r
  BY <1>2, <1>3
<1>6. Distinct(r)
  <2> SUFFICES ASSUME NEW i \in DOMAIN r, NEW j \in DOMAIN r, r[i].zone = r[j].zone,
                      r[i].metric = r[j].metric, r[i].label = r[j].label
               PROVE  i = j
    BY DEF Distinct
  <2>1. CASE i \in 1..Len(p) /\ j \in 1..Len(p)
    BY <1>2, <1>3, <2>1 DEF Distinct
  <2>2. CASE i \in 1..Len(p) /\ j \notin 1..Len(p)
    <3>1. PICK b \in 1..Len(q) : j = Len(p) + b
      BY <1>3, <2>2
    <3>2. r[i] = p[i] /\ i \in DOMAIN p /\ r[j] = q[b] /\ b \in DOMAIN q
      BY <1>2, <1>3, <2>2, <3>1
    <3>3. r[i].zone # z /\ r[j].zone = z
      BY <1>1, <3>2
    <3> QED  BY <3>2, <3>3
  <2>3. CASE i \notin 1..Len(p) /\ j \in 1..Len(p)
    <3>1. PICK b \in 1..Len(q) : i = Len(p) + b
      BY <1>3, <2>3
    <3>2. r[j] = p[j] /\ j \in DOMAIN p /\ r[i] = q[b] /\ b \in DOMAIN q
      BY <1>2, <1>3, <2>3, <3>1
    <3>3. r[j].zone # z /\ r[i].zone = z
      BY <1>1, <3>2
    <3> QED  BY <3>2, <3>3
  <2>4. CASE i \notin 1..Len(p) /\ j \notin 1..Len(p)
    <3>1. PICK a \in 1..Len(q) : i = Len(p) + a
      BY <1>3, <2>4
    <3>2. PICK b \in 1..Len(q) : j = Len(p) + b
      BY <1>3, <2>4
    <3>3. r[i] = q[a] /\ r[j] = q[b]
      BY <1>3, <3>1, <3>2
    <3>4. a = b
      BY <1>1, <1>2, <3>3 DEF Distinct
    <3> QED  BY <3>1, <3>2, <3>4
  <2> QED  BY <2>1, <2>2, <2>3, <2>4
<1>7. ASSUME NEW i \in DOMAIN r
      PROVE  /\ r[i].metric = "requests_status" => r[i].value \in Nat
             /\ r[i].zone = z \/ \E k \in DOMAIN p : r[i].zone = p[k].zone
  <2>1. CASE i \in 1..Len(p)
    BY <1>2, <1>3, <2>1
  <2>2. CASE \E j \in 1..Len(q) : i = Len(p) + j
    BY <1>1, <1>2, <1>3, <2>2
  <2> QED  BY <1>3, <2>1, <2>2
<1>8. SeriesOf(r, z) = R
  <2>1. ASSUME NEW x \in R  PROVE \E i \in DOMAIN r : r[i].zone = z /\ r[i] = x
    BY <1>1, <1>2, <1>3, <1>5
  <2>2. ASSUME NEW i \in DOMAIN r, r[i].zone = z  PROVE r[i] \in R
    <3>1. i \notin 1..Len(p)
      BY <1>2, <1>3, <2>2
    <3>2. PICK j \in 1..Len(q) : i = Len(p) + j
      BY <1>3, <3>1
    <3> QED  BY <1>1, <1>2, <1>3, <3>2
  <2> QED  BY <2>1, <2>2 DEF SeriesOf
<1>9. ASSUME NEW y, y # z  PROVE SeriesOf(r, y) = SeriesOf(p, y)
  <2>1. ASSUME NEW i \in DOMAIN p, p[i].zone = y
        PROVE \E j \in DOMAIN r : r[j].zone = y /\ r[j] = p[i]
    BY <1>2, <1>3, <1>5, <2>1
  <2>2. ASSUME NEW i \in DOMAIN r, r[i].zone = y
        PROVE \E j \in DOMAIN p : p[j].zone = y /\ p[j] = r[i]
    BY <1>1, <1>2, <1>3, <1>9, <2>2
  <2> QED  BY <2>1, <2>2 DEF SeriesOf
<1>10. SumTo(StatusPart(r, z), Len(r)) = n
  <2>1. \A k \in 1..Len(p) : StatusPart(p, z)[k] = 0
    BY <1>2 DEF StatusPart
  <2>2. SumTo(StatusPart(p, z), Len(p)) = 0
    BY <1>2, <2>1, SumZero
  <2>3. SumTo(StatusPart(q, z), Len(q)) = n
    BY DEF Emitted
  <2> QED  BY <1>4, <2>2, <2>3
<1>11. ASSUME NEW y, y # z
       PROVE SumTo(StatusPart(r, y), Len(r)) = SumTo(StatusPart(p, y), Len(p))
  <2>1. \A k \in 1..Len(q) : StatusPart(q, y)[k] = 0
    BY <1>1, <1>2, <1>11 DEF StatusPart
  <2>2. SumTo(StatusPart(q, y), Len(q)) = 0
    BY <1>2, <2>1, SumZero
  <2>3. \A k \in 1..Len(p) : StatusPart(p, y)[k] \in Nat
    BY <1>2 DEF StatusPart
  <2>4. SumTo(StatusPart(p, y), Len(p)) \in Nat
    BY <1>2, <2>3, SumNat
  <2>5. SumTo(StatusPart(r, y), Len(r))
               = SumTo(StatusPart(p, y), Len(p)) + SumTo(StatusPart(q, y), Len(q))
    BY <1>4
  <2> QED  BY <2>2, <2>4, <2>5
<1> QED  BY <1>3, <1>6, <1>7, <1>8, <1>9, <1>10, <1>11 DEF r, Appended

LEMMA FetchStep ==
  ASSUME HttpInv, Fetch
  PROVE  HttpInv'
<1>0. TypeInv /\ TodoInv /\ SentInv
  BY DEF HttpInv
<1>1. /\ pc = "fetch" /\ pc' = "next" /\ sent' = sent /\ held' = held /\ reply' = reply
      /\ zone' = zone /\ rest' = rest /\ group' = group
      /\ err' = (InScope # {} /\ QueryFails(reply))
      /\ todo' = IF InScope = {} \/ QueryFails(reply) THEN {} ELSE Decoded(reply)
  BY DEF Fetch
<1>2. /\ Decoded(reply) \subseteq Zones
      /\ ~QueryFails(reply) /\ reply.data # "null" => Decoded(reply) = Zones
  BY <1>0, WholeReply DEF TypeInv
<1>3. DOMAIN sent = {} /\ sent = << >> /\ sent \in Seq(Series)
  <2>1. DOMAIN sent = {}
    BY <1>0, <1>1 DEF SentInv
  <2>2. sent \in Seq(Series)
    BY <1>0 DEF SentInv
  <2>3. Len(sent) = 0
    <3>1. Len(sent) \in Nat /\ DOMAIN sent = 1..Len(sent)
      BY <2>2, LenProperties
    <3>2. 1 \notin DOMAIN sent
      BY <2>1
    <3> QED  BY <3>1, <3>2
  <2> QED  BY <2>1, <2>2, <2>3, EmptySeq
<1>4. TypeInv'
  BY <1>0, <1>1, <1>2 DEF TypeInv
<1>5. TodoInv'
  BY <1>1, <1>3 DEF TodoInv
<1>6. SentInv'
  BY <1>1, <1>3 DEF SentInv, Distinct
<1>7. MergeInv'
  BY <1>1 DEF MergeInv
<1>8. PublishedInv'
  <2> SUFFICES ASSUME Whole', NEW z \in InScope, z \notin Untouched'  PROVE FALSE
    BY DEF PublishedInv
  <2>1. ~QueryFails(reply) /\ reply.data # "null"
    BY <1>1 DEF Whole
  <2>2. todo' = Zones
    BY <1>1, <1>2, <2>1
  <2> QED  BY <2>2, ScopeZones DEF Untouched
<1> QED  BY <1>4, <1>5, <1>6, <1>7, <1>8 DEF HttpInv

LEMMA NextZoneStep ==
  ASSUME HttpInv, NextZone
  PROVE  HttpInv'
<1>0. TypeInv /\ TodoInv /\ SentInv /\ PublishedInv
  BY DEF HttpInv
<1>1. PICK z \in todo : /\ zone' = z /\ todo' = todo \ {z}
                        /\ rest' = [i \in 1..Answered(z) |-> held[z][i]]
  BY DEF NextZone
<1>2. /\ pc = "next" /\ pc' = "merge" /\ sent' = sent /\ held' = held /\ reply' = reply
      /\ err' = err /\ group' = NoGroup
  BY DEF NextZone
<1>3. z \in Zones /\ held[z] \in Seq(Minutes)
  BY <1>0 DEF TypeInv
<1>4. /\ Answered(z) \in 0..Len(held[z]) /\ Answered(z) <= QueryLimit /\ Len(held[z]) \in Nat
  BY <1>3, AnsweredRange
<1>5. Sound(NoGroup) /\ Merged(held[z], 0, NoGroup)
  BY <1>3, MergeInit
<1>6. Untouched' = Untouched
  BY <1>1, <1>2 DEF Untouched
<1>7. Answered(z)' = Answered(z)
  BY <1>2 DEF Answered
<1>8. Len(rest') = Answered(z)
  BY <1>1, <1>4
<1>9. TypeInv'
  BY <1>0, <1>1, <1>2, <1>3, <1>4, <1>5, <1>8 DEF TypeInv
<1>10. TodoInv'
  BY <1>0, <1>1, <1>2 DEF TodoInv
<1>11. SentInv'
  BY <1>0, <1>2, <1>6 DEF SentInv
<1>12. MergeInv'
  <2>1. rest' = [i \in 1..(Answered(z) - 0) |-> held[z][0 + i]]
    BY <1>1, <1>4
  <2>2. 0 \in 0..Answered(z)
    BY <1>4
  <2> QED  BY <1>1, <1>2, <1>5, <1>7, <2>1, <2>2 DEF MergeInv
<1>13. PublishedInv'
  <2>1. \A y : Answered(y)' = Answered(y)
    BY <1>2 DEF Answered
  <2> QED  BY <1>0, <1>2, <1>6, <2>1 DEF PublishedInv, Whole
<1> QED  BY <1>9, <1>10, <1>11, <1>12, <1>13 DEF HttpInv

LEMMA MergeKeeps ==
  ASSUME HttpInv, Merge
  PROVE  HttpInv'
<1>0. TypeInv /\ TodoInv /\ SentInv /\ MergeInv /\ PublishedInv
  BY DEF HttpInv
<1>1. /\ pc = "merge" /\ rest # << >> /\ pc' = pc /\ sent' = sent /\ held' = held
      /\ reply' = reply /\ err' = err /\ todo' = todo /\ zone' = zone
      /\ group' = mergeGroup(group, AsGroup(Head(rest))) /\ rest' = Tail(rest)
  BY DEF Merge
<1>2. zone \in Zones /\ held[zone] \in Seq(Minutes) /\ Sound(group) /\ Len(rest) <= QueryLimit
  BY <1>0 DEF TypeInv
<1> DEFINE a == Answered(zone)
<1>3. a \in 0..Len(held[zone]) /\ Len(held[zone]) \in Nat
  BY <1>2, AnsweredRange
<1> HIDE DEF a
<1>4. PICK j \in 0..a : /\ rest = [i \in 1..(a - j) |-> held[zone][j + i]]
                        /\ Merged(held[zone], j, group)
  BY <1>0, <1>1 DEF MergeInv, a
<1>5. a - j \in Nat /\ a - j # 0 /\ j \in Nat /\ a \in Nat
  <2>1. a - j \in Nat /\ j \in Nat /\ a \in Nat
    BY <1>3, <1>4
  <2>2. CASE a - j = 0
    <3>1. rest = [i \in 1..0 |-> held[zone][j + i]]
      BY <1>4, <2>2
    <3>2. rest = << >>
      BY <3>1
    <3> QED  BY <1>1, <3>2
  <2> QED  BY <2>1, <2>2
<1>6. Head(rest) = held[zone][j + 1]
  <2>1. rest[1] = held[zone][j + 1]
    BY <1>4, <1>5
  <2>2. Head(rest) = rest[1]
    OBVIOUS
  <2> QED  BY <2>1, <2>2
<1>7. rest' = [i \in 1..(a - (j + 1)) |-> held[zone][(j + 1) + i]] /\ Len(rest') <= QueryLimit
  <2>1. rest \in Seq(Minutes) /\ Len(rest) = a - j
    <3>1. \A i \in 1..(a - j) : j + i \in 1..Len(held[zone])
      BY <1>3, <1>4, <1>5
    <3>2. \A i \in 1..Len(held[zone]) : held[zone][i] \in Minutes
      BY <1>2, ElementOfSeq
    <3>3. rest \in [1..(a - j) -> Minutes]
      BY <1>4, <3>1, <3>2
    <3> QED  BY <1>5, <3>3
  <2>2. /\ Tail(rest) \in Seq(Minutes) /\ Len(Tail(rest)) = (a - j) - 1
        /\ \A i \in 1..Len(Tail(rest)) : Tail(rest)[i] = rest[i + 1]
    BY <1>1, <2>1, HeadTailProperties
  <2>3. (a - j) - 1 = a - (j + 1)
    BY <1>5
  <2>4. \A i \in 1..(a - (j + 1)) : Tail(rest)[i] = held[zone][(j + 1) + i]
    <3> SUFFICES ASSUME NEW i \in 1..(a - (j + 1))
                 PROVE  Tail(rest)[i] = held[zone][(j + 1) + i]
      OBVIOUS
    <3>1. i + 1 \in 1..(a - j) /\ j + (i + 1) = (j + 1) + i
      BY <1>5
    <3>2. rest[i + 1] = held[zone][j + (i + 1)]
      BY <1>4, <3>1
    <3> QED  BY <2>2, <2>3, <3>1, <3>2
  <2>5. DOMAIN Tail(rest) = 1..(a - (j + 1))
    BY <2>2, <2>3, LenProperties
  <2>6. Tail(rest) = [i \in DOMAIN Tail(rest) |-> Tail(rest)[i]]
    <3>1. Tail(rest) \in [1..Len(Tail(rest)) -> Minutes]
      BY <2>2, LenProperties
    <3> QED  BY <3>1
  <2>7. Tail(rest) = [i \in 1..(a - (j + 1)) |-> held[zone][(j + 1) + i]]
    BY <2>4, <2>5, <2>6
  <2>8. Len(Tail(rest)) <= QueryLimit
    BY <1>2, <1>5, <2>1, <2>2, ScopeZones
  <2> QED  BY <1>1, <2>7, <2>8
<1>8. j + 1 \in 1..Len(held[zone]) /\ j + 1 \in 0..a
  BY <1>3, <1>4, <1>5
<1>9. Sound(group') /\ Merged(held[zone], j + 1, group')
  BY <1>1, <1>2, <1>4, <1>5, <1>6, <1>8, MergeStep
<1>10. Untouched' = Untouched /\ \A y : Answered(y)' = Answered(y)
  BY <1>1 DEF Untouched, Answered
<1>11. TypeInv'
  BY <1>0, <1>1, <1>7, <1>9 DEF TypeInv
<1>12. TodoInv'
  BY <1>0, <1>1 DEF TodoInv
<1>13. SentInv'
  BY <1>0, <1>1, <1>10 DEF SentInv
<1>14. MergeInv'
  <2>1. Answered(zone)' = a
    BY <1>1 DEF a, Answered
  <2> QED  BY <1>1, <1>7, <1>8, <1>9, <2>1 DEF MergeInv
<1>15. PublishedInv'
  BY <1>0, <1>1, <1>10 DEF PublishedInv, Whole
<1> QED  BY <1>11, <1>12, <1>13, <1>14, <1>15 DEF HttpInv

LEMMA EmitStep ==
  ASSUME HttpInv, Emit
  PROVE  HttpInv'
<1>0. TypeInv /\ TodoInv /\ SentInv /\ MergeInv /\ PublishedInv
  BY DEF HttpInv
<1>1. /\ pc = "merge" /\ rest = << >> /\ pc' = "next" /\ held' = held
      /\ reply' = reply /\ err' = err /\ todo' = todo /\ zone' = zone
      /\ group' = group /\ rest' = rest
      /\ sent' = IF held[zone] # << >> /\ zone \in InScope
                 THEN sent \o emitZoneMetrics(zone, group) ELSE sent
  BY DEF Emit
<1>2. /\ zone \in Zones /\ held[zone] \in Seq(Minutes) /\ Sound(group) /\ group.requests \in Nat
      /\ ~err /\ zone \notin todo
  BY <1>0, <1>1 DEF TypeInv, TodoInv, Sound
<1>3. Merged(held[zone], Answered(zone), group)
  <2> DEFINE a == Answered(zone)
  <2>1. PICK j \in 0..a : /\ rest = [i \in 1..(a - j) |-> held[zone][j + i]]
                          /\ Merged(held[zone], j, group)
    BY <1>0, <1>1 DEF MergeInv
  <2>2. a \in 0..Len(held[zone]) /\ Len(held[zone]) \in Nat
    BY <1>2, AnsweredRange
  <2> HIDE DEF a
  <2>3. a - j \in Nat /\ j \in Nat /\ a \in Nat
    BY <2>1, <2>2
  <2>4. DOMAIN rest = 1..(a - j)
    BY <2>1
  <2>5. DOMAIN rest = {}
    BY <1>1
  <2>6. 1 \notin 1..(a - j)
    BY <2>4, <2>5
  <2>7. j = a
    BY <2>3, <2>6
  <2> QED  BY <2>1, <2>7 DEF a
<1>4. zone \in Untouched /\ Untouched' = Untouched \ {zone}
  BY <1>1, <1>2 DEF Untouched
<1>5. \A y : Answered(y)' = Answered(y)
  BY <1>1 DEF Answered
<1>6. TypeInv'
  BY <1>0, <1>1 DEF TypeInv
<1>7. TodoInv'
  BY <1>0, <1>1, <1>2 DEF TodoInv
<1>8. MergeInv'
  BY <1>1 DEF MergeInv
<1>9. CASE ~(held[zone] # << >> /\ zone \in InScope)
  <2>1. sent' = sent
    BY <1>1, <1>9
  <2>2. SentInv'
    BY <1>0, <1>1, <1>4, <2>1 DEF SentInv
  <2>3. PublishedInv'
    <3> SUFFICES ASSUME Whole', NEW z \in InScope, z \notin Untouched', held'[z] # << >>
                 PROVE  Published(sent', z, held'[z], Answered(z)')
      BY DEF PublishedInv
    <3>1. z # zone /\ z \notin Untouched
      BY <1>1, <1>4, <1>9
    <3> QED  BY <1>0, <1>1, <1>5, <2>1, <3>1 DEF PublishedInv, Whole
  <2> QED  BY <1>6, <1>7, <1>8, <2>2, <2>3 DEF HttpInv
<1>10. CASE held[zone] # << >> /\ zone \in InScope
  <2> DEFINE q == emitZoneMetrics(zone, group)
             r == sent \o q
  <2>1. sent' = r
    BY <1>1, <1>10
  <2>2. Emitted(q, zone, Metrics, SeriesFor(zone, group), group.requests)
    BY <1>2, ZoneEmitted
  <2>3. /\ sent \in Seq(Series) /\ Distinct(sent)
        /\ \A i \in DOMAIN sent : sent[i].metric = "requests_status" => sent[i].value \in Nat
        /\ \A i \in DOMAIN sent : sent[i].zone # zone
    BY <1>0, <1>4 DEF SentInv
  <2> HIDE DEF q
  <2>4. /\ r \in Seq(Series) /\ Distinct(r)
        /\ \A i \in DOMAIN r :
              /\ r[i].metric = "requests_status" => r[i].value \in Nat
              /\ r[i].zone = zone \/ \E k \in DOMAIN sent : r[i].zone = sent[k].zone
        /\ SeriesOf(r, zone) = SeriesFor(zone, group)
        /\ SumTo(StatusPart(r, zone), Len(r)) = group.requests
        /\ \A y : y # zone =>
              /\ SeriesOf(r, y) = SeriesOf(sent, y)
              /\ SumTo(StatusPart(r, y), Len(r)) = SumTo(StatusPart(sent, y), Len(sent))
    <3>1. group.requests \in Nat
      BY <1>2 DEF Sound
    <3>2. Appended(sent, r, zone, SeriesFor(zone, group), group.requests)
      BY <2>2, <2>3, <3>1, AppendZone
    <3> HIDE DEF r
    <3> QED  BY <3>2 DEF Appended
  <2> HIDE DEF r
  <2>5. SentInv'
    <3>1. ASSUME NEW i \in DOMAIN r
          PROVE  r[i].zone \in InScope /\ r[i].zone \notin Untouched'
      <4>1. CASE r[i].zone = zone
        BY <1>4, <1>10, <4>1
      <4>2. CASE \E k \in DOMAIN sent : r[i].zone = sent[k].zone
        BY <1>0, <1>4, <4>2 DEF SentInv
      <4> QED  BY <2>4, <4>1, <4>2
    <3> QED  BY <1>1, <2>1, <2>4, <3>1 DEF SentInv
  <2>6. PublishedInv'
    <3> SUFFICES ASSUME Whole', NEW z \in InScope, z \notin Untouched', held'[z] # << >>
                 PROVE  Published(r, z, held[z], Answered(z))
      BY <1>1, <1>5, <2>1 DEF PublishedInv
    <3>1. CASE z = zone
      BY <1>2, <1>3, <2>4, <3>1 DEF Published
    <3>2. CASE z # zone
      <4>1. Published(sent, z, held[z], Answered(z))
        BY <1>0, <1>1, <1>4, <3>2 DEF PublishedInv, Whole
      <4>2. /\ SeriesOf(r, z) = SeriesOf(sent, z)
            /\ SumTo(StatusPart(r, z), Len(r)) = SumTo(StatusPart(sent, z), Len(sent))
        BY <2>4, <3>2
      <4> QED  BY <4>1, <4>2 DEF Published
    <3> QED  BY <3>1, <3>2
  <2> QED  BY <1>6, <1>7, <1>8, <2>5, <2>6 DEF HttpInv
<1> QED  BY <1>9, <1>10

LEMMA FinishStep ==
  ASSUME HttpInv, Finish
  PROVE  HttpInv'
<1>0. TypeInv /\ TodoInv /\ SentInv /\ PublishedInv
  BY DEF HttpInv
<1>1. /\ pc = "next" /\ todo = {} /\ pc' = "done"
      /\ UNCHANGED <<held, reply, err, todo, zone, rest, group, sent>>
  BY DEF Finish
<1>2. Untouched' = Untouched /\ \A y : Answered(y)' = Answered(y)
  BY <1>1 DEF Untouched, Answered
<1>3. TypeInv'
  BY <1>0, <1>1 DEF TypeInv
<1>4. TodoInv'
  BY <1>0, <1>1 DEF TodoInv
<1>5. SentInv'
  BY <1>0, <1>1, <1>2 DEF SentInv
<1>6. MergeInv'
  BY <1>1 DEF MergeInv
<1>7. PublishedInv'
  BY <1>0, <1>1, <1>2 DEF PublishedInv, Whole
<1> QED  BY <1>3, <1>4, <1>5, <1>6, <1>7 DEF HttpInv

\* The handling of an HTTP answer keeps the invariant: what has been sent is each
\* handled zone's buckets summed, each series once, and the group is the sum of
\* the buckets merged so far (FetchHTTPMetrics, emitZoneMetrics).
THEOREM HttpInvariance == Spec => []HttpInv
<1>1. Init => HttpInv
  BY InitHttp
<1>2. HttpInv /\ [Next]_vars => HttpInv'
  <2> SUFFICES ASSUME HttpInv, [Next]_vars  PROVE HttpInv'
    OBVIOUS
  <2>1. CASE Fetch
    BY <2>1, FetchStep
  <2>2. CASE NextZone
    BY <2>2, NextZoneStep
  <2>3. CASE Merge
    BY <2>3, MergeKeeps
  <2>4. CASE Emit
    BY <2>4, EmitStep
  <2>5. CASE Finish
    BY <2>5, FinishStep
  <2>6. CASE UNCHANGED vars
    <3>1. UNCHANGED <<held, reply, err, todo, zone, rest, group, pc, sent>>
      BY <2>6 DEF vars
    <3>2. Untouched' = Untouched /\ \A y : Answered(y)' = Answered(y)
      BY <3>1 DEF Untouched, Answered
    <3>3. TypeInv' /\ TodoInv'
      BY <3>1 DEF HttpInv, TypeInv, TodoInv
    <3>4. SentInv'
      BY <3>1, <3>2 DEF HttpInv, SentInv
    <3>5. MergeInv'
      BY <3>1, <3>2 DEF HttpInv, MergeInv
    <3>6. PublishedInv'
      BY <3>1, <3>2 DEF HttpInv, PublishedInv, Whole
    <3> QED  BY <3>3, <3>4, <3>5, <3>6 DEF HttpInv
  <2> QED  BY <2>1, <2>2, <2>3, <2>4, <2>5, <2>6 DEF Next, Done
<1> QED  BY <1>1, <1>2, PTL DEF Spec

-----------------------------------------------------------------------------
(* The properties *)

\* The variables keep their types, no answer's bucket list is longer than the
\* limit, and only zones in scope are published (analytics.go:206-221).
THEOREM HttpTypeCorrect == Spec => []TypeOK
<1>1. HttpInv => TypeOK
  BY DEF HttpInv, TypeInv, SentInv, Sound, TypeOK
<1> QED  BY <1>1, HttpInvariance, PTL

\* No series is sent twice, however names repeat within and across buckets and
\* whatever order the maps are walked in (emitZoneMetrics).
THEOREM LabelsDistinct == Spec => []NoDuplicateLabels
<1>1. HttpInv => NoDuplicateLabels
  BY DEF HttpInv, SentInv, Distinct, NoDuplicateLabels
<1> QED  BY <1>1, HttpInvariance, PTL

\* What is known in the end of a zone in scope with traffic.
LEMMA AtTheEnd ==
  ASSUME HttpInv, pc = "done", Whole, NEW z \in InScope, held[z] # << >>
  PROVE  /\ z \in Zones /\ held[z] \in Seq(Minutes)
         /\ Published(sent, z, held[z], Answered(z))
<1>1. todo = {}
  BY DEF HttpInv, TodoInv
<1>2. z \notin Untouched
  BY <1>1 DEF Untouched
<1>3. z \in Zones /\ held[z] \in Seq(Minutes)
  BY ScopeZones DEF HttpInv, TypeInv
<1> QED  BY <1>2, <1>3 DEF HttpInv, PublishedInv

\* A series of the zone's has been sent, with its value, if it is one of those
\* that its group gives, and not at all otherwise.
LEMMA SentSeries ==
  ASSUME HttpInv, NEW z, NEW g, SeriesOf(sent, z) = SeriesFor(z, g),
         NEW metric, NEW label
  PROVE  /\ \A v : Gauge(z, metric, label, v) \in SeriesFor(z, g) =>
               Sent(z, metric, label) /\ Value(z, metric, label) = v
         /\ (\A s \in SeriesFor(z, g) : s.metric # metric \/ s.label # label) =>
               ~Sent(z, metric, label) /\ Value(z, metric, label) = 0
<1> DEFINE found == {i \in DOMAIN sent : /\ sent[i].zone = z /\ sent[i].metric = metric
                                         /\ sent[i].label = label}
<1>1. Distinct(sent)
  BY DEF HttpInv, SentInv
<1>2. ASSUME NEW v, Gauge(z, metric, label, v) \in SeriesFor(z, g)
      PROVE  Sent(z, metric, label) /\ Value(z, metric, label) = v
  <2>1. PICK i \in DOMAIN sent : sent[i] = Gauge(z, metric, label, v)
    BY <1>2 DEF SeriesOf
  <2>2. /\ sent[i].zone = z /\ sent[i].metric = metric /\ sent[i].label = label
        /\ sent[i].value = v
    BY <2>1 DEF Gauge
  <2>3. \A k \in found : k = i
    BY <1>1, <2>2 DEF Distinct
  <2>4. i \in found
    BY <2>2
  <2>5. Value(z, metric, label) = IF found = {} THEN 0 ELSE sent[CHOOSE k \in found : TRUE].value
    BY DEF Value
  <2> HIDE DEF found
  <2>6. (CHOOSE k \in found : TRUE) = i
    BY <2>3, <2>4
  <2> QED  BY <2>2, <2>4, <2>5, <2>6 DEF Sent
<1>3. ASSUME \A s \in SeriesFor(z, g) : s.metric # metric \/ s.label # label
      PROVE  ~Sent(z, metric, label) /\ Value(z, metric, label) = 0
  <2>1. ASSUME NEW i \in DOMAIN sent, sent[i].zone = z
        PROVE  sent[i].metric # metric \/ sent[i].label # label
    <3>1. sent[i] \in SeriesFor(z, g)
      BY <2>1 DEF SeriesOf
    <3> QED  BY <1>3, <3>1
  <2>2. found = {}
    BY <2>1
  <2> QED  BY <2>1, <2>2 DEF Sent, Value
<1> QED  BY <1>2, <1>3

\* Each metric comes from its place in the emission.
LEMMA ByMetric ==
  ASSUME NEW z, NEW g, NEW s \in SeriesFor(z, g)
  PROVE  /\ s.metric = "requests_status" => s \in OfMap(z, "requests_status", SumBy(g.status, "requests"))
         /\ s.metric = "requests_country" => s \in OfMap(z, "requests_country", SumBy(g.country, "requests"))
         /\ s.metric = "threats_country"
               => s \in OfMap(z, "threats_country", Positive(SumBy(g.country, "threats")))
         /\ s.metric = "browser_page_views"
               => s \in OfMap(z, "browser_page_views", Positive(SumBy(g.browser, "views")))
         /\ s.metric \in {"cache_hit_ratio", "error_ratio"} => g.requests > 0
<1>1. CASE s \in {Gauge(z, "requests", "", g.requests), Gauge(z, "requests_cached", "", g.cached),
                  Gauge(z, "uniques", "", g.uniques)}
  <2>1. \A m, l, v : Gauge(z, m, l, v).metric = m
    BY DEF Gauge
  <2>2. CASE s = Gauge(z, "requests", "", g.requests)
    <3>1. s.metric = "requests"
      BY <2>1, <2>2
    <3> QED  BY <3>1
  <2>3. CASE s = Gauge(z, "requests_cached", "", g.cached)
    <3>1. s.metric = "requests_cached"
      BY <2>1, <2>3
    <3> QED  BY <3>1
  <2>4. CASE s = Gauge(z, "uniques", "", g.uniques)
    <3>1. s.metric = "uniques"
      BY <2>1, <2>4
    <3> QED  BY <3>1
  <2> QED  BY <1>1, <2>2, <2>3, <2>4
<1>2. CASE s \in IF g.requests > 0
                THEN {Gauge(z, "cache_hit_ratio", "", <<g.cached, g.requests>>),
                      Gauge(z, "error_ratio", "edge", <<EdgeErrors(g), g.requests>>)}
                ELSE {}
  <2>1. \A m, l, v : Gauge(z, m, l, v).metric = m
    BY DEF Gauge
  <2>2. g.requests > 0
    BY <1>2
  <2>3. CASE s = Gauge(z, "cache_hit_ratio", "", <<g.cached, g.requests>>)
    <3>1. s.metric = "cache_hit_ratio"
      BY <2>1, <2>3
    <3> QED  BY <2>2, <3>1
  <2>4. CASE s = Gauge(z, "error_ratio", "edge", <<EdgeErrors(g), g.requests>>)
    <3>1. s.metric = "error_ratio"
      BY <2>1, <2>4
    <3> QED  BY <2>2, <3>1
  <2>5. s \in {Gauge(z, "cache_hit_ratio", "", <<g.cached, g.requests>>),
               Gauge(z, "error_ratio", "edge", <<EdgeErrors(g), g.requests>>)}
    BY <1>2, <2>2
  <2> QED  BY <2>3, <2>4, <2>5
<1>3. \A metric, sums : \A t \in OfMap(z, metric, sums) : t.metric = metric
  BY DEF OfMap, Gauge
<1>4. CASE s \in OfMap(z, "requests_status", SumBy(g.status, "requests"))
  BY <1>3, <1>4
<1>5. CASE s \in OfMap(z, "requests_country", SumBy(g.country, "requests"))
  BY <1>3, <1>5
<1>6. CASE s \in OfMap(z, "threats_country", Positive(SumBy(g.country, "threats")))
  BY <1>3, <1>6
<1>7. CASE s \in OfMap(z, "browser_page_views", Positive(SumBy(g.browser, "views")))
  BY <1>3, <1>7
<1> QED  BY <1>1, <1>2, <1>4, <1>5, <1>6, <1>7 DEF SeriesFor

\* The series of a metric are those of a map.
Carries(z, g, metric, sums) ==
  /\ OfMap(z, metric, sums) \subseteq SeriesFor(z, g)
  /\ \A s \in SeriesFor(z, g) : s.metric = metric => s \in OfMap(z, metric, sums)

\* The value of a breakdown's series is the sum of the rows with its name, be it
\* that a series without rows, or of sum 0, is not sent.
LEMMA BreakdownValue ==
  ASSUME HttpInv, NEW z, NEW g, SeriesOf(sent, z) = SeriesFor(z, g),
         NEW b \in Breakdowns, NEW rows \in Seq(RowsOf(b)), NEW f \in Fields(b),
         NEW metric, NEW sums, sums \in {SumBy(rows, f), Positive(SumBy(rows, f))},
         Carries(z, g, metric, sums), NEW n
  PROVE  Value(z, metric, n) = SumNamed(rows, n, f)
<1> DEFINE names == {rows[i].name : i \in DOMAIN rows}
<1>0. SumNamed(rows, n, f) \in Nat
  BY SumNamedType
<1>1. /\ DOMAIN sums \subseteq names
      /\ \A k \in DOMAIN sums : sums[k] = SumNamed(rows, k, f)
  BY DEF SumBy, Positive
<1>2. CASE n \in DOMAIN sums
  <2>1. Gauge(z, metric, n, sums[n]) \in SeriesFor(z, g)
    BY <1>2 DEF OfMap, Carries
  <2>2. Value(z, metric, n) = sums[n]
    BY <2>1, SentSeries
  <2> QED  BY <1>1, <1>2, <2>2
<1>3. CASE n \notin DOMAIN sums
  <2>1. \A s \in OfMap(z, metric, sums) : s.label # n
    BY <1>3 DEF OfMap, Gauge
  <2>2. \A s \in SeriesFor(z, g) : s.metric # metric \/ s.label # n
    BY <2>1 DEF Carries
  <2>3. Value(z, metric, n) = 0
    BY <2>2, SentSeries
  <2>4. CASE n \in names
    <3>1. ~(SumBy(rows, f)[n] > 0)
      BY <1>3, <2>4 DEF SumBy, Positive
    <3>2. SumBy(rows, f)[n] = SumNamed(rows, n, f)
      BY <2>4 DEF SumBy
    <3> QED  BY <1>0, <2>3, <3>1, <3>2
  <2>5. CASE n \notin names
    <3> DEFINE v == [i \in DOMAIN rows |-> IF rows[i].name = n THEN rows[i][f] ELSE 0]
    <3>1. Len(rows) \in Nat /\ DOMAIN rows = 1..Len(rows)
      BY LenProperties
    <3>2. \A k \in 1..Len(rows) : v[k] = 0
      BY <2>5, <3>1
    <3>3. SumTo(v, Len(rows)) = 0
      <4> HIDE DEF v
      <4> QED  BY <3>1, <3>2, SumZero
    <3>4. SumNamed(rows, n, f) = SumTo(v, Len(rows))
      BY DEF SumNamed
    <3> QED  BY <2>3, <3>3, <3>4
  <2> QED  BY <2>4, <2>5
<1> QED  BY <1>2, <1>3

\* The values of a published zone's series.
LEMMA ZoneValues ==
  ASSUME HttpInv, NEW z, NEW g, Sound(g), SeriesOf(sent, z) = SeriesFor(z, g)
  PROVE  /\ Sent(z, "requests", "") /\ Value(z, "requests", "") = g.requests
         /\ Value(z, "uniques", "") = g.uniques
         /\ \A n : Value(z, "requests_status", n) = SumNamed(g.status, n, "requests")
         /\ \A n : Value(z, "requests_country", n) = SumNamed(g.country, n, "requests")
         /\ \A n : Value(z, "threats_country", n) = SumNamed(g.country, n, "threats")
         /\ \A n : Value(z, "browser_page_views", n) = SumNamed(g.browser, n, "views")
         /\ g.requests > 0 =>
               /\ Sent(z, "error_ratio", "edge") /\ Sent(z, "cache_hit_ratio", "")
               /\ Value(z, "error_ratio", "edge") = <<EdgeErrors(g), g.requests>>
               /\ Value(z, "cache_hit_ratio", "") = <<g.cached, g.requests>>
         /\ ~(g.requests > 0) => ~Sent(z, "error_ratio", "edge") /\ ~Sent(z, "cache_hit_ratio", "")
<1>1. /\ Gauge(z, "requests", "", g.requests) \in SeriesFor(z, g)
      /\ Gauge(z, "uniques", "", g.uniques) \in SeriesFor(z, g)
  BY DEF SeriesFor
<1>2. /\ Sent(z, "requests", "") /\ Value(z, "requests", "") = g.requests
      /\ Value(z, "uniques", "") = g.uniques
  BY <1>1, SentSeries
<1>3. /\ g.status \in Seq(RowsOf("status")) /\ g.country \in Seq(RowsOf("country"))
      /\ g.browser \in Seq(RowsOf("browser"))
  BY DEF Sound
<1>4. /\ "status" \in Breakdowns /\ "country" \in Breakdowns /\ "browser" \in Breakdowns
      /\ "requests" \in Fields("status") /\ "requests" \in Fields("country")
      /\ "threats" \in Fields("country") /\ "views" \in Fields("browser")
  BY DEF Breakdowns, Fields
<1>5. ASSUME NEW n  PROVE Value(z, "requests_status", n) = SumNamed(g.status, n, "requests")
  <2> DEFINE sums == SumBy(g.status, "requests")
  <2>1. Carries(z, g, "requests_status", sums)
    BY ByMetric DEF SeriesFor, Carries
  <2>2. sums \in {SumBy(g.status, "requests"), Positive(SumBy(g.status, "requests"))}
    OBVIOUS
  <2>3. g.status \in Seq(RowsOf("status")) /\ "status" \in Breakdowns /\ "requests" \in Fields("status")
    BY <1>3, <1>4
  <2> HIDE DEF sums
  <2> QED  BY <2>1, <2>2, <2>3, BreakdownValue
<1>6. ASSUME NEW n  PROVE Value(z, "requests_country", n) = SumNamed(g.country, n, "requests")
  <2> DEFINE sums == SumBy(g.country, "requests")
  <2>1. Carries(z, g, "requests_country", sums)
    BY ByMetric DEF SeriesFor, Carries
  <2>2. sums \in {SumBy(g.country, "requests"), Positive(SumBy(g.country, "requests"))}
    OBVIOUS
  <2>3. g.country \in Seq(RowsOf("country")) /\ "country" \in Breakdowns /\ "requests" \in Fields("country")
    BY <1>3, <1>4
  <2> HIDE DEF sums
  <2> QED  BY <2>1, <2>2, <2>3, BreakdownValue
<1>7. ASSUME NEW n  PROVE Value(z, "threats_country", n) = SumNamed(g.country, n, "threats")
  <2> DEFINE sums == Positive(SumBy(g.country, "threats"))
  <2>1. Carries(z, g, "threats_country", sums)
    BY ByMetric DEF SeriesFor, Carries
  <2>2. sums \in {SumBy(g.country, "threats"), Positive(SumBy(g.country, "threats"))}
    OBVIOUS
  <2>3. g.country \in Seq(RowsOf("country")) /\ "country" \in Breakdowns /\ "threats" \in Fields("country")
    BY <1>3, <1>4
  <2> HIDE DEF sums
  <2> QED  BY <2>1, <2>2, <2>3, BreakdownValue
<1>8. ASSUME NEW n  PROVE Value(z, "browser_page_views", n) = SumNamed(g.browser, n, "views")
  <2> DEFINE sums == Positive(SumBy(g.browser, "views"))
  <2>1. Carries(z, g, "browser_page_views", sums)
    BY ByMetric DEF SeriesFor, Carries
  <2>2. sums \in {SumBy(g.browser, "views"), Positive(SumBy(g.browser, "views"))}
    OBVIOUS
  <2> HIDE DEF sums
  <2> QED  BY <1>3, <1>4, <2>1, <2>2, BreakdownValue
<1>9. ASSUME g.requests > 0
      PROVE  /\ Sent(z, "error_ratio", "edge") /\ Sent(z, "cache_hit_ratio", "")
             /\ Value(z, "error_ratio", "edge") = <<EdgeErrors(g), g.requests>>
             /\ Value(z, "cache_hit_ratio", "") = <<g.cached, g.requests>>
  <2>1. /\ Gauge(z, "cache_hit_ratio", "", <<g.cached, g.requests>>) \in SeriesFor(z, g)
        /\ Gauge(z, "error_ratio", "edge", <<EdgeErrors(g), g.requests>>) \in SeriesFor(z, g)
    BY <1>9 DEF SeriesFor
  <2> QED  BY <2>1, SentSeries
<1>10. ASSUME ~(g.requests > 0)
       PROVE  ~Sent(z, "error_ratio", "edge") /\ ~Sent(z, "cache_hit_ratio", "")
  <2>1. \A s \in SeriesFor(z, g) : s.metric # "error_ratio" /\ s.metric # "cache_hit_ratio"
    BY <1>10, ByMetric
  <2> QED  BY <2>1, SentSeries
<1> QED  BY <1>2, <1>5, <1>6, <1>7, <1>8, <1>9, <1>10

\* A failed call publishes nothing, a whole answer leaves no zone in scope with
\* traffic out (graphql.go:57-80, analytics.go:206-221).
THEOREM NothingPartial == Spec => []AllOrNothing
<1>1. HttpInv => AllOrNothing
  <2> SUFFICES ASSUME HttpInv, pc = "done"
               PROVE  /\ err => sent = << >>
                      /\ ~err /\ reply.data # "null" =>
                            \A z \in InScope : held[z] # << >> => Sent(z, "requests", "")
    BY DEF AllOrNothing
  <2>1. err => sent = << >>
    BY DEF HttpInv, TodoInv
  <2>2. ASSUME ~err, reply.data # "null", NEW z \in InScope, held[z] # << >>
        PROVE  Sent(z, "requests", "")
    <3>1. Published(sent, z, held[z], Answered(z))
      BY <2>2, AtTheEnd DEF Whole
    <3>2. PICK g : Sound(g) /\ SeriesOf(sent, z) = SeriesFor(z, g)
      BY <3>1 DEF Published
    <3> QED  BY <3>2, ZoneValues
  <2> QED  BY <2>1, <2>2
<1> QED  BY <1>1, HttpInvariance, PTL

\* The gauges of a zone are the sums over its buckets, or over as many as the limit,
\* each name's over all the rows that have it; the unique visitors are not
\* undercounted (mergeGroup, emitZoneMetrics, analytics.go:149-160).
THEOREM WindowIsSummed == Spec => []WindowSummed
<1>1. HttpInv => WindowSummed
  <2> SUFFICES ASSUME HttpInv, pc = "done", Whole, NEW z \in InScope, held[z] # << >>
      PROVE  IF Len(held[z]) <= QueryLimit THEN SumsBuckets(z, Len(held[z]))
                                           ELSE SumsBuckets(z, QueryLimit)
    BY DEF WindowSummed
  <2> DEFINE k == Answered(z)
  <2>1. z \in Zones /\ held[z] \in Seq(Minutes) /\ Published(sent, z, held[z], k)
    BY AtTheEnd
  <2>2. k = IF Len(held[z]) <= QueryLimit THEN Len(held[z]) ELSE QueryLimit
    BY <2>1, LenProperties, ScopeZones DEF Answered
  <2> HIDE DEF k
  <2>3. PICK g : Sound(g) /\ Merged(held[z], k, g) /\ SeriesOf(sent, z) = SeriesFor(z, g)
    BY <2>1 DEF Published
  <2>4. g.requests = SumTo([i \in DOMAIN held[z] |-> held[z][i].requests], k)
    BY <2>3 DEF Merged
  <2>5. \A b \in Breakdowns : \A n \in NamesOf(b), f \in Fields(b) :
          SumNamed(g[b], n, f) = Held(z, k, b, n, f)
    BY <2>3 DEF Merged, Held
  <2>6. /\ \A n \in NamesOf("status") :
              SumNamed(g.status, n, "requests") = Held(z, k, "status", n, "requests")
        /\ \A n \in NamesOf("country") :
              /\ SumNamed(g.country, n, "requests") = Held(z, k, "country", n, "requests")
              /\ SumNamed(g.country, n, "threats") = Held(z, k, "country", n, "threats")
        /\ \A n \in NamesOf("browser") :
              SumNamed(g.browser, n, "views") = Held(z, k, "browser", n, "views")
    BY <2>5 DEF Breakdowns, Fields
  <2>7. g.uniques >= Cardinality(UNION {held[z][i].visitors : i \in 1..k})
    <3>1. /\ IsFiniteSet(UNION {held[z][i].visitors : i \in 1..k})
          /\ Cardinality(UNION {held[z][i].visitors : i \in 1..k}) <= g.uniques
      BY <2>3 DEF Merged
    <3>2. Cardinality(UNION {held[z][i].visitors : i \in 1..k}) \in Nat /\ g.uniques \in Nat
      BY <2>3, <3>1, FS_CardinalityType DEF Sound
    <3> QED  BY <3>1, <3>2
  <2>8. /\ Value(z, "requests", "") = g.requests
        /\ Value(z, "uniques", "") = g.uniques
        /\ \A n : Value(z, "requests_status", n) = SumNamed(g.status, n, "requests")
        /\ \A n : Value(z, "requests_country", n) = SumNamed(g.country, n, "requests")
        /\ \A n : Value(z, "threats_country", n) = SumNamed(g.country, n, "threats")
        /\ \A n : Value(z, "browser_page_views", n) = SumNamed(g.browser, n, "views")
    BY <2>3, ZoneValues
  <2>9. SumsBuckets(z, k)
    BY <2>4, <2>6, <2>7, <2>8 DEF SumsBuckets
  <2> QED  BY <2>2, <2>9
<1> QED  BY <1>1, HttpInvariance, PTL

\* The ratios are fractions of the requests and are there exactly when there were
\* any; the status series sent partition the requests (emitZoneMetrics).
THEOREM RatiosAreSound == Spec => []RatiosSound
<1>1. HttpInv => RatiosSound
  <2> SUFFICES ASSUME HttpInv, pc = "done", NEW z \in Zones \cap InScope, Whole, held[z] # << >>
      PROVE
          LET requests == Value(z, "requests", "") IN
            /\ Sent(z, "error_ratio", "edge") <=> requests > 0
            /\ Sent(z, "cache_hit_ratio", "") <=> requests > 0
            /\ requests > 0 =>
                  LET ratio == Value(z, "error_ratio", "edge")
                      hits  == Value(z, "cache_hit_ratio", "")
                  IN  /\ ratio[1] \in 0..ratio[2] /\ hits[1] \in 0..hits[2]
                      /\ ratio[2] = requests
            /\ SumSent(z, "requests_status") = requests
    BY DEF RatiosSound
  <2>1. Published(sent, z, held[z], Answered(z))
    BY AtTheEnd
  <2>2. PICK g : /\ Sound(g) /\ SeriesOf(sent, z) = SeriesFor(z, g)
                 /\ SumTo(StatusPart(sent, z), Len(sent)) = g.requests
    BY <2>1 DEF Published
  <2>3. SumSent(z, "requests_status") = g.requests
    BY <2>2 DEF SumSent, StatusPart
  <2>4. EdgeErrors(g) \in 0..g.requests /\ g.cached \in 0..g.requests
    BY <2>2, EdgeErrorsBound DEF Sound
  <2>5. /\ Value(z, "requests", "") = g.requests
        /\ g.requests > 0 =>
               /\ Sent(z, "error_ratio", "edge") /\ Sent(z, "cache_hit_ratio", "")
               /\ Value(z, "error_ratio", "edge") = <<EdgeErrors(g), g.requests>>
               /\ Value(z, "cache_hit_ratio", "") = <<g.cached, g.requests>>
        /\ ~(g.requests > 0) => ~Sent(z, "error_ratio", "edge") /\ ~Sent(z, "cache_hit_ratio", "")
    BY <2>2, ZoneValues
  <2>6. g.requests \in Nat
    BY <2>2 DEF Sound
  <2>7. CASE g.requests > 0
    <3> DEFINE ratio == Value(z, "error_ratio", "edge")
               hits  == Value(z, "cache_hit_ratio", "")
               errors == EdgeErrors(g)
    <3>1. ratio = <<errors, g.requests>> /\ hits = <<g.cached, g.requests>>
      BY <2>5, <2>7
    <3> HIDE DEF ratio, hits
    <3>2. ratio[1] \in 0..ratio[2] /\ hits[1] \in 0..hits[2] /\ ratio[2] = g.requests
      <4>1. errors \in 0..g.requests /\ g.cached \in 0..g.requests
        BY <2>4
      <4> HIDE DEF errors
      <4>2. ratio[1] = errors /\ ratio[2] = g.requests /\ hits[1] = g.cached /\ hits[2] = g.requests
        BY <3>1
      <4> QED  BY <4>1, <4>2
    <3> QED  BY <2>3, <2>5, <2>7, <3>2 DEF ratio, hits
  <2>8. CASE ~(g.requests > 0)
    BY <2>3, <2>5, <2>8
  <2> QED  BY <2>7, <2>8
<1> QED  BY <1>1, HttpInvariance, PTL
=============================================================================
