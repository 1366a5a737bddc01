------------------------ MODULE AdaptiveMetricsProofs ------------------------
(***************************************************************************)
(* Theorems about AdaptiveMetrics: what the maps of an emit function hold  *)
(* after any number of rows, and what therefore the gauges say about the   *)
(* groups the service holds.                                               *)
(***************************************************************************)
EXTENDS AdaptiveMetrics, SumTheorems

-----------------------------------------------------------------------------
(* The inductive invariant *)

\* The rows that count towards each map.
Scoped           == {i \in DOMAIN answer : answer[i].group.zone \in InScope}
TotalRows        == {i \in Scoped : dataset # "errors"}
CountedRows      == {i \in Scoped : dataset # "dns"}
LowRows          == {i \in Scoped : dataset = "errors" /\ answer[i].low}
FailedRows       == {i \in Scoped : dataset = "errors" /\ answer[i].group.edge >= 400}
OriginRows       == {i \in Scoped : dataset = "errors" /\ answer[i].group.origin > 0}
OriginFailedRows == {i \in Scoped : dataset = "errors" /\ answer[i].group.origin >= 400}

\* Under which key, and with which value.
ZoneOf     == [i \in DOMAIN answer |-> answer[i].group.zone]
LabelOf(d) == [i \in DOMAIN answer |-> <<answer[i].group.zone, answer[i].group.labels[d]>>]
EdgeOf     == [i \in DOMAIN answer |-> <<answer[i].group.zone, answer[i].group.edge>>]
One        == [i \in DOMAIN answer |-> 1]
CountOf    == [i \in DOMAIN answer |-> answer[i].count]
Duration   == [i \in DOMAIN answer |-> answer[i].group.ms * answer[i].count]

\* The map that rows 1 to n at positions P make, row i adding v[i] at key[i].
Gathered(P, key, v, n) ==
  [k \in {key[i] : i \in P \cap (1..n)} |->
     SumTo([i \in 1..n |-> IF i \in P /\ key[i] = k THEN v[i] ELSE 0], n)]

\* The breakdowns there are once a row in scope has been seen.
Dimensions(n) == UNION {DOMAIN answer[i].group.labels : i \in Scoped \cap (1..n)}

\* The maps after n rows.
Summed(n) ==
  [totals |-> Gathered(TotalRows, ZoneOf, CountOf, n),
   rowCount |-> Gathered(CountedRows, ZoneOf, One, n),
   by |-> [d \in Dimensions(n) |-> Gathered(Scoped, LabelOf(d), CountOf, n)],
   lowConfidenceRows |-> Gathered(LowRows, ZoneOf, One, n),
   customerErrors |-> Gathered(FailedRows, EdgeOf, CountOf, n),
   originTotal |-> Gathered(OriginRows, ZoneOf, CountOf, n),
   originErrors |-> Gathered(OriginFailedRows, ZoneOf, CountOf, n),
   durationWeightedSum |-> Gathered(OriginRows, ZoneOf, Duration, n),
   durationWeightedCount |-> Gathered(OriginRows, ZoneOf, CountOf, n)]

\* The service holds finitely many groups of the dataset.
HeldInv ==
  /\ dataset \in Datasets /\ held \subseteq Groups[dataset]
  /\ IsFiniteSet(held) /\ Cardinality(held) <= MaxGroups

\* The rows are an answer of the service, decoded.
AnswerInv ==
  /\ pc \in {"fetch", "sum", "sent"}
  /\ pc = "fetch" => answer = << >> /\ next = 1
  /\ pc # "fetch" =>
        \E groups \in Answers(dataset, held) : \E order \in SetToSeqs(groups) :
           answer = [i \in DOMAIN order |-> Decode(dataset, order[i])]

\* The rows before the next one have been summed, and no other.
SumInv ==
  /\ next \in 1..(Len(answer) + 1)
  /\ sums = Summed(next - 1)
  /\ unmatched = IF dataset = "dns" THEN {answer[i] : i \in (1..(next - 1)) \ Scoped} ELSE {}

\* The gauges are sent from the maps once all rows have been summed.
SentInv ==
  pc = "sent" => next = Len(answer) + 1 /\ sent = Gauges(dataset, sums, Len(answer))

AInv == HeldInv /\ AnswerInv /\ SumInv /\ SentInv


-----------------------------------------------------------------------------
(* Maps gathered row by row *)

Keys(P, key, n) == {key[i] : i \in P \cap (1..n)}
Part(P, key, v, k, n) == [i \in 1..n |-> IF i \in P /\ key[i] = k THEN v[i] ELSE 0]

LEMMA GatheredIs ==
  ASSUME NEW P, NEW key, NEW v, NEW n
  PROVE  Gathered(P, key, v, n) = [k \in Keys(P, key, n) |-> SumTo(Part(P, key, v, k, n), n)]
BY DEF Gathered, Keys, Part

\* No rows, no keys.
LEMMA GatherNone ==
  ASSUME NEW P, NEW key, NEW v, NEW n, P \cap (1..n) = {}
  PROVE  Gathered(P, key, v, n) = EmptyMap
<1>1. Keys(P, key, n) = {}
  BY DEF Keys
<1> QED  BY <1>1, GatheredIs DEF EmptyMap

\* One more row adds its value at its key, or changes nothing.
LEMMA GatherStep ==
  ASSUME NEW n \in Nat \ {0}, NEW P, NEW key, NEW v,
         \A i \in P \cap (1..n) : v[i] \in Int
  PROVE  Gathered(P, key, v, n) =
           IF n \in P THEN Bump(Gathered(P, key, v, n - 1), key[n], v[n])
                      ELSE Gathered(P, key, v, n - 1)
<1> DEFINE K(m) == Keys(P, key, m)
           total(k, m) == SumTo(Part(P, key, v, k, m), m)
           G(m) == Gathered(P, key, v, m)
<1>1. ASSUME NEW k
      PROVE  /\ total(k, n - 1) \in Int
             /\ total(k, n) = total(k, n - 1) + (IF n \in P /\ key[n] = k THEN v[n] ELSE 0)
  <2> DEFINE f == Part(P, key, v, k, n)
             g == Part(P, key, v, k, n - 1)
  <2>1. \A i \in 1..n : f[i] \in Int
    BY DEF Part
  <2>2. \A i \in 1..(n - 1) : f[i] \in Int /\ g[i] = f[i]
    BY <2>1 DEF Part
  <2>3. f[n] = IF n \in P /\ key[n] = k THEN v[n] ELSE 0
    BY DEF Part
  <2> HIDE DEF f, g
  <2>4. SumTo(g, n - 1) = SumTo(f, n - 1)
    BY <2>2, SumSame
  <2>5. SumTo(f, n - 1) \in Int /\ SumTo(f, n) = SumTo(f, n - 1) + f[n]
    BY <2>1, SumSteps
  <2> QED  BY <2>3, <2>4, <2>5 DEF f, g
<1>2. ASSUME NEW k, k \notin K(n - 1)  PROVE total(k, n - 1) = 0
  <2> DEFINE g == Part(P, key, v, k, n - 1)
  <2>1. \A i \in 1..(n - 1) : g[i] = 0
    BY <1>2 DEF Part, Keys
  <2> HIDE DEF g
  <2>2. SumTo(g, n - 1) = 0
    BY <2>1, SumZero
  <2> QED  BY <2>2 DEF g
<1>3. /\ G(n) = [k \in K(n) |-> total(k, n)]
      /\ G(n - 1) = [k \in K(n - 1) |-> total(k, n - 1)]
  BY GatheredIs
<1> HIDE DEF total, G
<1>4. CASE n \in P
  <2>1. K(n) = K(n - 1) \cup {key[n]}
    <3>1. \A i : i \in P \cap (1..n) <=> i \in P \cap (1..(n - 1)) \/ i = n
      BY <1>4
    <3> QED  BY <3>1 DEF Keys
  <2> DEFINE B == Bump(G(n - 1), key[n], v[n])
  <2> HIDE DEF K
  <2>2. DOMAIN G(n - 1) = K(n - 1) /\ DOMAIN G(n) = K(n)
    BY <1>3
  <2>3. B = [x \in K(n) |-> (IF x \in K(n - 1) THEN G(n - 1)[x] ELSE 0)
                             + (IF x = key[n] THEN v[n] ELSE 0)]
    BY <2>1, <2>2 DEF Bump
  <2>4. ASSUME NEW x \in K(n)
        PROVE  total(x, n) = (IF x \in K(n - 1) THEN G(n - 1)[x] ELSE 0)
                             + (IF x = key[n] THEN v[n] ELSE 0)
    <3>1. (IF x \in K(n - 1) THEN G(n - 1)[x] ELSE 0) = total(x, n - 1)
      BY <1>2, <1>3
    <3>2. (IF n \in P /\ key[n] = x THEN v[n] ELSE 0) = (IF x = key[n] THEN v[n] ELSE 0)
      BY <1>4
    <3> QED  BY <1>1, <3>1, <3>2
  <2>5. G(n) = B
    BY <1>3, <2>3, <2>4
  <2> QED  BY <1>4, <2>5 DEF G
<1>5. CASE n \notin P
  <2>1. K(n) = K(n - 1)
    <3>1. \A i : i \in P \cap (1..n) <=> i \in P \cap (1..(n - 1))
      BY <1>5
    <3> QED  BY <3>1 DEF Keys
  <2>2. \A k : total(k, n) = total(k, n - 1)
    BY <1>1, <1>5
  <2> HIDE DEF K
  <2>3. G(n) = G(n - 1)
    BY <1>3, <2>1, <2>2
  <2> QED  BY <1>5, <2>3 DEF G
<1> QED  BY <1>4, <1>5

\* The sum of a map over the keys in Q, and of the rows that have them.
Within(m, Q) == SumOver(m, {k \in DOMAIN m : k \in Q})
RowSum(P, key, v, Q, n) ==
  SumTo([i \in 1..n |-> IF i \in P /\ key[i] \in Q THEN v[i] ELSE 0], n)

LEMMA GatherTotal ==
  ASSUME NEW n \in Nat, NEW P, NEW key, NEW v, NEW Q,
         \A i \in P \cap (1..n) : v[i] \in Int
  PROVE  LET m == Gathered(P, key, v, n)
         IN  DOMAIN m = Keys(P, key, n) /\ Within(m, Q) = RowSum(P, key, v, Q, n)
<1> DEFINE m == Gathered(P, key, v, n)
           K == Keys(P, key, n)
           S == {k \in K : k \in Q}
           f == [i \in 1..n |-> IF i \in P /\ key[i] \in Q THEN v[i] ELSE 0]
<1>1. m = [k \in K |-> SumTo(Part(P, key, v, k, n), n)]
  BY GatheredIs
<1>2. DOMAIN m = K
  BY <1>1
<1>3. IsFiniteSet(S)
  <2>1. IsFiniteSet(1..n)
    BY FS_Interval
  <2>2. IsFiniteSet(P \cap (1..n))
    BY <2>1, FS_Subset
  <2> DEFINE A == P \cap (1..n)
             g == [i \in A |-> key[i]]
  <2>3. g \in Surjection(A, K)
    BY DEF Surjection, Keys
  <2> HIDE DEF A, g, K
  <2>4. IsFiniteSet(K)
    BY <2>2, <2>3, FS_Surjection DEF A
  <2> QED  BY <2>4, FS_Subset
<1>4. \A i \in 1..n : f[i] \in Int /\ (f[i] = 0 \/ key[i] \in S)
  BY DEF Keys
<1>5. ASSUME NEW x \in S
      PROVE  m[x] = SumTo([i \in 1..n |-> IF key[i] = x THEN f[i] ELSE 0], n)
  <2>1. m[x] = SumTo(Part(P, key, v, x, n), n) /\ x \in Q
    BY <1>1
  <2>2. Part(P, key, v, x, n) = [i \in 1..n |-> IF key[i] = x THEN f[i] ELSE 0]
    <3>1. \A i \in 1..n : (IF i \in P /\ key[i] = x THEN v[i] ELSE 0)
                           = IF key[i] = x THEN f[i] ELSE 0
      BY <2>1
    <3> QED  BY <3>1 DEF Part
  <2> QED  BY <2>1, <2>2
<1>6. ByKey(m, S, f, key, n)
  <2> HIDE DEF m, S, f
  <2> QED  BY <1>3, <1>4, <1>5 DEF ByKey
<1>7. SumOver(m, S) = SumTo(f, n)
  <2> HIDE DEF m, S, f
  <2> QED  BY <1>6, SumOverKeys
<1> QED  BY <1>2, <1>7 DEF Within, RowSum

-----------------------------------------------------------------------------
(* The rows of an answer *)

\* A decoded row is that of a group, and its numbers are natural.
Decoded(r) ==
    /\ r.group \in Groups[dataset] /\ r = Decode(dataset, r.group)
    /\ r.count \in Nat \ {0} /\ r.low \in BOOLEAN

LEMMA DecodeRow ==
  ASSUME dataset \in Datasets, NEW g \in Groups[dataset]
  PROVE  LET r == Decode(dataset, g) IN r.group = g /\ Decoded(r)
<1> DEFINE r == Decode(dataset, g)
<1>1. g.count \in Nat \ {0} /\ g.interval \in Nat
  BY InputAssumption
<1>2. r = [group |-> g, low |-> r.low, count |-> r.count] /\ r.group = g
  BY DEF Decode
<1>3. r.low \in BOOLEAN
  BY DEF Decode, LowConfidence
<1>4. r.count = EstimatedCount(g.count, IF r.low THEN 1 ELSE g.interval)
  BY DEF Decode
<1>5. r.count \in Nat \ {0}
  <2>1. ASSUME NEW a \in Nat \ {0}, NEW b \in Nat, b > 0  PROVE a * b \in Nat \ {0}
    BY <2>1, SMT
  <2> DEFINE b == IF r.low THEN 1 ELSE g.interval
  <2>2. b \in Nat
    BY <1>1, <1>3
  <2> HIDE DEF r, b
  <2>3. r.count = IF b <= 0 THEN g.count ELSE g.count * b
    BY <1>4 DEF EstimatedCount, b
  <2> QED  BY <1>1, <2>1, <2>2, <2>3
<1> QED  BY <1>2, <1>3, <1>5 DEF Decoded

\* The answer is a sequence of the rows of different groups held.
Rowed ==
    /\ Len(answer) \in Nat /\ DOMAIN answer = 1..Len(answer)
    /\ \A i \in 1..Len(answer) : answer[i].group \in held /\ Decoded(answer[i])
    /\ \A i, j \in 1..Len(answer) : answer[i].group = answer[j].group => i = j

\* A sequence of rows of the groups of an answer.
LEMMA OrderedRows ==
  ASSUME HeldInv, NEW groups \in Answers(dataset, held), NEW order \in SetToSeqs(groups)
  PROVE  LET rows == [i \in DOMAIN order |-> Decode(dataset, order[i])]
         IN  /\ Len(rows) = Cardinality(groups) /\ DOMAIN rows = 1..Cardinality(groups)
             /\ Cardinality(groups) \in Nat /\ Cardinality(groups) <= MaxGroups
             /\ groups \subseteq held /\ IsFiniteSet(groups)
             /\ \A i \in DOMAIN rows : rows[i].group = order[i] /\ Decoded(rows[i])
             /\ \A i \in DOMAIN rows : order[i] \in groups
             /\ \A i, j \in DOMAIN rows : order[i] = order[j] => i = j
             /\ groups = {order[i] : i \in DOMAIN rows}
<1> DEFINE c == Cardinality(groups)
           rows == [i \in DOMAIN order |-> Decode(dataset, order[i])]
<1>1. groups \subseteq held
  BY DEF Answers, CutAt
<1>2. IsFiniteSet(groups) /\ c <= Cardinality(held) /\ c \in Nat /\ Cardinality(held) \in Nat
  BY <1>1, FS_Subset, FS_CardinalityType DEF HeldInv
<1>3. c <= MaxGroups
  BY <1>2, InputAssumption DEF HeldInv
<1>4. order \in [1..c -> groups] /\ \A i, j \in 1..c : i # j => order[i] # order[j]
  BY DEF SetToSeqs
<1>5. groups = {order[i] : i \in 1..c}
  <2>1. order \in Injection(1..c, groups)
    BY <1>4 DEF Injection, IsInjective
  <2>2. IsFiniteSet(1..c) /\ Cardinality(1..c) = c
    BY <1>2, FS_Interval
  <2>3. order \in Surjection(1..c, groups)
    BY <1>2, <2>1, <2>2, FS_Injection
  <2> HIDE DEF c
  <2> QED  BY <2>3 DEF Surjection
<1> HIDE DEF c
<1>6. DOMAIN rows = 1..c /\ \A i \in 1..c : rows[i] = Decode(dataset, order[i])
  BY <1>4
<1>7. Len(rows) = c
  <2> HIDE DEF rows
  <2>1. rows = [i \in 1..c |-> rows[i]]
    BY <1>6 DEF rows
  <2> QED  BY <1>2, <2>1, SMT
<1>8. ASSUME NEW i \in 1..c  PROVE rows[i].group = order[i] /\ Decoded(rows[i])
  <2>1. order[i] \in Groups[dataset]
    BY <1>1, <1>4 DEF HeldInv
  <2> QED  BY <1>6, <2>1, DecodeRow DEF HeldInv
<1> HIDE DEF rows
<1>9. /\ Len(rows) = c /\ DOMAIN rows = 1..c /\ c \in Nat /\ c <= MaxGroups
      /\ groups \subseteq held /\ IsFiniteSet(groups)
      /\ \A i \in DOMAIN rows : rows[i].group = order[i] /\ Decoded(rows[i])
      /\ \A i \in DOMAIN rows : order[i] \in groups
      /\ \A i, j \in DOMAIN rows : order[i] = order[j] => i = j
      /\ groups = {order[i] : i \in DOMAIN rows}
  BY <1>1, <1>2, <1>3, <1>4, <1>5, <1>6, <1>7, <1>8
<1> QED  BY <1>9 DEF rows, c

LEMMA AnswerRowed ==
  ASSUME HeldInv, AnswerInv
  PROVE  Rowed /\ Len(answer) <= MaxGroups
<1>1. CASE pc = "fetch"
  <2>1. answer = << >>
    BY <1>1 DEF AnswerInv
  <2> QED  BY <2>1, InputAssumption DEF Rowed
<1>2. CASE pc # "fetch"
  <2>1. PICK groups \in Answers(dataset, held) : \E order \in SetToSeqs(groups) :
           answer = [i \in DOMAIN order |-> Decode(dataset, order[i])]
    BY <1>2 DEF AnswerInv
  <2>2. PICK order \in SetToSeqs(groups) :
           answer = [i \in DOMAIN order |-> Decode(dataset, order[i])]
    BY <2>1
  <2>3. /\ Len(answer) = Cardinality(groups) /\ DOMAIN answer = 1..Cardinality(groups)
        /\ Cardinality(groups) \in Nat /\ Cardinality(groups) <= MaxGroups
        /\ groups \subseteq held
        /\ \A i \in DOMAIN answer : answer[i].group = order[i] /\ Decoded(answer[i])
        /\ \A i \in DOMAIN answer : order[i] \in groups
        /\ \A i, j \in DOMAIN answer : order[i] = order[j] => i = j
    BY <2>2, OrderedRows
  <2> QED  BY <2>3 DEF Rowed
<1> QED  BY <1>1, <1>2

-----------------------------------------------------------------------------
(* One row *)

MapNames == {"totals", "rowCount", "by", "lowConfidenceRows", "customerErrors", "originTotal",
             "originErrors", "durationWeightedSum", "durationWeightedCount"}
IsMaps(s) == s = [m \in MapNames |-> s[m]]

LEMMA SameMaps ==
  ASSUME NEW s, NEW u, IsMaps(s), IsMaps(u),
         s.totals = u.totals, s.rowCount = u.rowCount, s.by = u.by,
         s.lowConfidenceRows = u.lowConfidenceRows, s.customerErrors = u.customerErrors,
         s.originTotal = u.originTotal, s.originErrors = u.originErrors,
         s.durationWeightedSum = u.durationWeightedSum,
         s.durationWeightedCount = u.durationWeightedCount
  PROVE  s = u
<1>1. \A m \in MapNames : s[m] = u[m]
  BY DEF MapNames
<1> QED  BY <1>1 DEF IsMaps

LEMMA SummedIsMaps ==
  ASSUME NEW n
  PROVE  IsMaps(Summed(n))
BY DEF IsMaps, MapNames, Summed

\* What a row does to each map, by dataset.
LEMMA AddOriginIs ==
  ASSUME NEW s, NEW r, IsMaps(s), r.group.origin \in Nat
  PROVE  LET z == r.group.zone
             u == AddOrigin(s, r)
         IN  /\ IsMaps(u)
             /\ u.totals = s.totals /\ u.rowCount = s.rowCount /\ u.by = s.by
             /\ u.lowConfidenceRows = s.lowConfidenceRows
             /\ u.customerErrors = s.customerErrors
             /\ u.originTotal = IF r.group.origin > 0 THEN Bump(s.originTotal, z, r.count)
                                ELSE s.originTotal
             /\ u.originErrors = IF r.group.origin >= 400 THEN Bump(s.originErrors, z, r.count)
                                 ELSE s.originErrors
             /\ u.durationWeightedSum =
                  IF r.group.origin > 0 THEN Bump(s.durationWeightedSum, z, r.group.ms * r.count)
                  ELSE s.durationWeightedSum
             /\ u.durationWeightedCount =
                  IF r.group.origin > 0 THEN Bump(s.durationWeightedCount, z, r.count)
                  ELSE s.durationWeightedCount
<1>1. CASE r.group.origin > 0
  <2> DEFINE z == r.group.zone
             u == [s EXCEPT
                    !.originTotal = Bump(@, r.group.zone, r.count),
                    !.originErrors = IF r.group.origin >= 400
                                     THEN Bump(@, r.group.zone, r.count) ELSE @,
                    !.durationWeightedSum = Bump(@, r.group.zone, r.group.ms * r.count),
                    !.durationWeightedCount = Bump(@, r.group.zone, r.count)]
  <2>1. AddOrigin(s, r) = u
    BY <1>1 DEF AddOrigin
  <2>2. DOMAIN s = MapNames
    BY DEF IsMaps
  <2>3. IsMaps(u)
    BY <2>2 DEF IsMaps
  <2>4. /\ u.totals = s.totals /\ u.rowCount = s.rowCount /\ u.by = s.by
        /\ u.lowConfidenceRows = s.lowConfidenceRows
        /\ u.customerErrors = s.customerErrors
    BY <2>2 DEF MapNames
  <2>5. u.originTotal = Bump(s.originTotal, z, r.count)
    BY <2>2 DEF MapNames
  <2>6. u.originErrors = IF r.group.origin >= 400 THEN Bump(s.originErrors, z, r.count)
                         ELSE s.originErrors
    BY <2>2 DEF MapNames
  <2>7. u.durationWeightedSum = Bump(s.durationWeightedSum, z, r.group.ms * r.count)
    BY <2>2 DEF MapNames
  <2>8. u.durationWeightedCount = Bump(s.durationWeightedCount, z, r.count)
    BY <2>2 DEF MapNames
  <2> HIDE DEF u
  <2> QED  BY <1>1, <2>1, <2>3, <2>4, <2>5, <2>6, <2>7, <2>8
<1>2. CASE ~ r.group.origin > 0
  BY <1>2 DEF AddOrigin
<1> QED  BY <1>1, <1>2

LEMMA ErrorRow ==
  ASSUME NEW s, NEW r, IsMaps(s), r.group.origin \in Nat
  PROVE  LET z == r.group.zone
             u == AddErrorRow(s, r)
         IN  /\ IsMaps(u)
             /\ u.totals = s.totals /\ u.rowCount = Bump(s.rowCount, z, 1)
             /\ u.by = AddBreakdowns(s.by, r)
             /\ u.lowConfidenceRows = IF r.low THEN Bump(s.lowConfidenceRows, z, 1)
                                      ELSE s.lowConfidenceRows
             /\ u.customerErrors =
                  IF r.group.edge >= 400 THEN Bump(s.customerErrors, <<z, r.group.edge>>, r.count)
                  ELSE s.customerErrors
             /\ u.originTotal = IF r.group.origin > 0 THEN Bump(s.originTotal, z, r.count)
                                ELSE s.originTotal
             /\ u.originErrors = IF r.group.origin >= 400 THEN Bump(s.originErrors, z, r.count)
                                 ELSE s.originErrors
             /\ u.durationWeightedSum =
                  IF r.group.origin > 0 THEN Bump(s.durationWeightedSum, z, r.group.ms * r.count)
                  ELSE s.durationWeightedSum
             /\ u.durationWeightedCount =
                  IF r.group.origin > 0 THEN Bump(s.durationWeightedCount, z, r.count)
                  ELSE s.durationWeightedCount
<1> DEFINE z == r.group.zone
           u == [s EXCEPT
                   !.rowCount = Bump(@, r.group.zone, 1),
                   !.by = AddBreakdowns(@, r),
                   !.lowConfidenceRows = IF r.low THEN Bump(@, r.group.zone, 1) ELSE @,
                   !.customerErrors = IF r.group.edge >= 400
                                      THEN Bump(@, <<r.group.zone, r.group.edge>>, r.count)
                                      ELSE @]
<1>1. AddErrorRow(s, r) = AddOrigin(u, r)
  BY DEF AddErrorRow
<1>2. DOMAIN s = MapNames
  BY DEF IsMaps
<1>3. IsMaps(u)
  BY <1>2 DEF IsMaps
<1>4. /\ u.totals = s.totals /\ u.originTotal = s.originTotal
      /\ u.originErrors = s.originErrors
      /\ u.durationWeightedSum = s.durationWeightedSum
      /\ u.durationWeightedCount = s.durationWeightedCount
  BY <1>2 DEF MapNames
<1>5. u.rowCount = Bump(s.rowCount, z, 1)
  BY <1>2 DEF MapNames
<1>6. u.by = AddBreakdowns(s.by, r)
  BY <1>2 DEF MapNames
<1>7. u.lowConfidenceRows = IF r.low THEN Bump(s.lowConfidenceRows, z, 1)
                            ELSE s.lowConfidenceRows
  BY <1>2 DEF MapNames
<1>8. u.customerErrors =
        IF r.group.edge >= 400 THEN Bump(s.customerErrors, <<z, r.group.edge>>, r.count)
        ELSE s.customerErrors
  BY <1>2 DEF MapNames
<1> HIDE DEF u
<1> DEFINE w == AddOrigin(u, r)
<1>9. /\ IsMaps(w)
      /\ w.totals = u.totals /\ w.rowCount = u.rowCount /\ w.by = u.by
      /\ w.lowConfidenceRows = u.lowConfidenceRows
      /\ w.customerErrors = u.customerErrors
      /\ w.originTotal = IF r.group.origin > 0 THEN Bump(u.originTotal, z, r.count)
                         ELSE u.originTotal
      /\ w.originErrors = IF r.group.origin >= 400 THEN Bump(u.originErrors, z, r.count)
                          ELSE u.originErrors
      /\ w.durationWeightedSum =
           IF r.group.origin > 0 THEN Bump(u.durationWeightedSum, z, r.group.ms * r.count)
           ELSE u.durationWeightedSum
      /\ w.durationWeightedCount =
           IF r.group.origin > 0 THEN Bump(u.durationWeightedCount, z, r.count)
           ELSE u.durationWeightedCount
  BY <1>3, AddOriginIs
<1> HIDE DEF w
<1>10. AddErrorRow(s, r) = w
  BY <1>1 DEF w
<1> QED  BY <1>4, <1>5, <1>6, <1>7, <1>8, <1>9, <1>10

LEMMA WafRow ==
  ASSUME NEW s, NEW r, IsMaps(s)
  PROVE  LET z == r.group.zone
             u == AddWafRow(s, r)
         IN  /\ IsMaps(u)
             /\ u.totals = Bump(s.totals, z, r.count) /\ u.rowCount = Bump(s.rowCount, z, 1)
             /\ u.by = AddBreakdowns(s.by, r)
             /\ u.lowConfidenceRows = s.lowConfidenceRows
             /\ u.customerErrors = s.customerErrors
             /\ u.originTotal = s.originTotal /\ u.originErrors = s.originErrors
             /\ u.durationWeightedSum = s.durationWeightedSum
             /\ u.durationWeightedCount = s.durationWeightedCount
<1>1. DOMAIN s = MapNames
  BY DEF IsMaps
<1> QED  BY <1>1 DEF IsMaps, MapNames, AddWafRow

LEMMA DnsRow ==
  ASSUME NEW s, NEW r, IsMaps(s)
  PROVE  LET z == r.group.zone
             u == AddDnsRow(s, r)
         IN  /\ IsMaps(u)
             /\ u.totals = Bump(s.totals, z, r.count) /\ u.rowCount = s.rowCount
             /\ u.by = AddBreakdowns(s.by, r)
             /\ u.lowConfidenceRows = s.lowConfidenceRows
             /\ u.customerErrors = s.customerErrors
             /\ u.originTotal = s.originTotal /\ u.originErrors = s.originErrors
             /\ u.durationWeightedSum = s.durationWeightedSum
             /\ u.durationWeightedCount = s.durationWeightedCount
<1>1. DOMAIN s = MapNames
  BY DEF IsMaps
<1> QED  BY <1>1 DEF IsMaps, MapNames, AddDnsRow

\* The counts and products that are summed are natural numbers.
LEMMA RowNumbers ==
  ASSUME HeldInv, Rowed, NEW i \in 1..Len(answer)
  PROVE  /\ CountOf[i] = answer[i].count /\ CountOf[i] \in Nat /\ CountOf[i] > 0
         /\ One[i] = 1 /\ ZoneOf[i] = answer[i].group.zone
         /\ EdgeOf[i] = <<answer[i].group.zone, answer[i].group.edge>>
         /\ \A d : LabelOf(d)[i] = <<answer[i].group.zone, answer[i].group.labels[d]>>
         /\ dataset = "errors" => /\ answer[i].group.edge \in Nat
                                  /\ answer[i].group.origin \in Nat
                                  /\ answer[i].group.ms \in Nat
                                  /\ Duration[i] = answer[i].group.ms * answer[i].count
                                  /\ Duration[i] \in Nat
<1>1. DOMAIN answer = 1..Len(answer) /\ Decoded(answer[i])
  BY DEF Rowed
<1>2. answer[i].count \in Nat /\ answer[i].count > 0 /\ answer[i].group \in Groups[dataset]
  BY <1>1 DEF Decoded
<1>3. dataset = "errors" => /\ answer[i].group.edge \in Nat /\ answer[i].group.origin \in Nat
                            /\ answer[i].group.ms \in Nat
  BY <1>2, InputAssumption DEF HeldInv
<1>4. \A a, b \in Nat : a * b \in Nat
  OBVIOUS
<1>5. dataset = "errors" => answer[i].group.ms * answer[i].count \in Nat
  BY <1>2, <1>3, <1>4
<1> QED  BY <1>1, <1>2, <1>3, <1>5 DEF CountOf, One, ZoneOf, EdgeOf, LabelOf, Duration

\* A row in scope counts towards its key in every breakdown.
LEMMA BreakdownStep ==
  ASSUME HeldInv, Rowed, NEW n \in 1..Len(answer), n \in Scoped
  PROVE  Summed(n).by = AddBreakdowns(Summed(n - 1).by, answer[n])
<1> DEFINE L == DOMAIN answer[n].group.labels
           G(d, m) == Gathered(Scoped, LabelOf(d), CountOf, m)
           old == Summed(n - 1).by
<1>1. /\ DOMAIN answer = 1..Len(answer) /\ Len(answer) \in Nat
      /\ \A i \in 1..Len(answer) : Decoded(answer[i])
  BY DEF Rowed
<1>2. \A i \in 1..Len(answer) : DOMAIN answer[i].group.labels = L
  <2>1. \A i \in 1..Len(answer) : answer[i].group \in Groups[dataset]
    BY <1>1 DEF Decoded
  <2>2. \A g, h \in Groups[dataset] : DOMAIN g.labels = DOMAIN h.labels
    BY InputAssumption DEF HeldInv
  <2> QED  BY <2>1, <2>2
<1>3. Dimensions(n) = L
  BY <1>1, <1>2 DEF Dimensions
<1>4. \A d \in Dimensions(n - 1) : d \in L
  BY <1>1, <1>2 DEF Dimensions
<1>5. \A d \in L : d \notin Dimensions(n - 1) => Scoped \cap (1..(n - 1)) = {}
  BY <1>1, <1>2 DEF Dimensions
<1>6. old = [d \in Dimensions(n - 1) |-> G(d, n - 1)] /\ Summed(n).by = [d \in L |-> G(d, n)]
  BY <1>3 DEF Summed
<1>7. ASSUME NEW d \in L
      PROVE  G(d, n) = Bump(IF d \in DOMAIN old THEN old[d] ELSE EmptyMap,
                            <<answer[n].group.zone, answer[n].group.labels[d]>>, answer[n].count)
  <2>1. /\ LabelOf(d)[n] = <<answer[n].group.zone, answer[n].group.labels[d]>>
        /\ CountOf[n] = answer[n].count
    BY RowNumbers
  <2>2. \A i \in Scoped \cap (1..n) : CountOf[i] \in Int
    <3>1. \A i \in 1..n : i \in 1..Len(answer)
      BY <1>1
    <3> QED  BY <3>1, RowNumbers
  <2>3. G(d, n) = Bump(G(d, n - 1), LabelOf(d)[n], CountOf[n])
    BY <1>1, <2>2, GatherStep
  <2>4. G(d, n - 1) = IF d \in DOMAIN old THEN old[d] ELSE EmptyMap
    <3> HIDE DEF G, old, L
    <3>1. DOMAIN old = Dimensions(n - 1)
      BY <1>6
    <3>2. CASE d \in DOMAIN old
      BY <1>6, <3>1, <3>2
    <3>3. CASE d \notin DOMAIN old
      <4>1. Scoped \cap (1..(n - 1)) = {}
        BY <1>5, <3>1, <3>3
      <4>2. G(d, n - 1) = EmptyMap
        BY <4>1, GatherNone DEF G
      <4> QED  BY <3>3, <4>2
    <3> QED  BY <3>2, <3>3
  <2> HIDE DEF G, old, L
  <2> QED  BY <2>1, <2>3, <2>4
<1> HIDE DEF G, old
<1>8. Summed(n).by = [d \in L |->
        Bump(IF d \in DOMAIN old THEN old[d] ELSE EmptyMap,
             <<answer[n].group.zone, answer[n].group.labels[d]>>, answer[n].count)]
  <2> HIDE DEF L
  <2> QED  BY <1>6, <1>7
<1> QED  BY <1>8 DEF AddBreakdowns, old

\* The other maps, one row further.
LEMMA MapsStep ==
  ASSUME HeldInv, Rowed, NEW n \in 1..Len(answer)
  PROVE  LET s == Summed(n - 1)
             u == Summed(n)
             r == answer[n]
             z == r.group.zone
         IN  /\ u.totals = IF n \in TotalRows THEN Bump(s.totals, z, r.count) ELSE s.totals
             /\ u.rowCount = IF n \in CountedRows THEN Bump(s.rowCount, z, 1) ELSE s.rowCount
             /\ u.lowConfidenceRows = IF n \in LowRows THEN Bump(s.lowConfidenceRows, z, 1)
                                      ELSE s.lowConfidenceRows
             /\ u.customerErrors =
                  IF n \in FailedRows THEN Bump(s.customerErrors, <<z, r.group.edge>>, r.count)
                  ELSE s.customerErrors
             /\ u.originTotal = IF n \in OriginRows THEN Bump(s.originTotal, z, r.count)
                                ELSE s.originTotal
             /\ u.originErrors = IF n \in OriginFailedRows THEN Bump(s.originErrors, z, r.count)
                                 ELSE s.originErrors
             /\ u.durationWeightedSum =
                  IF n \in OriginRows THEN Bump(s.durationWeightedSum, z, r.group.ms * r.count)
                  ELSE s.durationWeightedSum
             /\ u.durationWeightedCount =
                  IF n \in OriginRows THEN Bump(s.durationWeightedCount, z, r.count)
                  ELSE s.durationWeightedCount
<1> DEFINE s == Summed(n - 1)
           u == Summed(n)
           r == answer[n]
           z == r.group.zone
<1>1. Len(answer) \in Nat /\ \A i \in 1..n : i \in 1..Len(answer)
  BY DEF Rowed
<1>2. \A i \in 1..n : CountOf[i] \in Int /\ One[i] \in Int
  BY <1>1, RowNumbers
<1>3. \A i \in 1..n : dataset = "errors" => Duration[i] \in Int
  BY <1>1, RowNumbers
<1>4. /\ CountOf[n] = r.count /\ One[n] = 1 /\ ZoneOf[n] = z
      /\ EdgeOf[n] = <<z, r.group.edge>>
      /\ dataset = "errors" => Duration[n] = r.group.ms * r.count
  BY RowNumbers
<1>5. \A i \in OriginRows : dataset = "errors"
  BY DEF OriginRows
<1> HIDE DEF r, z
<1>6. u.totals = IF n \in TotalRows THEN Bump(s.totals, z, r.count) ELSE s.totals
  <2>1. u.totals = Gathered(TotalRows, ZoneOf, CountOf, n)
        /\ s.totals = Gathered(TotalRows, ZoneOf, CountOf, n - 1)
    BY DEF Summed
  <2>2. Gathered(TotalRows, ZoneOf, CountOf, n) =
          IF n \in TotalRows THEN Bump(Gathered(TotalRows, ZoneOf, CountOf, n - 1), ZoneOf[n], CountOf[n])
          ELSE Gathered(TotalRows, ZoneOf, CountOf, n - 1)
    BY <1>1, <1>2, GatherStep
  <2> QED  BY <1>4, <2>1, <2>2
<1>7. u.rowCount = IF n \in CountedRows THEN Bump(s.rowCount, z, 1) ELSE s.rowCount
  <2>1. u.rowCount = Gathered(CountedRows, ZoneOf, One, n)
        /\ s.rowCount = Gathered(CountedRows, ZoneOf, One, n - 1)
    BY DEF Summed
  <2>2. Gathered(CountedRows, ZoneOf, One, n) =
          IF n \in CountedRows THEN Bump(Gathered(CountedRows, ZoneOf, One, n - 1), ZoneOf[n], One[n])
          ELSE Gathered(CountedRows, ZoneOf, One, n - 1)
    BY <1>1, <1>2, GatherStep
  <2> QED  BY <1>4, <2>1, <2>2
<1>8. u.lowConfidenceRows = IF n \in LowRows THEN Bump(s.lowConfidenceRows, z, 1)
                            ELSE s.lowConfidenceRows
  <2>1. u.lowConfidenceRows = Gathered(LowRows, ZoneOf, One, n)
        /\ s.lowConfidenceRows = Gathered(LowRows, ZoneOf, One, n - 1)
    BY DEF Summed
  <2>2. Gathered(LowRows, ZoneOf, One, n) =
          IF n \in LowRows THEN Bump(Gathered(LowRows, ZoneOf, One, n - 1), ZoneOf[n], One[n])
          ELSE Gathered(LowRows, ZoneOf, One, n - 1)
    BY <1>1, <1>2, GatherStep
  <2> QED  BY <1>4, <2>1, <2>2
<1>9. u.customerErrors =
        IF n \in FailedRows THEN Bump(s.customerErrors, <<z, r.group.edge>>, r.count)
        ELSE s.customerErrors
  <2>1. u.customerErrors = Gathered(FailedRows, EdgeOf, CountOf, n)
        /\ s.customerErrors = Gathered(FailedRows, EdgeOf, CountOf, n - 1)
    BY DEF Summed
  <2>2. Gathered(FailedRows, EdgeOf, CountOf, n) =
          IF n \in FailedRows THEN Bump(Gathered(FailedRows, EdgeOf, CountOf, n - 1), EdgeOf[n], CountOf[n])
          ELSE Gathered(FailedRows, EdgeOf, CountOf, n - 1)
    BY <1>1, <1>2, GatherStep
  <2> QED  BY <1>4, <2>1, <2>2
<1>10. u.originTotal = IF n \in OriginRows THEN Bump(s.originTotal, z, r.count)
                       ELSE s.originTotal
  <2>1. u.originTotal = Gathered(OriginRows, ZoneOf, CountOf, n)
        /\ s.originTotal = Gathered(OriginRows, ZoneOf, CountOf, n - 1)
    BY DEF Summed
  <2>2. Gathered(OriginRows, ZoneOf, CountOf, n) =
          IF n \in OriginRows THEN Bump(Gathered(OriginRows, ZoneOf, CountOf, n - 1), ZoneOf[n], CountOf[n])
          ELSE Gathered(OriginRows, ZoneOf, CountOf, n - 1)
    BY <1>1, <1>2, GatherStep
  <2> QED  BY <1>4, <2>1, <2>2
<1>11. u.originErrors = IF n \in OriginFailedRows THEN Bump(s.originErrors, z, r.count)
                        ELSE s.originErrors
  <2>1. u.originErrors = Gathered(OriginFailedRows, ZoneOf, CountOf, n)
        /\ s.originErrors = Gathered(OriginFailedRows, ZoneOf, CountOf, n - 1)
    BY DEF Summed
  <2>2. Gathered(OriginFailedRows, ZoneOf, CountOf, n) =
          IF n \in OriginFailedRows THEN Bump(Gathered(OriginFailedRows, ZoneOf, CountOf, n - 1), ZoneOf[n], CountOf[n])
          ELSE Gathered(OriginFailedRows, ZoneOf, CountOf, n - 1)
    BY <1>1, <1>2, GatherStep
  <2> QED  BY <1>4, <2>1, <2>2
<1>12. u.durationWeightedSum =
         IF n \in OriginRows THEN Bump(s.durationWeightedSum, z, r.group.ms * r.count)
         ELSE s.durationWeightedSum
  <2>1. u.durationWeightedSum = Gathered(OriginRows, ZoneOf, Duration, n)
        /\ s.durationWeightedSum = Gathered(OriginRows, ZoneOf, Duration, n - 1)
    BY DEF Summed
  <2>2. \A i \in OriginRows \cap (1..n) : Duration[i] \in Int
    BY <1>3, <1>5
  <2>3. n \in OriginRows => Duration[n] = r.group.ms * r.count
    BY <1>4, <1>5
  <2> DEFINE w == r.group.ms * r.count
  <2> HIDE DEF w
  <2>4. n \in OriginRows => Duration[n] = w
    BY <2>3 DEF w
  <2>5. u.durationWeightedSum = IF n \in OriginRows THEN Bump(s.durationWeightedSum, z, w)
                                ELSE s.durationWeightedSum
    <3>1. Gathered(OriginRows, ZoneOf, Duration, n) =
            IF n \in OriginRows
            THEN Bump(Gathered(OriginRows, ZoneOf, Duration, n - 1), ZoneOf[n], Duration[n])
            ELSE Gathered(OriginRows, ZoneOf, Duration, n - 1)
      BY <1>1, <2>2, GatherStep
    <3> QED  BY <1>4, <2>1, <2>4, <3>1
  <2> QED  BY <2>5 DEF w
<1>13. u.durationWeightedCount =
         IF n \in OriginRows THEN Bump(s.durationWeightedCount, z, r.count)
         ELSE s.durationWeightedCount
  <2>1. u.durationWeightedCount = Gathered(OriginRows, ZoneOf, CountOf, n)
        /\ s.durationWeightedCount = Gathered(OriginRows, ZoneOf, CountOf, n - 1)
    BY DEF Summed
  <2>2. Gathered(OriginRows, ZoneOf, CountOf, n) =
          IF n \in OriginRows THEN Bump(Gathered(OriginRows, ZoneOf, CountOf, n - 1), ZoneOf[n], CountOf[n])
          ELSE Gathered(OriginRows, ZoneOf, CountOf, n - 1)
    BY <1>1, <1>2, GatherStep
  <2> QED  BY <1>4, <2>1, <2>2
<1> HIDE DEF s, u
<1>14. /\ u.totals = IF n \in TotalRows THEN Bump(s.totals, z, r.count) ELSE s.totals
       /\ u.rowCount = IF n \in CountedRows THEN Bump(s.rowCount, z, 1) ELSE s.rowCount
       /\ u.lowConfidenceRows = IF n \in LowRows THEN Bump(s.lowConfidenceRows, z, 1)
                                ELSE s.lowConfidenceRows
       /\ u.customerErrors =
            IF n \in FailedRows THEN Bump(s.customerErrors, <<z, r.group.edge>>, r.count)
            ELSE s.customerErrors
  BY <1>6, <1>7, <1>8, <1>9
<1> QED  BY <1>10, <1>11, <1>12, <1>13, <1>14, Zenon DEF r, s, u, z

\* One turn of the loop sums one row more.
LEMMA SumStep ==
  ASSUME HeldInv, Rowed, NEW n \in 1..Len(answer)
  PROVE  Summed(n) = IF n \in Scoped THEN AddRow(dataset, Summed(n - 1), answer[n])
                     ELSE Summed(n - 1)
<1> DEFINE s == Summed(n - 1)
           u == Summed(n)
           r == answer[n]
           z == r.group.zone
<1>1. n \in DOMAIN answer /\ dataset \in {"errors", "waf", "dns"}
  BY InputAssumption DEF Rowed, HeldInv
<1>2. IsMaps(s) /\ IsMaps(u)
  BY SummedIsMaps
<1>3. /\ u.totals = IF n \in TotalRows THEN Bump(s.totals, z, r.count) ELSE s.totals
      /\ u.rowCount = IF n \in CountedRows THEN Bump(s.rowCount, z, 1) ELSE s.rowCount
      /\ u.lowConfidenceRows = IF n \in LowRows THEN Bump(s.lowConfidenceRows, z, 1)
                               ELSE s.lowConfidenceRows
      /\ u.customerErrors =
           IF n \in FailedRows THEN Bump(s.customerErrors, <<z, r.group.edge>>, r.count)
           ELSE s.customerErrors
      /\ u.originTotal = IF n \in OriginRows THEN Bump(s.originTotal, z, r.count)
                         ELSE s.originTotal
      /\ u.originErrors = IF n \in OriginFailedRows THEN Bump(s.originErrors, z, r.count)
                          ELSE s.originErrors
      /\ u.durationWeightedSum =
           IF n \in OriginRows THEN Bump(s.durationWeightedSum, z, r.group.ms * r.count)
           ELSE s.durationWeightedSum
      /\ u.durationWeightedCount =
           IF n \in OriginRows THEN Bump(s.durationWeightedCount, z, r.count)
           ELSE s.durationWeightedCount
  BY MapsStep
<1>4. /\ n \in TotalRows <=> n \in Scoped /\ dataset # "errors"
      /\ n \in CountedRows <=> n \in Scoped /\ dataset # "dns"
      /\ n \in LowRows <=> n \in Scoped /\ dataset = "errors" /\ r.low
      /\ n \in FailedRows <=> n \in Scoped /\ dataset = "errors" /\ r.group.edge >= 400
      /\ n \in OriginRows <=> n \in Scoped /\ dataset = "errors" /\ r.group.origin > 0
      /\ n \in OriginFailedRows <=> n \in Scoped /\ dataset = "errors" /\ r.group.origin >= 400
  BY DEF TotalRows, CountedRows, LowRows, FailedRows, OriginRows, OriginFailedRows
<1> HIDE DEF s, u, r
<1>5. CASE n \notin Scoped
  <2>1. u.by = s.by
    <3>1. \A i : i \in Scoped \cap (1..n) <=> i \in Scoped \cap (1..(n - 1))
      BY <1>5
    <3>2. Dimensions(n) = Dimensions(n - 1)
      BY <3>1 DEF Dimensions
    <3>3. ASSUME NEW d
          PROVE  Gathered(Scoped, LabelOf(d), CountOf, n) = Gathered(Scoped, LabelOf(d), CountOf, n - 1)
      <4>1. n \in Nat \ {0} /\ \A i \in 1..n : i \in 1..Len(answer)
        BY DEF Rowed
      <4>2. \A i \in Scoped \cap (1..n) : CountOf[i] \in Int
        BY <4>1, RowNumbers
      <4> QED  BY <1>5, <4>1, <4>2, GatherStep
    <3>4. /\ u.by = [d \in Dimensions(n) |-> Gathered(Scoped, LabelOf(d), CountOf, n)]
          /\ s.by = [d \in Dimensions(n - 1) |-> Gathered(Scoped, LabelOf(d), CountOf, n - 1)]
      BY DEF s, u, Summed
    <3> QED  BY <3>2, <3>3, <3>4
  <2>2. u = s
    BY <1>2, <1>3, <1>4, <1>5, <2>1, SameMaps
  <2> QED  BY <1>5, <2>2 DEF s, u
<1>6. CASE n \in Scoped
  <2>1. u.by = AddBreakdowns(s.by, r)
    BY <1>6, BreakdownStep DEF s, u, r
  <2> DEFINE w == AddRow(dataset, s, r)
  <2>2. CASE dataset = "errors"
    <3>1. r.group.origin \in Nat
      BY <2>2, RowNumbers DEF r
    <3>2. w = AddErrorRow(s, r)
      BY <2>2 DEF AddRow
    <3> HIDE DEF w
    <3>3. /\ IsMaps(w)
          /\ w.totals = s.totals /\ w.rowCount = Bump(s.rowCount, z, 1)
          /\ w.by = AddBreakdowns(s.by, r)
          /\ w.lowConfidenceRows = IF r.low THEN Bump(s.lowConfidenceRows, z, 1)
                                   ELSE s.lowConfidenceRows
          /\ w.customerErrors =
               IF r.group.edge >= 400 THEN Bump(s.customerErrors, <<z, r.group.edge>>, r.count)
               ELSE s.customerErrors
          /\ w.originTotal = IF r.group.origin > 0 THEN Bump(s.originTotal, z, r.count)
                             ELSE s.originTotal
          /\ w.originErrors = IF r.group.origin >= 400 THEN Bump(s.originErrors, z, r.count)
                              ELSE s.originErrors
          /\ w.durationWeightedSum =
               IF r.group.origin > 0 THEN Bump(s.durationWeightedSum, z, r.group.ms * r.count)
               ELSE s.durationWeightedSum
          /\ w.durationWeightedCount =
               IF r.group.origin > 0 THEN Bump(s.durationWeightedCount, z, r.count)
               ELSE s.durationWeightedCount
      BY <1>2, <3>1, <3>2, ErrorRow
    <3>4. /\ u.totals = w.totals /\ u.rowCount = w.rowCount /\ u.by = w.by
          /\ u.lowConfidenceRows = w.lowConfidenceRows /\ u.customerErrors = w.customerErrors
      BY <1>3, <1>4, <1>6, <2>1, <2>2, <3>3
    <3>5. /\ u.originTotal = w.originTotal /\ u.originErrors = w.originErrors
          /\ u.durationWeightedSum = w.durationWeightedSum
          /\ u.durationWeightedCount = w.durationWeightedCount
      <4> DEFINE p == r.group.ms * r.count
      <4> HIDE DEF p
      <4>1. /\ u.durationWeightedSum =
                 IF n \in OriginRows THEN Bump(s.durationWeightedSum, z, p)
                 ELSE s.durationWeightedSum
            /\ w.durationWeightedSum =
                 IF r.group.origin > 0 THEN Bump(s.durationWeightedSum, z, p)
                 ELSE s.durationWeightedSum
        BY <1>3, <3>3 DEF p
      <4> QED  BY <1>3, <1>4, <1>6, <2>2, <3>3, <4>1
    <3>6. u = w
      BY <1>2, <3>3, <3>4, <3>5, SameMaps
    <3> QED  BY <1>6, <3>6 DEF s, u, r, w
  <2>3. CASE dataset = "waf"
    <3>1. w = AddWafRow(s, r)
      BY <2>3 DEF AddRow
    <3> HIDE DEF w
    <3>2. /\ IsMaps(w)
          /\ w.totals = Bump(s.totals, z, r.count) /\ w.rowCount = Bump(s.rowCount, z, 1)
          /\ w.by = AddBreakdowns(s.by, r)
          /\ w.lowConfidenceRows = s.lowConfidenceRows
          /\ w.customerErrors = s.customerErrors
          /\ w.originTotal = s.originTotal /\ w.originErrors = s.originErrors
          /\ w.durationWeightedSum = s.durationWeightedSum
          /\ w.durationWeightedCount = s.durationWeightedCount
      BY <1>2, <3>1, WafRow
    <3>3. u = w
      BY <1>2, <1>3, <1>4, <1>6, <2>1, <2>3, <3>2, SameMaps
    <3> QED  BY <1>6, <3>3 DEF s, u, r, w
  <2>4. CASE dataset = "dns"
    <3>1. w = AddDnsRow(s, r)
      BY <2>4 DEF AddRow
    <3> HIDE DEF w
    <3>2. /\ IsMaps(w)
          /\ w.totals = Bump(s.totals, z, r.count) /\ w.rowCount = s.rowCount
          /\ w.by = AddBreakdowns(s.by, r)
          /\ w.lowConfidenceRows = s.lowConfidenceRows
          /\ w.customerErrors = s.customerErrors
          /\ w.originTotal = s.originTotal /\ w.originErrors = s.originErrors
          /\ w.durationWeightedSum = s.durationWeightedSum
          /\ w.durationWeightedCount = s.durationWeightedCount
      BY <1>2, <3>1, DnsRow
    <3>3. u = w
      BY <1>2, <1>3, <1>4, <1>6, <2>1, <2>4, <3>2, SameMaps
    <3> QED  BY <1>6, <3>3 DEF s, u, r, w
  <2> QED  BY <1>1, <2>2, <2>3, <2>4
<1> QED  BY <1>5, <1>6

\* Before the first row the maps are empty.
LEMMA SumNone ==
  Summed(0) = NoSums
<1>1. Dimensions(0) = {}
  BY DEF Dimensions
<1>2. \A P, key, v : Gathered(P, key, v, 0) = EmptyMap
  BY GatherNone
<1>3. [d \in Dimensions(0) |-> Gathered(Scoped, LabelOf(d), CountOf, 0)] = EmptyMap
  BY <1>1 DEF EmptyMap
<1> QED  BY <1>2, <1>3 DEF Summed, NoSums

LEMMA SumNoneNext == Summed(0)' = NoSums
<1>1. Dimensions(0)' = {}
  BY DEF Dimensions
<1>2. \A P, key, v : Gathered(P, key, v, 0) = EmptyMap
  BY GatherNone
<1>3. [d \in Dimensions(0)' |-> Gathered(Scoped', LabelOf(d)', CountOf', 0)] = EmptyMap
  BY <1>1 DEF EmptyMap
<1> QED  BY <1>2, <1>3 DEF Summed, NoSums

-----------------------------------------------------------------------------
(* The invariant holds *)

LEMMA SumsInit ==
  ASSUME Init
  PROVE  AInv
<1> USE DEF Init
<1>1. HeldInv
  BY DEF HeldInv
<1>2. AnswerInv
  BY DEF AnswerInv
<1>3. SumInv
  <2>1. Len(answer) = 0 /\ next - 1 = 0
    OBVIOUS
  <2>2. sums = Summed(next - 1)
    BY <2>1, SumNone
  <2>3. (1..(next - 1)) \ Scoped = {}
    BY <2>1
  <2> QED  BY <2>1, <2>2, <2>3 DEF SumInv
<1>4. SentInv
  BY DEF SentInv
<1> QED  BY <1>1, <1>2, <1>3, <1>4 DEF AInv

\* The answer arrives while the maps are empty.
LEMMA SumsFetch ==
  ASSUME AInv, Fetch
  PROVE  AInv'
<1>1. /\ pc = "fetch" /\ pc' = "sum" /\ dataset' = dataset /\ held' = held
      /\ next' = next /\ sums' = sums /\ unmatched' = unmatched
  BY DEF Fetch
<1>2. answer = << >> /\ next = 1 /\ HeldInv /\ AnswerInv
  BY <1>1 DEF AInv, AnswerInv
<1>3. HeldInv'
  BY <1>1, <1>2 DEF HeldInv
<1>4. PICK groups \in Answers(dataset, held) : \E order \in SetToSeqs(groups) :
         answer' = [i \in DOMAIN order |-> Decode(dataset, order[i])]
  BY DEF Fetch
<1>5. PICK order \in SetToSeqs(groups) :
         answer' = [i \in DOMAIN order |-> Decode(dataset, order[i])]
  BY <1>4
<1>6. AnswerInv'
  <2>1. \E g \in Answers(dataset', held') : \E o \in SetToSeqs(g) :
           answer' = [i \in DOMAIN o |-> Decode(dataset', o[i])]
    BY <1>1, <1>5
  <2> QED  BY <1>1, <2>1 DEF AnswerInv
<1>7. SumInv'
  <2>1. Len(answer') \in Nat
    BY <1>2, <1>5, OrderedRows
  <2>2. sums = NoSums /\ unmatched = {}
    <3>1. next - 1 = 0 /\ SumInv
      BY <1>2 DEF AInv
    <3>2. sums = Summed(0)
      BY <3>1 DEF SumInv
    <3>3. (1..(next - 1)) \ Scoped = {}
      BY <3>1
    <3>4. unmatched = {}
      BY <3>1, <3>3 DEF SumInv
    <3> QED  BY <3>2, <3>4, SumNone
  <2>3. Summed(0)' = NoSums
    BY SumNoneNext
  <2>4. next' - 1 = 0 /\ next' \in 1..(Len(answer') + 1)
    BY <1>1, <1>2, <2>1
  <2>5. sums' = Summed(next - 1)'
    <3>1. Summed(next - 1)' = Summed(0)'
      BY <2>4 DEF Summed, Dimensions
    <3> QED  BY <1>1, <2>2, <2>3, <3>1
  <2>6. (1..(next' - 1)) \ Scoped' = {}
    BY <2>4
  <2> QED  BY <1>1, <2>2, <2>4, <2>5, <2>6 DEF SumInv
<1>8. SentInv'
  BY <1>1 DEF SentInv
<1> QED  BY <1>3, <1>6, <1>7, <1>8 DEF AInv

\* A turn of the loop.
LEMMA SumsSum ==
  ASSUME AInv, Sum
  PROVE  AInv'
<1>1. /\ pc = "sum" /\ pc' = "sum" /\ next <= Len(answer) /\ next' = next + 1
      /\ dataset' = dataset /\ held' = held /\ answer' = answer
  BY DEF Sum
<1>2. HeldInv /\ AnswerInv /\ SumInv
  BY DEF AInv
<1>3. Rowed
  BY <1>2, AnswerRowed
<1>4. /\ Len(answer) \in Nat /\ DOMAIN answer = 1..Len(answer) /\ next \in 1..Len(answer)
      /\ sums = Summed(next - 1)
      /\ unmatched = IF dataset = "dns" THEN {answer[i] : i \in (1..(next - 1)) \ Scoped} ELSE {}
  BY <1>1, <1>2, <1>3 DEF Rowed, SumInv
<1>5. next \in Scoped <=> answer[next].group.zone \in InScope
  BY <1>4 DEF Scoped
<1>6. /\ sums' = IF next \in Scoped THEN AddRow(dataset, sums, answer[next]) ELSE sums
      /\ unmatched' = IF next \in Scoped THEN unmatched
                      ELSE IF dataset = "dns" THEN unmatched \cup {answer[next]} ELSE unmatched
  BY <1>5 DEF Sum
<1>7. HeldInv'
  BY <1>1, <1>2 DEF HeldInv
<1>8. AnswerInv'
  BY <1>1, <1>2 DEF AnswerInv
<1>9. SumInv'
  <2>1. next' \in 1..(Len(answer') + 1)
    BY <1>1, <1>4
  <2>2. sums' = Summed(next)
    BY <1>2, <1>3, <1>4, <1>6, SumStep
  <2>3. Scoped' = Scoped /\ next' - 1 = next
    BY <1>1, <1>4 DEF Scoped
  <2>4. Summed(next - 1)' = Summed(next)
    <3>1. /\ TotalRows' = TotalRows /\ CountedRows' = CountedRows /\ LowRows' = LowRows
          /\ FailedRows' = FailedRows /\ OriginRows' = OriginRows
          /\ OriginFailedRows' = OriginFailedRows
      BY <1>1, <2>3 DEF TotalRows, CountedRows, LowRows, FailedRows, OriginRows, OriginFailedRows
    <3>2. /\ ZoneOf' = ZoneOf /\ EdgeOf' = EdgeOf /\ One' = One /\ CountOf' = CountOf
          /\ Duration' = Duration /\ \A d : LabelOf(d)' = LabelOf(d)
      BY <1>1 DEF ZoneOf, EdgeOf, One, CountOf, Duration, LabelOf
    <3>3. Dimensions(next - 1)' = Dimensions(next)
      BY <1>1, <2>3 DEF Dimensions
    <3> QED  BY <2>3, <3>1, <3>2, <3>3 DEF Summed
  <2>5. unmatched' = IF dataset' = "dns"
                     THEN {answer'[i] : i \in (1..(next' - 1)) \ Scoped'} ELSE {}
    <3>1. CASE next \in Scoped
      <4>1. (1..next) \ Scoped = (1..(next - 1)) \ Scoped
        BY <1>4, <3>1
      <4> QED  BY <1>1, <1>4, <1>6, <2>3, <3>1, <4>1
    <3>2. CASE next \notin Scoped
      <4>1. (1..next) \ Scoped = ((1..(next - 1)) \ Scoped) \cup {next}
        BY <1>4, <3>2
      <4>2. {answer[i] : i \in (1..next) \ Scoped}
              = {answer[i] : i \in (1..(next - 1)) \ Scoped} \cup {answer[next]}
        BY <4>1
      <4> QED  BY <1>1, <1>4, <1>6, <2>3, <3>2, <4>2
    <3> QED  BY <3>1, <3>2
  <2> QED  BY <2>1, <2>2, <2>4, <2>5 DEF SumInv
<1>10. SentInv'
  BY <1>1 DEF SentInv
<1> QED  BY <1>7, <1>8, <1>9, <1>10 DEF AInv

\* The gauges are sent, or nothing happens.
LEMMA SumsSend ==
  ASSUME AInv, Send \/ UNCHANGED vars
  PROVE  AInv'
<1>1. /\ dataset' = dataset /\ held' = held /\ answer' = answer /\ next' = next
      /\ sums' = sums /\ unmatched' = unmatched
  BY DEF Send, vars
<1>2. HeldInv /\ AnswerInv /\ SumInv /\ SentInv
  BY DEF AInv
<1>3. HeldInv'
  BY <1>1, <1>2 DEF HeldInv
<1>4. AnswerInv'
  <2>1. pc' \in {"fetch", "sum", "sent"} /\ (pc' = "fetch" <=> pc = "fetch")
    BY <1>2 DEF Send, vars, AnswerInv
  <2> QED  BY <1>1, <1>2, <2>1 DEF AnswerInv
<1>5. SumInv'
  <2>1. Summed(next - 1)' = Summed(next - 1)
    <3>1. Scoped' = Scoped
      BY <1>1 DEF Scoped
    <3>2. /\ TotalRows' = TotalRows /\ CountedRows' = CountedRows /\ LowRows' = LowRows
          /\ FailedRows' = FailedRows /\ OriginRows' = OriginRows
          /\ OriginFailedRows' = OriginFailedRows
      BY <1>1, <3>1 DEF TotalRows, CountedRows, LowRows, FailedRows, OriginRows, OriginFailedRows
    <3>3. /\ ZoneOf' = ZoneOf /\ EdgeOf' = EdgeOf /\ One' = One /\ CountOf' = CountOf
          /\ Duration' = Duration /\ \A d : LabelOf(d)' = LabelOf(d)
      BY <1>1 DEF ZoneOf, EdgeOf, One, CountOf, Duration, LabelOf
    <3>4. Dimensions(next - 1)' = Dimensions(next - 1)
      BY <1>1, <3>1 DEF Dimensions
    <3> QED  BY <1>1, <3>1, <3>2, <3>3, <3>4 DEF Summed
  <2>2. Scoped' = Scoped
    BY <1>1 DEF Scoped
  <2> QED  BY <1>1, <1>2, <2>1, <2>2 DEF SumInv
<1>6. SentInv'
  <2>1. CASE Send
    <3>1. Rowed
      BY <1>2, AnswerRowed
    <3>2. next = Len(answer) + 1
      BY <1>2, <2>1, <3>1 DEF Send, SumInv, Rowed
    <3>3. sent' = Gauges(dataset, sums, Len(answer))
      BY <2>1 DEF Send
    <3> QED  BY <1>1, <3>2, <3>3 DEF SentInv
  <2>2. CASE UNCHANGED vars
    BY <1>1, <1>2, <2>2 DEF SentInv, vars
  <2> QED  BY <2>1, <2>2
<1> QED  BY <1>3, <1>4, <1>5, <1>6 DEF AInv

\* Every map holds what the rows before the next one amount to.
THEOREM AdaptiveInvariance == Spec => []AInv
<1>1. Init => AInv
  BY SumsInit
<1>2. AInv /\ [Next]_vars => AInv'
  <2> SUFFICES ASSUME AInv, [Next]_vars  PROVE AInv'
    OBVIOUS
  <2>1. CASE Fetch
    BY <2>1, SumsFetch
  <2>2. CASE Sum
    BY <2>2, SumsSum
  <2>3. CASE Send
    BY <2>3, SumsSend
  <2>4. CASE Done
    BY <2>4, SumsSend DEF Done
  <2>5. CASE UNCHANGED vars
    BY <2>5, SumsSend
  <2> QED  BY <2>1, <2>2, <2>3, <2>4, <2>5 DEF Next
<1> QED  BY <1>1, <1>2, PTL DEF Spec

\* The variables keep their types and bounds.
THEOREM AdaptiveTypeCorrect == Spec => []TypeOK
<1>1. AInv => TypeOK
  <2> SUFFICES ASSUME AInv  PROVE TypeOK
    OBVIOUS
  <2>1. HeldInv /\ AnswerInv /\ SumInv
    BY DEF AInv
  <2>2. Rowed /\ Len(answer) <= MaxGroups
    BY <2>1, AnswerRowed
  <2>3. dataset \in Datasets /\ pc \in {"fetch", "sum", "sent"} /\ held \subseteq Groups[dataset]
    BY <2>1 DEF HeldInv, AnswerInv
  <2>4. \A i \in DOMAIN answer : answer[i].group \in held
    BY <2>2 DEF Rowed
  <2>5. next \in 1..(Len(answer) + 1) /\ (unmatched = {} \/ dataset = "dns")
    BY <2>1 DEF SumInv
  <2> QED  BY <2>2, <2>3, <2>4, <2>5 DEF TypeOK
<1> QED  BY <1>1, AdaptiveInvariance, PTL

-----------------------------------------------------------------------------
(* What the gauges amount to *)

\* The sum of v over the rows of zone z at positions P.
ZoneSum(P, v, z) ==
  SumTo([i \in 1..Len(answer) |-> IF i \in P /\ ZoneOf[i] = z THEN v[i] ELSE 0], Len(answer))

\* The gauges sent, map by map.
LEMMA SentMaps ==
  ASSUME AInv, pc = "sent"
  PROVE  LET n == Len(answer)
         IN  /\ Rowed /\ HeldInv
             /\ sent.by = [d \in Dimensions(n) |-> Gathered(Scoped, LabelOf(d), CountOf, n)]
             /\ sent.totals = Gathered(TotalRows, ZoneOf, CountOf, n)
             /\ sent.customerErrors = Gathered(FailedRows, EdgeOf, CountOf, n)
             /\ sent.truncated =
                  IF dataset = "dns" THEN AccountTruncated(n)
                  ELSE [z \in InScope |->
                          IF /\ At(Gathered(CountedRows, ZoneOf, One, n), z) > 0
                             /\ At(Gathered(CountedRows, ZoneOf, One, n), z) >= QueryLimit
                          THEN 1 ELSE 0]
             /\ dataset = "errors" => sent.lowConfidence =
                  [z \in InScope |-> At(Gathered(LowRows, ZoneOf, One, n), z)]
             /\ sent.originErrorRatio =
                  Fraction(Gathered(OriginFailedRows, ZoneOf, CountOf, n),
                           Gathered(OriginRows, ZoneOf, CountOf, n))
             /\ sent.originDuration =
                  Fraction(Gathered(OriginRows, ZoneOf, Duration, n),
                           Gathered(OriginRows, ZoneOf, CountOf, n))
             /\ unmatched = IF dataset = "dns" THEN {answer[i] : i \in (1..n) \ Scoped} ELSE {}
<1> DEFINE n == Len(answer)
           s == Summed(n)
<1>1. HeldInv /\ AnswerInv /\ SumInv /\ SentInv
  BY DEF AInv
<1>2. Rowed
  BY <1>1, AnswerRowed
<1>3. n \in Nat /\ next - 1 = n
  BY <1>1, <1>2 DEF SentInv, Rowed
<1>4. sums = s /\ sent = Gauges(dataset, sums, n)
  BY <1>1, <1>3 DEF SentInv, SumInv
<1>5. unmatched = IF dataset = "dns" THEN {answer[i] : i \in (1..n) \ Scoped} ELSE {}
  BY <1>1, <1>3 DEF SumInv
<1>6. /\ s.by = [d \in Dimensions(n) |-> Gathered(Scoped, LabelOf(d), CountOf, n)]
      /\ s.totals = Gathered(TotalRows, ZoneOf, CountOf, n)
      /\ s.rowCount = Gathered(CountedRows, ZoneOf, One, n)
      /\ s.lowConfidenceRows = Gathered(LowRows, ZoneOf, One, n)
      /\ s.customerErrors = Gathered(FailedRows, EdgeOf, CountOf, n)
  BY DEF Summed
<1>7. /\ s.originTotal = Gathered(OriginRows, ZoneOf, CountOf, n)
      /\ s.originErrors = Gathered(OriginFailedRows, ZoneOf, CountOf, n)
      /\ s.durationWeightedSum = Gathered(OriginRows, ZoneOf, Duration, n)
      /\ s.durationWeightedCount = Gathered(OriginRows, ZoneOf, CountOf, n)
  BY DEF Summed
<1> HIDE DEF s, n
<1>8. sent = Gauges(dataset, s, n)
  BY <1>4
<1>9. /\ sent.by = s.by /\ sent.totals = s.totals /\ sent.customerErrors = s.customerErrors
      /\ sent.truncated = IF dataset = "dns" THEN AccountTruncated(n) ELSE ZoneTruncated(s)
  BY <1>8 DEF Gauges
<1>10. dataset = "errors" => sent.lowConfidence = [z \in InScope |-> At(s.lowConfidenceRows, z)]
  BY <1>8 DEF Gauges
<1>11. /\ sent.originErrorRatio = Fraction(s.originErrors, s.originTotal)
       /\ sent.originDuration = Fraction(s.durationWeightedSum, s.durationWeightedCount)
  BY <1>8 DEF Gauges
<1>12. ZoneTruncated(s) =
         [z \in InScope |-> IF /\ At(Gathered(CountedRows, ZoneOf, One, n), z) > 0
                               /\ At(Gathered(CountedRows, ZoneOf, One, n), z) >= QueryLimit
                            THEN 1 ELSE 0]
  BY <1>6 DEF ZoneTruncated
<1> QED  BY <1>1, <1>2, <1>5, <1>6, <1>7, <1>9, <1>10, <1>11, <1>12 DEF n

\* What a map by zone has for a zone, and what zones it has.
LEMMA AtZone ==
  ASSUME Rowed, NEW P, NEW v, NEW z, \A i \in P \cap (1..Len(answer)) : v[i] \in Int
  PROVE  LET m == Gathered(P, ZoneOf, v, Len(answer))
         IN  /\ At(m, z) = ZoneSum(P, v, z) /\ ZoneSum(P, v, z) \in Int
             /\ z \in DOMAIN m <=> \E i \in P \cap (1..Len(answer)) : ZoneOf[i] = z
             /\ z \in DOMAIN m => m[z] = ZoneSum(P, v, z)
<1> DEFINE n == Len(answer)
           m == Gathered(P, ZoneOf, v, n)
           f == [i \in 1..n |-> IF i \in P /\ ZoneOf[i] = z THEN v[i] ELSE 0]
<1>1. n \in Nat
  BY DEF Rowed
<1>2. m = [k \in Keys(P, ZoneOf, n) |-> SumTo(Part(P, ZoneOf, v, k, n), n)]
  BY GatheredIs
<1>3. f = Part(P, ZoneOf, v, z, n) /\ ZoneSum(P, v, z) = SumTo(f, n)
  BY DEF Part, ZoneSum
<1>4. z \in Keys(P, ZoneOf, n) <=> \E i \in P \cap (1..n) : ZoneOf[i] = z
  BY DEF Keys
<1>5. \A i \in 1..n : f[i] \in Int
  OBVIOUS
<1>6. z \notin Keys(P, ZoneOf, n) => \A i \in 1..n : f[i] = 0
  BY <1>4
<1> HIDE DEF m, f
<1>7. z \notin Keys(P, ZoneOf, n) => SumTo(f, n) = 0
  BY <1>1, <1>6, SumZero
<1>8. SumTo(f, n) \in Int
  BY <1>1, <1>5, SumSteps
<1>9. DOMAIN m = Keys(P, ZoneOf, n) /\ (z \in DOMAIN m => m[z] = SumTo(f, n))
  BY <1>2, <1>3
<1>10. At(m, z) = SumTo(f, n)
  BY <1>7, <1>9 DEF At
<1> QED  BY <1>3, <1>4, <1>8, <1>9, <1>10 DEF m

\* What a map by zone and label has for a zone.
LEMMA ZoneTotalIs ==
  ASSUME Rowed, NEW P, NEW key, NEW v, NEW z,
         \A i \in P \cap (1..Len(answer)) : v[i] \in Int /\ key[i][1] = ZoneOf[i]
  PROVE  ZoneTotal(Gathered(P, key, v, Len(answer)), z) = ZoneSum(P, v, z)
<1> DEFINE n == Len(answer)
           m == Gathered(P, key, v, n)
           Q == {k \in Keys(P, key, n) : k[1] = z}
           f == [i \in 1..n |-> IF i \in P /\ key[i] \in Q THEN v[i] ELSE 0]
<1>1. n \in Nat
  BY DEF Rowed
<1>2. DOMAIN m = Keys(P, key, n) /\ SumOver(m, {k \in DOMAIN m : k \in Q}) = SumTo(f, n)
  <2>1. \A i \in P \cap (1..n) : v[i] \in Int
    OBVIOUS
  <2>2. DOMAIN m = Keys(P, key, n) /\ Within(m, Q) = RowSum(P, key, v, Q, n)
    BY <1>1, <2>1, GatherTotal
  <2> QED  BY <2>2 DEF Within, RowSum
<1>3. {k \in DOMAIN m : k \in Q} = {k \in DOMAIN m : k[1] = z}
  BY <1>2
<1>4. f = [i \in 1..n |-> IF i \in P /\ ZoneOf[i] = z THEN v[i] ELSE 0]
  <2>1. \A i \in 1..n : i \in P => (key[i] \in Q <=> ZoneOf[i] = z)
    BY DEF Keys
  <2> QED  BY <2>1
<1> HIDE DEF m, Q, f
<1>5. ZoneTotal(m, z) = SumTo(f, n)
  BY <1>2, <1>3 DEF ZoneTotal
<1> QED  BY <1>4, <1>5 DEF ZoneSum, m

\* Every breakdown has all the rows of a zone in scope.
LEMMA PublishedIs ==
  ASSUME AInv, pc = "sent", NEW d \in DOMAIN sent.by, NEW z \in InScope
  PROVE  Published(z, d) = ZoneSum(Scoped, CountOf, z)
<1>1. /\ Rowed /\ HeldInv
      /\ sent.by = [e \in Dimensions(Len(answer)) |->
                      Gathered(Scoped, LabelOf(e), CountOf, Len(answer))]
  BY SentMaps
<1>2. sent.by[d] = Gathered(Scoped, LabelOf(d), CountOf, Len(answer))
  BY <1>1
<1>3. \A i \in Scoped \cap (1..Len(answer)) :
         CountOf[i] \in Int /\ LabelOf(d)[i][1] = ZoneOf[i]
  BY <1>1, RowNumbers
<1> QED  BY <1>1, <1>2, <1>3, ZoneTotalIs DEF Published

\* All breakdowns of a zone agree with each other and with its total, and its
\* customer errors are a part of that.
THEOREM BreakdownsAreConsistent == Spec => []BreakdownsAgree
<1>1. AInv => BreakdownsAgree
  <2> SUFFICES ASSUME AInv, pc = "sent", NEW d \in DOMAIN sent.by, NEW z \in InScope
               PROVE  /\ \A e \in DOMAIN sent.by : Published(z, d) = Published(z, e)
                      /\ dataset # "errors" => Published(z, d) = At(sent.totals, z)
                      /\ ZoneTotal(sent.customerErrors, z) <= Published(z, d)
    BY DEF BreakdownsAgree
  <2> DEFINE n == Len(answer)
  <2>1. /\ Rowed /\ HeldInv
        /\ sent.totals = Gathered(TotalRows, ZoneOf, CountOf, n)
        /\ sent.customerErrors = Gathered(FailedRows, EdgeOf, CountOf, n)
    BY SentMaps
  <2>2. \A e \in DOMAIN sent.by : Published(z, e) = ZoneSum(Scoped, CountOf, z)
    BY PublishedIs
  <2>3. \A i \in 1..n : CountOf[i] \in Nat /\ EdgeOf[i][1] = ZoneOf[i]
    BY <2>1, RowNumbers
  <2>4. ASSUME dataset # "errors"  PROVE At(sent.totals, z) = ZoneSum(Scoped, CountOf, z)
    <3>1. TotalRows = Scoped
      BY <2>4 DEF TotalRows
    <3>2. \A i \in Scoped \cap (1..n) : CountOf[i] \in Int
      BY <2>3
    <3> QED  BY <2>1, <3>1, <3>2, AtZone
  <2>5. ZoneTotal(sent.customerErrors, z) <= ZoneSum(Scoped, CountOf, z)
    <3> DEFINE f == [i \in 1..n |-> IF i \in FailedRows /\ ZoneOf[i] = z THEN CountOf[i] ELSE 0]
               g == [i \in 1..n |-> IF i \in Scoped /\ ZoneOf[i] = z THEN CountOf[i] ELSE 0]
    <3>1. \A i \in FailedRows \cap (1..n) : CountOf[i] \in Int /\ EdgeOf[i][1] = ZoneOf[i]
      BY <2>3
    <3>2. ZoneTotal(sent.customerErrors, z) = ZoneSum(FailedRows, CountOf, z)
      BY <2>1, <3>1, ZoneTotalIs
    <3>3. ZoneSum(FailedRows, CountOf, z) = SumTo(f, n)
          /\ ZoneSum(Scoped, CountOf, z) = SumTo(g, n)
      BY DEF ZoneSum
    <3>4. \A i \in 1..n : f[i] \in Int /\ g[i] \in Int /\ f[i] <= g[i]
      BY <2>3 DEF FailedRows
    <3>5. n \in Nat
      BY <2>1 DEF Rowed
    <3> HIDE DEF f, g
    <3>6. SumTo(f, n) <= SumTo(g, n)
      BY <3>4, <3>5, SumMonotone
    <3> QED  BY <3>2, <3>3, <3>6
  <2> QED  BY <2>2, <2>4, <2>5
<1> QED  BY <1>1, AdaptiveInvariance, PTL

-----------------------------------------------------------------------------
(* What an answer below its limit holds *)

\* A cut that is below the limit cuts nothing.
LEMMA CutBelow ==
  ASSUME NEW S, IsFiniteSet(S), NEW c \in CutAt(QueryLimit, S), Cardinality(c) < QueryLimit
  PROVE  c = S
<1>1. c \subseteq S
      /\ Cardinality(c) = IF Cardinality(S) < QueryLimit THEN Cardinality(S) ELSE QueryLimit
  BY DEF CutAt
<1>2. Cardinality(S) \in Nat /\ QueryLimit \in Nat
  BY FS_CardinalityType, InputAssumption
<1>3. Cardinality(c) = Cardinality(S)
  BY <1>1, <1>2
<1> QED  BY <1>1, <1>3, FS_Subset

\* The rows of zone z.
RowsOf(z) == {i \in DOMAIN answer : ZoneOf[i] = z}

\* Each row is a group of its own.
LEMMA GroupCount ==
  ASSUME Rowed, NEW P
  PROVE  Cardinality({answer[i].group : i \in P \cap (1..Len(answer))}) = HowMany(P, Len(answer))
<1> DEFINE n == Len(answer)
           row == [i \in 1..n |-> answer[i].group]
<1>1. n \in Nat /\ \A i, j \in 1..n : row[i] = row[j] => i = j
  BY DEF Rowed
<1>2. Chosen(row, P, n) = {answer[i].group : i \in P \cap (1..n)}
  BY DEF Chosen
<1>3. Cardinality(Chosen(row, P, n)) = HowMany(P, n)
  <2> HIDE DEF row
  <2> QED  BY <1>1, CountRows
<1> QED  BY <1>2, <1>3

\* The groups of an answer, by the dataset's way to cut it.
LEMMA AnswerGroups ==
  ASSUME AInv, pc = "sent"
  PROVE  LET S == {answer[i].group : i \in 1..Len(answer)}
         IN  S \in Answers(dataset, held)
<1> DEFINE S == {answer[i].group : i \in 1..Len(answer)}
<1>1. HeldInv /\ AnswerInv
  BY DEF AInv
<1>2. PICK groups \in Answers(dataset, held) : \E order \in SetToSeqs(groups) :
         answer = [i \in DOMAIN order |-> Decode(dataset, order[i])]
  BY <1>1 DEF AnswerInv
<1>3. PICK order \in SetToSeqs(groups) :
         answer = [i \in DOMAIN order |-> Decode(dataset, order[i])]
  BY <1>2
<1>4. /\ Len(answer) = Cardinality(groups) /\ DOMAIN answer = 1..Cardinality(groups)
      /\ \A i \in DOMAIN answer : answer[i].group = order[i]
      /\ groups = {order[i] : i \in DOMAIN answer}
  BY <1>1, <1>3, OrderedRows
<1>5. S = groups
  BY <1>4
<1> QED  BY <1>2, <1>5

\* An account that is not flagged is answered in full.
LEMMA WholeAccount ==
  ASSUME AInv, pc = "sent", dataset = "dns", sent.truncated["account"] # 1
  PROVE  \A g \in held : \E i \in 1..Len(answer) : answer[i].group = g
<1> DEFINE n == Len(answer)
           S == {answer[i].group : i \in 1..n}
<1>1. Rowed /\ HeldInv /\ sent.truncated = AccountTruncated(n)
  BY SentMaps
<1>2. n \in Nat /\ DOMAIN answer = 1..n /\ IsFiniteSet(held) /\ QueryLimit \in Nat \ {0}
  BY <1>1, InputAssumption DEF Rowed, HeldInv
<1>3. S \in CutAt(QueryLimit, held)
  BY AnswerGroups DEF Answers
<1>4. n < QueryLimit
  BY <1>1, <1>2 DEF AccountTruncated
<1>5. Cardinality(S) = n
  <2> DEFINE row == [i \in 1..n |-> answer[i].group]
  <2>1. row \in Surjection(1..n, S) /\ row \in Injection(1..n, S)
    BY <1>1 DEF Surjection, Injection, IsInjective, Rowed
  <2>2. n \in Nat
    BY <1>2
  <2> HIDE DEF row, S, n
  <2>3. IsFiniteSet(1..n) /\ Cardinality(1..n) = n
    BY <2>2, FS_Interval
  <2> QED  BY <2>1, <2>3, FS_Surjection
<1>6. S = held
  <2> HIDE DEF S
  <2> QED  BY <1>2, <1>3, <1>4, <1>5, CutBelow
<1> QED  BY <1>6

\* What is not flagged misses no group: of the zone, or of the account for DNS.
LEMMA NothingCut ==
  ASSUME AInv, pc = "sent", NEW z \in InScope, ~ Flagged(z)
  PROVE  \A g \in held : (dataset = "dns" \/ g.zone = z) =>
            \E i \in 1..Len(answer) : answer[i].group = g
<1> DEFINE n == Len(answer)
           S == {answer[i].group : i \in 1..n}
<1>1. /\ Rowed /\ HeldInv
      /\ sent.truncated =
           IF dataset = "dns" THEN AccountTruncated(n)
           ELSE [y \in InScope |->
                   IF /\ At(Gathered(CountedRows, ZoneOf, One, n), y) > 0
                      /\ At(Gathered(CountedRows, ZoneOf, One, n), y) >= QueryLimit
                   THEN 1 ELSE 0]
  BY SentMaps
<1>2. n \in Nat /\ DOMAIN answer = 1..n /\ IsFiniteSet(held) /\ QueryLimit \in Nat \ {0}
  BY <1>1, InputAssumption DEF Rowed, HeldInv
<1>3. S \in Answers(dataset, held)
  BY AnswerGroups
<1>4. CASE dataset = "dns"
  <2>1. sent.truncated["account"] # 1
    BY <1>4 DEF Flagged
  <2> QED  BY <1>4, <2>1, WholeAccount
<1>5. CASE dataset # "dns"
  <2> DEFINE H == OfZone(held, z)
             C == OfZone(S, z)
  <2>1. S \subseteq held /\ \A y \in {g.zone : g \in held} :
           OfZone(S, y) \in CutAt(QueryLimit, OfZone(held, y))
    BY <1>3, <1>5 DEF Answers
  <2>2. C = {answer[i].group : i \in RowsOf(z) \cap (1..n)}
    BY <1>2 DEF OfZone, RowsOf, ZoneOf
  <2>3. Cardinality(C) = HowMany(RowsOf(z), n)
    BY <1>1, <2>2, GroupCount
  <2>4. ZoneSum(CountedRows, One, z) = Cardinality(C)
    <3>1. \A i \in 1..n : (IF i \in CountedRows /\ ZoneOf[i] = z THEN One[i] ELSE 0)
                           = IF i \in RowsOf(z) THEN 1 ELSE 0
      BY <1>2, <1>5 DEF CountedRows, Scoped, RowsOf, ZoneOf, One
    <3>2. [i \in 1..n |-> IF i \in CountedRows /\ ZoneOf[i] = z THEN One[i] ELSE 0]
            = [i \in 1..n |-> IF i \in RowsOf(z) THEN 1 ELSE 0]
      BY <3>1
    <3> QED  BY <2>3, <3>2 DEF ZoneSum, HowMany
  <2>5. At(Gathered(CountedRows, ZoneOf, One, n), z) = Cardinality(C)
    <3>1. \A i \in CountedRows \cap (1..n) : One[i] \in Int
      BY <1>1, RowNumbers
    <3> QED  BY <1>1, <2>4, <3>1, AtZone
  <2>6. Cardinality(C) < QueryLimit
    <3>1. sent.truncated[z] # 1
      BY <1>5 DEF Flagged
    <3>2. IsFiniteSet(C)
      BY <1>2, <2>1, FS_Subset DEF OfZone
    <3>3. Cardinality(C) \in Nat
      BY <3>2, FS_CardinalityType
    <3> HIDE DEF C
    <3> QED  BY <1>1, <1>2, <1>5, <2>5, <3>1, <3>3
  <2>7. C = H
    <3>1. IsFiniteSet(H)
      BY <1>2, FS_Subset DEF OfZone
    <3>2. CASE z \in {g.zone : g \in held}
      <4>1. C \in CutAt(QueryLimit, H)
        BY <2>1, <3>2
      <4> HIDE DEF C, H
      <4> QED  BY <2>6, <3>1, <4>1, CutBelow
    <3>3. CASE z \notin {g.zone : g \in held}
      BY <2>1, <3>3 DEF OfZone
    <3> QED  BY <3>2, <3>3
  <2> QED  BY <1>5, <2>7 DEF OfZone
<1> QED  BY <1>4, <1>5

-----------------------------------------------------------------------------
(* What is published and what is held *)

\* The estimates of the rows at positions P.
RowEstimate(P) ==
  SumTo([i \in 1..Len(answer) |-> IF i \in P THEN CountOf[i] ELSE 0], Len(answer))

\* What decoding makes of a group.
LEMMA DecodedIs ==
  ASSUME NEW r, Decoded(r)
  PROVE  /\ r.low => dataset = "errors"
         /\ r.count = EstimatedCount(r.group.count, IF r.low THEN 1 ELSE r.group.interval)
<1> DEFINE g == r.group
           u == Decode(dataset, g)
<1>1. u.low => dataset = "errors"
  BY DEF Decode
<1>2. u.count = EstimatedCount(g.count, IF u.low THEN 1 ELSE g.interval)
  BY DEF Decode
<1>3. r = u
  BY DEF Decoded
<1> HIDE DEF u
<1> QED  BY <1>1, <1>2, <1>3

\* A set of groups that all have scaled rows is estimated by those rows.
LEMMA EstimateOfRows ==
  ASSUME Rowed, HeldInv, NEW P \in SUBSET (1..Len(answer)), NEW S \in SUBSET held,
         \A i \in P : ~ answer[i].low,
         S = {answer[i].group : i \in P}
  PROVE  FullEstimate(S) = RowEstimate(P)
<1> DEFINE n == Len(answer)
           row == [i \in 1..n |-> answer[i].group]
           est == [g \in S |-> IF g.interval = 0 THEN g.count ELSE g.count * g.interval]
           f == [i \in 1..n |-> IF i \in P THEN CountOf[i] ELSE 0]
<1>1. /\ n \in Nat /\ DOMAIN answer = 1..n
      /\ \A i \in 1..n : answer[i].group \in held /\ Decoded(answer[i])
      /\ \A i, j \in 1..n : row[i] = row[j] => i = j
  BY DEF Rowed
<1>2. IsFiniteSet(S)
  BY FS_Subset DEF HeldInv
<1>3. \A x \in S : \E i \in 1..n : row[i] = x
  OBVIOUS
<1>4. \A i \in 1..n : row[i] \in S <=> i \in P
  <2>1. \A i \in 1..n : row[i] \in S => \E j \in P : row[j] = row[i]
    OBVIOUS
  <2> QED  BY <1>1, <2>1
<1>5. ASSUME NEW i \in P  PROVE est[row[i]] = CountOf[i] /\ CountOf[i] \in Nat
  <2> DEFINE g == answer[i].group
  <2>1. /\ i \in 1..n /\ ~ answer[i].low /\ g \in Groups[dataset] /\ g \in S /\ row[i] = g
        /\ Decoded(answer[i]) /\ CountOf[i] = answer[i].count /\ CountOf[i] \in Nat
    BY <1>1, RowNumbers DEF Decoded
  <2> HIDE DEF g, row
  <2>2. answer[i].count = EstimatedCount(g.count, IF answer[i].low THEN 1 ELSE g.interval)
    BY <2>1, DecodedIs DEF g
  <2>3. answer[i].count = EstimatedCount(g.count, g.interval)
    BY <2>1, <2>2
  <2>4. g.interval \in Nat
    BY <2>1, InputAssumption DEF HeldInv
  <2>5. g.interval <= 0 <=> g.interval = 0
    BY <2>4
  <2>6. answer[i].count = IF g.interval = 0 THEN g.count ELSE g.count * g.interval
    BY <2>3, <2>5 DEF EstimatedCount
  <2> QED  BY <2>1, <2>6
<1>6. \A i \in 1..n : f[i] = IF row[i] \in S THEN est[row[i]] ELSE 0
  BY <1>4, <1>5
<1>7. ASSUME NEW x \in S  PROVE est[x] \in Int
  <2>1. PICK i \in P : row[i] = x
    OBVIOUS
  <2> HIDE DEF est, row
  <2> QED  BY <1>5, <2>1
<1>8. Rows(est, S, f, row, n)
  <2> HIDE DEF est, row, f
  <2> QED  BY <1>1, <1>2, <1>3, <1>6, <1>7 DEF Rows
<1>9. SumOver(est, S) = SumTo(f, n)
  <2> HIDE DEF est, row, f
  <2> QED  BY <1>8, SumOverRows
<1> QED  BY <1>9 DEF FullEstimate, RowEstimate

\* A zone in scope whose answer is neither cut nor flagged for unscaled rows is
\* published as it is held.
LEMMA PublishedInFull ==
  ASSUME AInv, pc = "sent", NEW z \in InScope, ~ Flagged(z),
         ~ (dataset = "errors" /\ sent.lowConfidence[z] > 0)
  PROVE  ZoneSum(Scoped, CountOf, z) = FullEstimate(OfZone(held, z))
<1> DEFINE n == Len(answer)
           P == RowsOf(z)
           S == OfZone(held, z)
<1>1. /\ Rowed /\ HeldInv
      /\ dataset = "errors" => sent.lowConfidence =
           [y \in InScope |-> At(Gathered(LowRows, ZoneOf, One, n), y)]
  BY SentMaps
<1>2. n \in Nat /\ DOMAIN answer = 1..n /\ \A i \in 1..n : answer[i].group \in held
  BY <1>1 DEF Rowed
<1>3. P \in SUBSET (1..n) /\ P \subseteq Scoped
  BY <1>2 DEF RowsOf, Scoped, ZoneOf
<1>4. S = {answer[i].group : i \in P}
  <2>1. \A g \in S : \E i \in 1..n : answer[i].group = g
    BY NothingCut DEF OfZone
  <2> QED  BY <1>2, <2>1 DEF OfZone, RowsOf, ZoneOf
<1>5. ASSUME NEW p \in P  PROVE ~ answer[p].low
  <2>1. CASE dataset = "errors"
    <3> DEFINE f == [i \in 1..n |-> IF i \in LowRows /\ ZoneOf[i] = z THEN One[i] ELSE 0]
    <3>1. \A i \in 1..n : One[i] = 1
      BY <1>1, RowNumbers
    <3>2. sent.lowConfidence[z] = ZoneSum(LowRows, One, z)
      <4>1. \A i \in LowRows \cap (1..n) : One[i] \in Int
        BY <3>1
      <4> QED  BY <1>1, <2>1, <4>1, AtZone
    <3>3. ZoneSum(LowRows, One, z) = SumTo(f, n)
      BY DEF ZoneSum
    <3>4. \A i \in 1..n : f[i] \in Nat
      BY <3>1
    <3>5. answer[p].low => f[p] = 1
      BY <1>3, <2>1, <3>1 DEF LowRows, RowsOf
    <3> HIDE DEF f, P
    <3>6. p \in 1..n
      BY <1>3
    <3>7. f[p] <= SumTo(f, n) /\ SumTo(f, n) \in Int
      <4>1. f[p] <= SumTo(f, n)
        BY <1>2, <3>4, <3>6, SumTerm
      <4>2. SumTo(f, n) \in Nat
        BY <1>2, <3>4, SumNat
      <4> QED  BY <4>1, <4>2
    <3> QED  BY <2>1, <3>2, <3>3, <3>5, <3>7
  <2>2. CASE dataset # "errors"
    <3>1. p \in 1..n /\ Decoded(answer[p])
      BY <1>1, <1>3 DEF Rowed
    <3> QED  BY <2>2, <3>1, DecodedIs
  <2> QED  BY <2>1, <2>2
<1>6. FullEstimate(S) = RowEstimate(P)
  <2>1. S \in SUBSET held
    BY DEF OfZone
  <2> HIDE DEF P, S
  <2> QED  BY <1>1, <1>3, <1>4, <1>5, <2>1, EstimateOfRows
<1>7. RowEstimate(P) = ZoneSum(Scoped, CountOf, z)
  <2>1. \A i \in 1..n : i \in P <=> i \in Scoped /\ ZoneOf[i] = z
    BY <1>2, <1>3 DEF RowsOf
  <2>2. [i \in 1..n |-> IF i \in P THEN CountOf[i] ELSE 0]
          = [i \in 1..n |-> IF i \in Scoped /\ ZoneOf[i] = z THEN CountOf[i] ELSE 0]
    BY <2>1
  <2> QED  BY <2>2 DEF RowEstimate, ZoneSum
<1> QED  BY <1>6, <1>7

\* No breakdown differs from what the service holds without a gauge to say so.
THEOREM NoSilentUndercount == Spec => []UndercountIsFlagged
<1>1. AInv => UndercountIsFlagged
  <2> SUFFICES ASSUME AInv, pc = "sent", NEW d \in DOMAIN sent.by, NEW z \in InScope,
                      ~ Flagged(z), ~ (dataset = "errors" /\ sent.lowConfidence[z] > 0)
               PROVE  Published(z, d) = FullEstimate(OfZone(held, z))
    BY DEF UndercountIsFlagged
  <2>1. Published(z, d) = ZoneSum(Scoped, CountOf, z)
    BY PublishedIs
  <2> QED  BY <2>1, PublishedInFull
<1> QED  BY <1>1, AdaptiveInvariance, PTL

\* Every DNS row is counted towards its zone or kept as an unmatched one, and
\* nothing is missing unless the account is flagged.
THEOREM EveryDnsRowCounts == Spec => []DnsRowsAccounted
<1>1. AInv => DnsRowsAccounted
  <2> SUFFICES ASSUME AInv, pc = "sent", dataset = "dns"
               PROVE  LET counted == SumOver(sent.totals, DOMAIN sent.totals)
                          skipped == SumOver([r \in unmatched |-> r.count], unmatched)
                      IN  /\ \A r \in unmatched : r.group.zone \notin InScope
                          /\ counted + skipped # FullEstimate(held) =>
                               sent.truncated["account"] = 1
    BY DEF DnsRowsAccounted
  <2> DEFINE n == Len(answer)
             D == DOMAIN sent.totals
             f == [i \in 1..n |-> IF i \in Scoped THEN CountOf[i] ELSE 0]
             g == [i \in 1..n |-> IF i \notin Scoped THEN CountOf[i] ELSE 0]
             h == [i \in 1..n |-> IF i \in 1..n THEN CountOf[i] ELSE 0]
  <2>1. /\ Rowed /\ HeldInv
        /\ sent.totals = Gathered(TotalRows, ZoneOf, CountOf, n)
        /\ unmatched = {answer[i] : i \in (1..n) \ Scoped}
        /\ sent.truncated = AccountTruncated(n)
    BY SentMaps
  <2>2. n \in Nat /\ DOMAIN answer = 1..n /\ TotalRows = Scoped
    BY <2>1 DEF Rowed, TotalRows
  <2>3. \A i \in 1..n : CountOf[i] \in Nat /\ CountOf[i] = answer[i].count
    BY <2>1, RowNumbers
  <2>4. SumOver(sent.totals, D) = SumTo(f, n)
    <3> DEFINE Q == Keys(Scoped, ZoneOf, n)
               m == Gathered(Scoped, ZoneOf, CountOf, n)
    <3>1. \A i \in Scoped \cap (1..n) : CountOf[i] \in Int
      BY <2>3
    <3>2. DOMAIN m = Q /\ Within(m, Q) = RowSum(Scoped, ZoneOf, CountOf, Q, n)
      BY <2>2, <3>1, GatherTotal
    <3>3. m = sent.totals
      BY <2>1, <2>2
    <3>4. {k \in D : k \in Q} = D
      BY <3>2, <3>3
    <3>5. f = [i \in 1..n |-> IF i \in Scoped /\ ZoneOf[i] \in Q THEN CountOf[i] ELSE 0]
      <4>1. \A i \in 1..n : i \in Scoped => ZoneOf[i] \in Q
        BY DEF Keys
      <4> QED  BY <4>1
    <3> HIDE DEF Q, m
    <3> QED  BY <3>2, <3>3, <3>4, <3>5 DEF Within, RowSum
  <2>5. SumOver([r \in unmatched |-> r.count], unmatched) = SumTo(g, n)
    <3> DEFINE c == [r \in unmatched |-> r.count]
               row == [i \in 1..n |-> answer[i]]
    <3>1. \A i, j \in 1..n : row[i] = row[j] => i = j
      BY <2>1 DEF Rowed
    <3>2. \A i \in 1..n : row[i] \in unmatched <=> i \notin Scoped
      BY <2>1, <3>1
    <3>3. \A x \in unmatched : \E i \in 1..n : row[i] = x
      BY <2>1
    <3>4. \A i \in 1..n : g[i] = IF row[i] \in unmatched THEN c[row[i]] ELSE 0
      BY <2>3, <3>2
    <3>5. \A x \in unmatched : c[x] \in Int
      BY <2>1, <2>3
    <3>6. IsFiniteSet(unmatched)
      <4> DEFINE U == (1..n) \ Scoped
                 q == [i \in U |-> answer[i]]
      <4>1. q \in Surjection(U, unmatched)
        BY <2>1 DEF Surjection
      <4>2. IsFiniteSet(1..n)
        BY <2>2, FS_Interval
      <4>3. IsFiniteSet(U)
        BY <4>2, FS_Subset
      <4> HIDE DEF U, q
      <4> QED  BY <4>1, <4>3, FS_Surjection
    <3> HIDE DEF c, row, g
    <3>7. Rows(c, unmatched, g, row, n)
      BY <2>2, <3>1, <3>3, <3>4, <3>5, <3>6 DEF Rows
    <3>8. SumOver(c, unmatched) = SumTo(g, n)
      BY <3>7, SumOverRows
    <3> QED  BY <3>8 DEF c
  <2>6. SumTo(h, n) = SumTo(f, n) + SumTo(g, n)
    <3>1. \A i \in 1..n : f[i] \in Int /\ g[i] \in Int /\ h[i] = f[i] + g[i]
      BY <2>3
    <3> HIDE DEF f, g, h
    <3> QED  BY <2>2, <3>1, SumPlus
  <2>7. \A r \in unmatched : r.group.zone \notin InScope
    BY <2>1, <2>2 DEF Scoped
  <2>8. sent.truncated["account"] # 1 => FullEstimate(held) = SumTo(h, n)
    <3> SUFFICES ASSUME sent.truncated["account"] # 1  PROVE FullEstimate(held) = SumTo(h, n)
      OBVIOUS
    <3>1. held = {answer[i].group : i \in 1..n}
      <4>1. \A e \in held : \E i \in 1..n : answer[i].group = e
        BY WholeAccount
      <4>2. \A i \in 1..n : answer[i].group \in held
        BY <2>1 DEF Rowed
      <4> QED  BY <4>1, <4>2
    <3>2. \A i \in 1..n : ~ answer[i].low
      <4>1. \A i \in 1..n : Decoded(answer[i])
        BY <2>1 DEF Rowed
      <4> QED  BY <4>1, DecodedIs
    <3>3. FullEstimate(held) = RowEstimate(1..n)
      BY <2>1, <3>1, <3>2, EstimateOfRows
    <3> QED  BY <3>3 DEF RowEstimate
  <2> HIDE DEF f, g, h, n
  <2> QED  BY <2>4, <2>5, <2>6, <2>7, <2>8
<1> QED  BY <1>1, AdaptiveInvariance, PTL

-----------------------------------------------------------------------------
(* The origin's side *)

\* The weights, failures and durations of a zone's origin.
LEMMA OriginSums ==
  ASSUME Rowed, HeldInv, dataset = "errors", NEW z
  PROVE  LET n == Len(answer)
             W == ZoneSum(OriginRows, CountOf, z)
             E == ZoneSum(OriginFailedRows, CountOf, z)
             D == ZoneSum(OriginRows, Duration, z)
             R == {i \in 1..n : i \in OriginRows /\ ZoneOf[i] = z}
         IN  /\ W \in Nat /\ E \in Nat /\ D \in Int /\ E <= W
             /\ W > 0 <=> R # {}
             /\ W > 0 => /\ \E i \in R : answer[i].group.ms * W <= D
                         /\ \E i \in R : answer[i].group.ms * W >= D
<1> DEFINE n == Len(answer)
           c == [i \in 1..n |-> IF i \in OriginRows /\ ZoneOf[i] = z THEN CountOf[i] ELSE 0]
           e == [i \in 1..n |-> IF i \in OriginFailedRows /\ ZoneOf[i] = z THEN CountOf[i] ELSE 0]
           p == [i \in 1..n |-> IF i \in OriginRows /\ ZoneOf[i] = z THEN Duration[i] ELSE 0]
           x == [i \in 1..n |-> answer[i].group.ms]
           R == {i \in 1..n : i \in OriginRows /\ ZoneOf[i] = z}
<1>1. n \in Nat
  BY DEF Rowed
<1>2. \A i \in 1..n : /\ CountOf[i] \in Nat /\ CountOf[i] > 0
                      /\ Duration[i] \in Nat /\ x[i] \in Nat
                      /\ Duration[i] = x[i] * CountOf[i]
  BY RowNumbers
<1>3. /\ ZoneSum(OriginRows, CountOf, z) = SumTo(c, n)
      /\ ZoneSum(OriginFailedRows, CountOf, z) = SumTo(e, n)
      /\ ZoneSum(OriginRows, Duration, z) = SumTo(p, n)
  BY DEF ZoneSum
<1>4. \A i \in OriginFailedRows : i \in OriginRows
  <2>1. \A i \in OriginFailedRows : i \in 1..n
    BY DEF OriginFailedRows, Scoped, Rowed
  <2>2. \A i \in OriginFailedRows : answer[i].group.origin \in Nat
    BY <2>1, RowNumbers
  <2>3. \A a \in Nat : a >= 400 => a > 0
    OBVIOUS
  <2> QED  BY <2>2, <2>3 DEF OriginFailedRows, OriginRows
<1>5. \A i \in 1..n : c[i] \in Nat /\ e[i] \in Nat /\ e[i] <= c[i] /\ p[i] \in Nat
  BY <1>2, <1>4
<1>6. \A i \in 1..n : c[i] > 0 <=> i \in R
  BY <1>2
<1>7. \A i \in 1..n : c[i] = 0 => p[i] = 0
  BY <1>2
<1>8. \A i \in 1..n : c[i] > 0 => p[i] = x[i] * c[i]
  BY <1>2
<1> HIDE DEF c, e, p, x, R
<1>9. /\ SumTo(c, n) \in Nat /\ SumTo(e, n) \in Nat /\ SumTo(p, n) \in Nat
      /\ SumTo(e, n) <= SumTo(c, n)
  <2>1. SumTo(c, n) \in Nat /\ SumTo(e, n) \in Nat /\ SumTo(p, n) \in Nat
    BY <1>1, <1>5, SumNat
  <2>2. SumTo(e, n) <= SumTo(c, n)
    BY <1>1, <1>5, SumMonotone
  <2> QED  BY <2>1, <2>2
<1>10. SumTo(c, n) > 0 <=> R # {}
  <2>1. ASSUME R # {}  PROVE SumTo(c, n) > 0
    <3>1. PICK i \in R : i \in 1..n
      BY <2>1 DEF R
    <3>2. c[i] <= SumTo(c, n)
      BY <1>1, <1>5, <3>1, SumTerm
    <3> QED  BY <1>5, <1>6, <1>9, <3>1, <3>2
  <2>2. ASSUME R = {}  PROVE SumTo(c, n) = 0
    <3>1. \A i \in 1..n : c[i] = 0
      BY <1>5, <1>6, <2>2
    <3> QED  BY <1>1, <3>1, SumZero
  <2> QED  BY <2>1, <2>2
<1>11. ASSUME SumTo(c, n) > 0
       PROVE  /\ \E i \in R : answer[i].group.ms * SumTo(c, n) <= SumTo(p, n)
              /\ \E i \in R : answer[i].group.ms * SumTo(c, n) >= SumTo(p, n)
  <2>1. \A i \in 1..n : /\ c[i] \in Nat /\ p[i] \in Int
                        /\ c[i] = 0 => p[i] = 0
                        /\ c[i] > 0 => x[i] \in Int /\ p[i] = x[i] * c[i]
    BY <1>2, <1>5, <1>7, <1>8
  <2>2. /\ \E i \in 1..n : c[i] > 0 /\ x[i] * SumTo(c, n) <= SumTo(p, n)
        /\ \E i \in 1..n : c[i] > 0 /\ x[i] * SumTo(c, n) >= SumTo(p, n)
    BY <1>1, <1>11, <2>1, WeightedMean
  <2>3. \A i \in 1..n : x[i] = answer[i].group.ms
    BY DEF x
  <2> QED  BY <1>6, <2>2, <2>3
<1> QED  BY <1>3, <1>9, <1>10, <1>11 DEF R

\* The origin's error ratio and average duration are about the requests that
\* reached the origin, and lie within what those allow.
THEOREM OriginGaugesSound == Spec => []OriginSideSound
<1>1. AInv => OriginSideSound
  <2> SUFFICES ASSUME AInv, pc = "sent", dataset = "errors"
               PROVE  /\ DOMAIN sent.originErrorRatio = DOMAIN sent.originDuration
                      /\ \A z \in InScope : ~Flagged(z) =>
                            (z \in DOMAIN sent.originErrorRatio <=> Contacted(z) # {})
                      /\ \A z \in DOMAIN sent.originErrorRatio :
                            LET ratio == sent.originErrorRatio[z]
                                mean  == sent.originDuration[z]
                            IN  /\ ratio[1] \in 0..ratio[2]
                                /\ \E g \in Contacted(z) : g.ms * mean[2] <= mean[1]
                                /\ \E g \in Contacted(z) : g.ms * mean[2] >= mean[1]
    BY DEF OriginSideSound
  <2> DEFINE n == Len(answer)
             den == Gathered(OriginRows, ZoneOf, CountOf, n)
             num == Gathered(OriginFailedRows, ZoneOf, CountOf, n)
             time == Gathered(OriginRows, ZoneOf, Duration, n)
             W(z) == ZoneSum(OriginRows, CountOf, z)
             E(z) == ZoneSum(OriginFailedRows, CountOf, z)
             D(z) == ZoneSum(OriginRows, Duration, z)
             R(z) == {i \in 1..n : i \in OriginRows /\ ZoneOf[i] = z}
             K == {k \in DOMAIN den : den[k] > 0}
  <2>1. /\ Rowed /\ HeldInv
        /\ sent.originErrorRatio = Fraction(num, den)
        /\ sent.originDuration = Fraction(time, den)
    BY SentMaps
  <2>2. /\ DOMAIN answer = 1..n
        /\ \A i \in 1..n : /\ answer[i].group \in held /\ ZoneOf[i] = answer[i].group.zone
                           /\ CountOf[i] \in Int /\ Duration[i] \in Int
    BY <2>1, RowNumbers DEF Rowed
  <2>3. ASSUME NEW z
        PROVE  /\ At(num, z) = E(z) /\ At(time, z) = D(z)
               /\ z \in DOMAIN den <=> R(z) # {}
               /\ z \in DOMAIN den => den[z] = W(z)
    <3>1. At(num, z) = E(z)
      BY <2>1, <2>2, AtZone
    <3>2. At(time, z) = D(z)
      BY <2>1, <2>2, AtZone
    <3>3. z \in DOMAIN den <=> \E i \in OriginRows \cap (1..n) : ZoneOf[i] = z
      BY <2>1, <2>2, AtZone
    <3>4. z \in DOMAIN den => den[z] = W(z)
      BY <2>1, <2>2, AtZone
    <3> QED  BY <3>1, <3>2, <3>3, <3>4
  <2>4. ASSUME NEW z
        PROVE  /\ W(z) \in Nat /\ E(z) \in Nat /\ D(z) \in Int /\ E(z) <= W(z)
               /\ W(z) > 0 <=> R(z) # {}
               /\ W(z) > 0 => /\ \E i \in R(z) : answer[i].group.ms * W(z) <= D(z)
                              /\ \E i \in R(z) : answer[i].group.ms * W(z) >= D(z)
    BY <2>1, OriginSums
  <2>5. ASSUME NEW z, NEW i \in R(z)  PROVE answer[i].group \in Contacted(z)
    BY <2>2 DEF Contacted, OfZone, OriginRows
  <2>6. ASSUME NEW z \in InScope, ~ Flagged(z), NEW g \in Contacted(z)  PROVE R(z) # {}
    <3>1. g \in held /\ g.zone = z /\ g.origin > 0
      BY DEF Contacted, OfZone
    <3>2. PICK i \in 1..n : answer[i].group = g
      BY <2>6, <3>1, NothingCut
    <3>3. i \in R(z)
      BY <2>2, <3>1, <3>2 DEF OriginRows, Scoped
    <3> QED  BY <3>3
  <2> HIDE DEF W, E, D, R
  <2>7. /\ DOMAIN sent.originErrorRatio = K /\ DOMAIN sent.originDuration = K
        /\ \A z \in K : /\ sent.originErrorRatio[z] = <<At(num, z), den[z]>>
                        /\ sent.originDuration[z] = <<At(time, z), den[z]>>
    BY <2>1 DEF Fraction
  <2> HIDE DEF den, num, time
  <2>8. \A z : z \in K <=> R(z) # {}
    BY <2>3, <2>4
  <2>9. ASSUME NEW z \in InScope, ~ Flagged(z)
        PROVE  z \in DOMAIN sent.originErrorRatio <=> Contacted(z) # {}
    BY <2>5, <2>6, <2>7, <2>8, <2>9
  <2>10. ASSUME NEW z \in K
         PROVE  LET ratio == sent.originErrorRatio[z]
                    mean  == sent.originDuration[z]
                IN  /\ ratio[1] \in 0..ratio[2]
                    /\ \E g \in Contacted(z) : g.ms * mean[2] <= mean[1]
                    /\ \E g \in Contacted(z) : g.ms * mean[2] >= mean[1]
    <3>1. z \in DOMAIN den /\ R(z) # {}
      BY <2>8
    <3>2. /\ sent.originErrorRatio[z] = <<E(z), W(z)>> /\ sent.originDuration[z] = <<D(z), W(z)>>
      BY <2>3, <2>7, <3>1
    <3>3. E(z) \in 0..W(z)
      BY <2>4
    <3>4. /\ \E i \in R(z) : answer[i].group.ms * W(z) <= D(z)
          /\ \E i \in R(z) : answer[i].group.ms * W(z) >= D(z)
      BY <2>4, <3>1
    <3>5. /\ \E g \in Contacted(z) : g.ms * W(z) <= D(z)
          /\ \E g \in Contacted(z) : g.ms * W(z) >= D(z)
      BY <2>5, <3>4
    <3> QED  BY <3>2, <3>3, <3>5
  <2> QED  BY <2>7, <2>9, <2>10
<1> QED  BY <1>1, AdaptiveInvariance, PTL
=============================================================================
