-------------------------- MODULE AdaptiveMetrics --------------------------
(***************************************************************************)
(* From one answer of an adaptively sampled dataset to the gauges of an    *)
(* account: FetchErrorMetrics, FetchWAFMetrics and FetchDNSMetrics decode  *)
(* and scale the rows, emitErrorMetrics, emitWAFMetrics and emitDNSMetrics *)
(* sum them per zone and per label, row by row, and send the gauges.       *)
(*                                                                         *)
(* The service holds a set of groups for the queried zones.  Its answer    *)
(* lists them in any order and is cut at the query limit without saying    *)
(* so: per zone for the errors and WAF datasets, for the account as a      *)
(* whole for DNS, which also answers with rows of zones nobody asked for.  *)
(***************************************************************************)
EXTENDS Integers, Sequences, FiniteSets, SequencesExt, Sums

CONSTANTS
    InScope,     \* the keys of zoneByID
    Datasets,    \* the datasets explored, among "errors", "waf" and "dns"
    Groups,      \* [Datasets -> the groups the service may hold]
    QueryLimit,  \* Options.QueryLimit
    MaxGroups    \* bound on the groups held at once

\* A group has a zone, a label per breakdown dimension (host and WAF class of
\* the errors dataset, action and source of the WAF one, query type and
\* response code of DNS; the other dimensions are treated alike), the number
\* of sampled records and their average sample interval.  Groups of the errors
\* dataset also have the edge and origin status and the average duration.
MinRawSamplesForConfidence == 10

\* The groups of a dataset have the same dimensions, and natural numbers.
ASSUME InputAssumption ==
    /\ QueryLimit \in Nat \ {0} /\ MaxGroups \in Nat
    /\ Datasets \subseteq {"errors", "waf", "dns"}
    /\ \A d \in Datasets : \A g, h \in Groups[d] : DOMAIN g.labels = DOMAIN h.labels
    /\ \A d \in Datasets : \A g \in Groups[d] :
          /\ g.count \in Nat \ {0} /\ g.interval \in Nat
          /\ d = "errors" => g.edge \in Nat /\ g.origin \in Nat /\ g.ms \in Nat

VARIABLES
    dataset,  \* which of the three answers is handled
    held,     \* the groups the service holds
    answer,   \* the decoded rows
    next,     \* the row the loop of the emit function comes to next
    pc,       \* "fetch", "sum" or "sent"
    sums,     \* the accumulators of the emit function, by name
    unmatched,\* DNS rows of zones out of scope
    sent      \* the gauges sent, by metric

vars == <<dataset, held, answer, next, pc, sums, unmatched, sent>>

-----------------------------------------------------------------------------
(* Decoding: sampling.go and the Fetch functions *)

EstimatedCount(count, interval) == IF interval <= 0 THEN count ELSE count * interval

LowConfidence(count, interval) == interval > 1 /\ count < MinRawSamplesForConfidence

\* Only FetchErrorMetrics keeps a row with few records unscaled.
Decode(d, g) ==
    LET low == d = "errors" /\ LowConfidence(g.count, g.interval)
    IN  [group |-> g, low |-> low,
         count |-> EstimatedCount(g.count, IF low THEN 1 ELSE g.interval)]

\* The groups an answer may hold: all of them, or as many as the limit.
CutAt(limit, S) ==
    {c \in SUBSET S : Cardinality(c) = IF Cardinality(S) < limit THEN Cardinality(S) ELSE limit}

OfZone(S, z) == {g \in S : g.zone = z}

Answers(d, S) ==
    IF d = "dns" THEN CutAt(QueryLimit, S)
    ELSE {c \in SUBSET S : \A z \in {g.zone : g \in S} :
            OfZone(c, z) \in CutAt(QueryLimit, OfZone(S, z))}

-----------------------------------------------------------------------------
(* Summing: the loops of the emit functions *)

EmptyMap == [k \in {} |-> 0]

\* m[k] += v for a Go map, where an absent key reads as zero.
Bump(m, k, v) ==
    [x \in DOMAIN m \cup {k} |-> (IF x \in DOMAIN m THEN m[x] ELSE 0) + (IF x = k THEN v ELSE 0)]

\* Variant: the breakdowns sum the sampled records, not the estimate.
AddBreakdownsRaw(by, r) ==
    [d \in DOMAIN r.group.labels |->
        Bump(IF d \in DOMAIN by THEN by[d] ELSE EmptyMap,
             <<r.group.zone, r.group.labels[d]>>, r.group.count)]

\* One row of an in-scope zone; by[d] is the map of breakdown dimension d.
AddBreakdowns(by, r) ==
    [d \in DOMAIN r.group.labels |->
        Bump(IF d \in DOMAIN by THEN by[d] ELSE EmptyMap,
             <<r.group.zone, r.group.labels[d]>>, r.count)]

\* Variant: rows with origin status 0 count as origin successes.
AddOriginAlways(s, r) ==
    [s EXCEPT
        !.originTotal = Bump(@, r.group.zone, r.count),
        !.originErrors = IF r.group.origin >= 400
                         THEN Bump(@, r.group.zone, r.count) ELSE @,
        !.durationWeightedSum = Bump(@, r.group.zone, r.group.ms * r.count),
        !.durationWeightedCount = Bump(@, r.group.zone, r.count)]

\* The origin's side only sees rows whose request reached the origin.
AddOrigin(s, r) ==
    IF r.group.origin > 0
    THEN [s EXCEPT
            !.originTotal = Bump(@, r.group.zone, r.count),
            !.originErrors = IF r.group.origin >= 400
                             THEN Bump(@, r.group.zone, r.count) ELSE @,
            !.durationWeightedSum = Bump(@, r.group.zone, r.group.ms * r.count),
            !.durationWeightedCount = Bump(@, r.group.zone, r.count)]
    ELSE s

AddErrorRow(s, r) ==
    AddOrigin(
      [s EXCEPT
         !.rowCount = Bump(@, r.group.zone, 1),
         !.by = AddBreakdowns(@, r),
         !.lowConfidenceRows = IF r.low THEN Bump(@, r.group.zone, 1) ELSE @,
         !.customerErrors = IF r.group.edge >= 400
                            THEN Bump(@, <<r.group.zone, r.group.edge>>, r.count) ELSE @],
      r)

AddWafRow(s, r) ==
    [s EXCEPT !.totals = Bump(@, r.group.zone, r.count),
              !.rowCount = Bump(@, r.group.zone, 1),
              !.by = AddBreakdowns(@, r)]

AddDnsRow(s, r) ==
    [s EXCEPT !.totals = Bump(@, r.group.zone, r.count),
              !.by = AddBreakdowns(@, r)]

AddRow(d, s, r) ==
    CASE d = "errors" -> AddErrorRow(s, r)
      [] d = "waf"    -> AddWafRow(s, r)
      [] d = "dns"    -> AddDnsRow(s, r)

-----------------------------------------------------------------------------
(* Sending *)

At(m, k) == IF k \in DOMAIN m THEN m[k] ELSE 0

\* Variant: a zone is flagged only above the limit, which no answer exceeds.
ZoneTruncatedLate(s) ==
    [z \in InScope |-> IF At(s.rowCount, z) > QueryLimit THEN 1 ELSE 0]

\* Zone gauges: WAF and errors flag each zone whose own rows hit the limit.
ZoneTruncated(s) ==
    [z \in InScope |-> IF At(s.rowCount, z) > 0 /\ At(s.rowCount, z) >= QueryLimit
                       THEN 1 ELSE 0]

\* DNS flags the account: the limit counts every row, in scope or not.
AccountTruncated(n) == [a \in {"account"} |-> IF n > 0 /\ n >= QueryLimit THEN 1 ELSE 0]

\* A fraction is kept as a pair; it is sent only when its weight is positive.
Fraction(num, den) ==
    [z \in {k \in DOMAIN den : den[k] > 0} |-> <<At(num, z), den[z]>>]

Gauges(d, s, n) ==
    [truncated |-> IF d = "dns" THEN AccountTruncated(n) ELSE ZoneTruncated(s),
     totals |-> s.totals,
     by |-> s.by,
     lowConfidence |-> IF d = "errors" THEN [z \in InScope |-> At(s.lowConfidenceRows, z)]
                       ELSE EmptyMap,
     customerErrors |-> s.customerErrors,
     originErrorRatio |-> Fraction(s.originErrors, s.originTotal),
     originDuration |-> Fraction(s.durationWeightedSum, s.durationWeightedCount)]

-----------------------------------------------------------------------------

NoSums ==
    [totals |-> EmptyMap, rowCount |-> EmptyMap, by |-> EmptyMap,
     lowConfidenceRows |-> EmptyMap, customerErrors |-> EmptyMap,
     originTotal |-> EmptyMap, originErrors |-> EmptyMap,
     durationWeightedSum |-> EmptyMap, durationWeightedCount |-> EmptyMap]

Init ==
    /\ dataset \in Datasets
    /\ held \in {S \in SUBSET Groups[dataset] : IsFiniteSet(S) /\ Cardinality(S) <= MaxGroups}
    /\ answer = << >> /\ next = 1 /\ pc = "fetch"
    /\ sums = NoSums /\ unmatched = {} /\ sent = Gauges(dataset, NoSums, 0)

\* The call returns the rows of some answer, in some order, decoded.
Fetch ==
    /\ pc = "fetch" /\ pc' = "sum"
    /\ \E groups \in Answers(dataset, held) :
         \E order \in SetToSeqs(groups) :
            answer' = [i \in DOMAIN order |-> Decode(dataset, order[i])]
    /\ UNCHANGED <<dataset, held, next, sums, unmatched, sent>>

\* Variant: rows of zones out of scope are skipped without being kept.
SumForgets ==
    /\ pc = "sum" /\ next <= Len(answer)
    /\ LET r == answer[next] IN
         sums' = IF r.group.zone \in InScope THEN AddRow(dataset, sums, r) ELSE sums
    /\ next' = next + 1
    /\ UNCHANGED <<dataset, held, answer, pc, unmatched, sent>>

\* Variant: every dataset keeps them, and DNS keeps all its rows.
SumKeepsAll ==
    /\ pc = "sum" /\ next <= Len(answer)
    /\ LET r == answer[next] IN
         /\ sums' = IF r.group.zone \in InScope THEN AddRow(dataset, sums, r) ELSE sums
         /\ unmatched' = unmatched \cup {r}
    /\ next' = next + 1
    /\ UNCHANGED <<dataset, held, answer, pc, sent>>

\* One turn of the loop; a row of a zone out of scope is skipped, and kept by
\* emitDNSMetrics.
Sum ==
    /\ pc = "sum" /\ next <= Len(answer)
    /\ LET r == answer[next] IN
         IF r.group.zone \in InScope
         THEN sums' = AddRow(dataset, sums, r) /\ UNCHANGED unmatched
         ELSE /\ unmatched' = IF dataset = "dns" THEN unmatched \cup {r} ELSE unmatched
              /\ UNCHANGED sums
    /\ next' = next + 1
    /\ UNCHANGED <<dataset, held, answer, pc, sent>>

Send ==
    /\ pc = "sum" /\ next > Len(answer)
    /\ sent' = Gauges(dataset, sums, Len(answer))
    /\ pc' = "sent"
    /\ UNCHANGED <<dataset, held, answer, next, sums, unmatched>>

\* The emit function has returned.
Done == pc = "sent" /\ UNCHANGED vars

Next == Fetch \/ Sum \/ Send \/ Done

Spec == Init /\ [][Next]_vars

-----------------------------------------------------------------------------
(* Properties *)

\* What the service's own dashboard would show for a set of groups.
FullEstimate(S) ==
    SumOver([g \in S |-> IF g.interval = 0 THEN g.count ELSE g.count * g.interval], S)

\* The entries of zone z among the keys <<zone, label>> of a map.
ZoneTotal(m, z) == SumOver(m, {k \in DOMAIN m : k[1] = z})

\* What was published for zone z by breakdown dimension d.
Published(z, d) == ZoneTotal(sent.by[d], z)

Flagged(z) ==
    IF dataset = "dns" THEN sent.truncated["account"] = 1 ELSE sent.truncated[z] = 1

\* Types of the variables, and the bounds the code keeps.
TypeOK ==
    /\ dataset \in Datasets /\ pc \in {"fetch", "sum", "sent"}
    /\ held \subseteq Groups[dataset]
    /\ Len(answer) <= MaxGroups /\ next \in 1..(Len(answer) + 1)
    /\ \A i \in DOMAIN answer : answer[i].group \in held
    /\ unmatched = {} \/ dataset = "dns"

\* A zone's breakdown never differs from the full estimate of what the service
\* holds without a gauge that says so: the truncation gauge of the zone (of
\* the account, for DNS) or its count of unscaled rows (README.md:204-217).
UndercountIsFlagged ==
    pc = "sent" =>
       \A d \in DOMAIN sent.by, z \in InScope :
          Published(z, d) # FullEstimate(OfZone(held, z)) =>
             Flagged(z) \/ (dataset = "errors" /\ sent.lowConfidence[z] > 0)

\* All breakdowns of a zone sum to the same total, the zone's own where there
\* is one, and its customer errors are a part of it.
BreakdownsAgree ==
    pc = "sent" =>
       \A d \in DOMAIN sent.by, z \in InScope :
          /\ \A e \in DOMAIN sent.by : Published(z, d) = Published(z, e)
          /\ dataset # "errors" => Published(z, d) = At(sent.totals, z)
          /\ ZoneTotal(sent.customerErrors, z) <= Published(z, d)

\* The groups of zone z whose requests reached the origin.
Contacted(z) == {g \in OfZone(held, z) : g.origin > 0}

\* The origin's error ratio and average duration are about the requests that
\* reached the origin and only those (README.md:184-190): both are sent when
\* there are any, the ratio is at most one, the average lies within the range of
\* the groups it averages.
OriginSideSound ==
    pc = "sent" /\ dataset = "errors" =>
       /\ DOMAIN sent.originErrorRatio = DOMAIN sent.originDuration
       /\ \A z \in InScope : ~Flagged(z) =>
             (z \in DOMAIN sent.originErrorRatio <=> Contacted(z) # {})
       /\ \A z \in DOMAIN sent.originErrorRatio :
             LET ratio == sent.originErrorRatio[z]
                 mean  == sent.originDuration[z]
             IN  /\ ratio[1] \in 0..ratio[2]
                 /\ \E g \in Contacted(z) : g.ms * mean[2] <= mean[1]
                 /\ \E g \in Contacted(z) : g.ms * mean[2] >= mean[1]

\* Every DNS row counts either towards its zone or as an unmatched row, and
\* the two together miss nothing unless the account is flagged.
DnsRowsAccounted ==
    pc = "sent" /\ dataset = "dns" =>
       LET counted == SumOver(sent.totals, DOMAIN sent.totals)
           skipped == SumOver([r \in unmatched |-> r.count], unmatched)
       IN  /\ \A r \in unmatched : r.group.zone \notin InScope
           /\ counted + skipped # FullEstimate(held) => sent.truncated["account"] = 1

\* "A row carrying fewer than 10 records is not scaled at all" (README.md:211,
\* on the WAF, DNS and errors datasets).
SmallRowsUnscaled ==
    pc = "sent" =>
       \A d \in DOMAIN sent.by, z \in InScope :
          Published(z, d) <=
             SumOver([g \in held |-> IF g.count < MinRawSamplesForConfidence \/ g.interval = 0
                                     THEN g.count ELSE g.count * g.interval], OfZone(held, z))
=============================================================================
