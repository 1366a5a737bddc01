-------------------------- MODULE ZoneHttpMetrics --------------------------
(***************************************************************************)
(* From the httpRequests1mGroups answer of one account to the gauges of    *)
(* its zones: FetchHTTPMetrics folds the minute buckets of each zone into  *)
(* one group with mergeGroup, emitZoneMetrics sums each breakdown of the   *)
(* group by label and sends the gauges.                                    *)
(*                                                                         *)
(* A name may occur several times in a bucket, as Cloudflare groups by a   *)
(* finer dimension than it reports.  The breakdowns differ in whether a    *)
(* zero is sent; one of each kind stands for the others: status and        *)
(* country are always sent, threats by country and browsers only above     *)
(* zero.  Requests and cached requests stand for all the additive totals.  *)
(*                                                                         *)
(* The query may fail in every way GraphQL.tla knows; then httpErr is set. *)
(***************************************************************************)
EXTENDS Integers, Sequences, FiniteSets, SequencesExt, Sums, GraphQL

CONSTANTS
    Zones,      \* zones the answer may list
    InScope,    \* the keys of zoneByID
    Minutes,    \* the buckets a zone may have had
    QueryLimit, \* Options.QueryLimit
    MaxBuckets  \* bound on the buckets a zone has in the window

\* What the service guarantees of a bucket: its breakdown by status accounts
\* for each request once, and the cached requests are a part of them.  Its
\* counts are natural numbers (as float64, the code keeps them exactly up to
\* 2^53).  The query is only made for an account with zones, and the answer is
\* about zones that were asked for or others.
ASSUME BucketAssumption ==
    /\ QueryLimit \in Nat \ {0} /\ MaxBuckets \in Nat
    /\ Zones # {} /\ InScope \subseteq Zones
    /\ \A m \in Minutes :
          /\ m.requests \in Nat /\ m.cached \in 0..m.requests
          /\ IsFiniteSet(m.visitors)
          /\ m.status \in Seq([name : Int, requests : Nat])
          /\ m.country \in Seq([name : STRING, requests : Nat, threats : Nat])
          /\ m.browser \in Seq([name : STRING, views : Nat])
          /\ SumTo([i \in DOMAIN m.status |-> m.status[i].requests], Len(m.status))
                = m.requests

VARIABLES
    held,  \* [Zones -> the buckets of the window, in the order answered]
    reply, \* what the API replied
    err,   \* FetchHTTPMetrics returned an error
    todo,  \* zones of the answer not yet handled
    zone,  \* the zone handled, while pc is "merge"
    rest,  \* its buckets not yet merged
    group, \* ZoneHTTPMetrics.Group
    pc,    \* "fetch", "next", "merge" or "done"
    sent   \* the series sent on the channel, in order

vars == <<held, reply, err, todo, zone, rest, group, pc, sent>>

-----------------------------------------------------------------------------
(* analytics.go *)

\* The zero value of httpRequests1mGroup; the model also keeps the visitors.
NoGroup == [requests |-> 0, cached |-> 0, uniques |-> 0,
            status |-> << >>, country |-> << >>, browser |-> << >>]

\* As answered, a bucket has the number of its visitors only.
AsGroup(m) == [NoGroup EXCEPT !.requests = m.requests, !.cached = m.cached,
                              !.uniques = Cardinality(m.visitors), !.status = m.status,
                              !.country = m.country, !.browser = m.browser]

\* Variant: the country rows of the later bucket replace those of the earlier.
mergeGroupReplaces(a, b) ==
    [requests |-> a.requests + b.requests, cached |-> a.cached + b.cached,
     uniques |-> a.uniques + b.uniques, status |-> a.status \o b.status,
     country |-> b.country, browser |-> a.browser \o b.browser]

\* Variant: Requests is not among the summed totals.
mergeGroupForgets(a, b) ==
    [requests |-> b.requests, cached |-> a.cached + b.cached,
     uniques |-> a.uniques + b.uniques, status |-> a.status \o b.status,
     country |-> a.country \o b.country, browser |-> a.browser \o b.browser]

mergeGroup(a, b) ==
    [requests |-> a.requests + b.requests,
     cached   |-> a.cached + b.cached,
     uniques  |-> a.uniques + b.uniques,
     status   |-> a.status \o b.status,
     country  |-> a.country \o b.country,
     browser  |-> a.browser \o b.browser]

-----------------------------------------------------------------------------
(* collector.go *)

\* The sum of a field over the rows of a breakdown with name n.
SumNamed(rows, n, field) ==
    SumTo([i \in DOMAIN rows |-> IF rows[i].name = n THEN rows[i][field] ELSE 0], Len(rows))

\* sums[row.name] += row[field], over the rows of a breakdown.
SumBy(rows, field) ==
    [n \in {rows[i].name : i \in DOMAIN rows} |-> SumNamed(rows, n, field)]

Gauge(z, metric, label, value) ==
    [zone |-> z, metric |-> metric, label |-> label, value |-> value]

\* One gauge per label value, in whatever order the map is walked.
EmitMap(z, metric, sums) ==
    [i \in DOMAIN SetToSeq(DOMAIN sums) |->
        Gauge(z, metric, SetToSeq(DOMAIN sums)[i], sums[SetToSeq(DOMAIN sums)[i]])]

\* emitNonZero
EmitNonZero(z, metric, sums) ==
    EmitMap(z, metric, [n \in {k \in DOMAIN sums : sums[k] > 0} |-> sums[n]])

EdgeErrors(g) ==
    SumTo([i \in DOMAIN g.status |->
              IF g.status[i].name >= 400 THEN g.status[i].requests ELSE 0], Len(g.status))

\* The fractions, kept as pairs, are only sent when there were requests.
Ratios(z, g) ==
    IF g.requests > 0
    THEN <<Gauge(z, "cache_hit_ratio", "", <<g.cached, g.requests>>),
           Gauge(z, "error_ratio", "edge", <<EdgeErrors(g), g.requests>>)>>
    ELSE << >>

\* Variant: one gauge per row of the status map, not per status.
emitZoneMetricsByRow(z, g) ==
    <<Gauge(z, "requests", "", g.requests)>>
    \o [i \in DOMAIN g.status |->
           Gauge(z, "requests_status", g.status[i].name, g.status[i].requests)]

emitZoneMetrics(z, g) ==
    <<Gauge(z, "requests", "", g.requests),
      Gauge(z, "requests_cached", "", g.cached),
      Gauge(z, "uniques", "", g.uniques)>>
    \o Ratios(z, g)
    \o EmitMap(z, "requests_status", SumBy(g.status, "requests"))
    \o EmitMap(z, "requests_country", SumBy(g.country, "requests"))
    \o EmitNonZero(z, "threats_country", SumBy(g.country, "threats"))
    \o EmitNonZero(z, "browser_page_views", SumBy(g.browser, "views"))

-----------------------------------------------------------------------------

Init ==
    /\ held \in [Zones -> BoundedSeq(Minutes, MaxBuckets)]
    /\ reply \in Replies(Zones) /\ err = FALSE
    /\ todo = {} /\ zone = CHOOSE z \in Zones : TRUE
    /\ rest = << >> /\ group = NoGroup
    /\ pc = "fetch" /\ sent = << >>

\* One query for all zones, and none without zone IDs; a failed one gives
\* nothing to go through.
Fetch ==
    /\ pc = "fetch"
    /\ err' = (InScope # {} /\ QueryFails(reply))
    /\ todo' = IF InScope = {} \/ QueryFails(reply) THEN {} ELSE Decoded(reply)
    /\ pc' = "next"
    /\ UNCHANGED <<held, reply, zone, rest, group, sent>>

\* The buckets of a zone in the answer: all of them, or as many as the limit.
Answered(z) == IF Len(held[z]) < QueryLimit THEN Len(held[z]) ELSE QueryLimit

\* Take up a zone of the answer.
NextZone ==
    /\ pc = "next"
    /\ \E z \in todo :
         /\ zone' = z /\ todo' = todo \ {z}
         /\ rest' = [i \in 1..Answered(z) |-> held[z][i]]
    /\ group' = NoGroup
    /\ pc' = "merge"
    /\ UNCHANGED <<held, reply, err, sent>>

Merge ==
    /\ pc = "merge" /\ rest # << >>
    /\ group' = mergeGroup(group, AsGroup(Head(rest)))
    /\ rest' = Tail(rest)
    /\ UNCHANGED <<held, reply, err, todo, zone, pc, sent>>

\* Variant: zoneByID is not consulted.
EmitAnyZone ==
    /\ pc = "merge" /\ rest = << >>
    /\ sent' = IF held[zone] # << >> THEN sent \o emitZoneMetrics(zone, group) ELSE sent
    /\ pc' = "next"
    /\ UNCHANGED <<held, reply, err, todo, zone, rest, group>>

\* Without a bucket HasData is false; a zone out of scope is skipped.
Emit ==
    /\ pc = "merge" /\ rest = << >>
    /\ sent' = IF held[zone] # << >> /\ zone \in InScope
               THEN sent \o emitZoneMetrics(zone, group) ELSE sent
    /\ pc' = "next"
    /\ UNCHANGED <<held, reply, err, todo, zone, rest, group>>

Finish ==
    /\ pc = "next" /\ todo = {}
    /\ pc' = "done"
    /\ UNCHANGED <<held, reply, err, todo, zone, rest, group, sent>>

\* The HTTP goroutine has returned.
Done == pc = "done" /\ UNCHANGED vars

Next == Fetch \/ NextZone \/ Merge \/ Emit \/ Finish \/ Done

Spec == Init /\ [][Next]_vars

-----------------------------------------------------------------------------
(* Properties *)

\* The value of a series, 0 when it was not sent.
Value(z, metric, label) ==
    LET found == {i \in DOMAIN sent : /\ sent[i].zone = z /\ sent[i].metric = metric
                                      /\ sent[i].label = label}
    IN  IF found = {} THEN 0 ELSE sent[CHOOSE i \in found : TRUE].value

Sent(z, metric, label) ==
    \E i \in DOMAIN sent :
        sent[i].zone = z /\ sent[i].metric = metric /\ sent[i].label = label

\* What the first k buckets of the window held for a zone, independent of any
\* merging: the sum of a field over all rows of a breakdown with a name.
Held(z, k, breakdown, n, field) ==
    SumTo([i \in DOMAIN held[z] |-> SumNamed(held[z][i][breakdown], n, field)], k)

NamesOf(breakdown) ==
    UNION {{m[breakdown][k].name : k \in DOMAIN m[breakdown]} : m \in Minutes}

\* The reply had no errors and came with its data.
Whole == ~err /\ reply.data # "null"

\* Types of the variables, and the bounds the code keeps.
TypeOK ==
    /\ pc \in {"fetch", "next", "merge", "done"}
    /\ todo \subseteq Zones /\ zone \in Zones
    /\ reply \in Replies(Zones) /\ err \in BOOLEAN
    /\ Len(rest) <= QueryLimit
    /\ group.cached \in 0..group.requests
    /\ \A i \in DOMAIN sent : sent[i].zone \in InScope

\* Either the call is reported failed and none of its answer is published, the
\* part of it that errors left included, or each zone in scope with traffic is
\* published: no zone is silently missing (graphql.go:75-80).  An answer without
\* data is the exception that the code takes for no traffic.
AllOrNothing ==
    pc = "done" =>
       /\ err => sent = << >>
       /\ ~err /\ reply.data # "null" =>
             \A z \in InScope : held[z] # << >> => Sent(z, "requests", "")

\* No series is sent twice although names repeat within and across buckets:
\* the registry would reject the whole scrape (collector.go:802-807).
NoDuplicateLabels ==
    \A i, k \in DOMAIN sent :
       /\ sent[i].zone = sent[k].zone /\ sent[i].metric = sent[k].metric
       /\ sent[i].label = sent[k].label
       => i = k

\* The gauges of a zone are the sums over the first k buckets of its window; the
\* unique visitors, which do not add up, are at least as many.
SumsBuckets(z, k) ==
    /\ Value(z, "requests", "") = SumTo([i \in DOMAIN held[z] |-> held[z][i].requests], k)
    /\ \A n \in NamesOf("status") :
          Value(z, "requests_status", n) = Held(z, k, "status", n, "requests")
    /\ \A n \in NamesOf("country") :
          /\ Value(z, "requests_country", n) = Held(z, k, "country", n, "requests")
          /\ Value(z, "threats_country", n) = Held(z, k, "country", n, "threats")
    /\ \A n \in NamesOf("browser") :
          Value(z, "browser_page_views", n) = Held(z, k, "browser", n, "views")
    /\ Value(z, "uniques", "") >= Cardinality(UNION {held[z][i].visitors : i \in 1..k})

\* However many buckets a window has, the gauges are the sums over all of them
\* (analytics.go:149-151; README.md:100-102 wrongly says that there is at most
\* one), and if they are more than the limit, over as many whole buckets as the
\* limit: no bucket is dropped, taken twice or taken in part.  The unique visitors
\* are never too low (the comment on mergeGroup, analytics.go:158-160).
WindowSummed ==
    pc = "done" =>
       \A z \in InScope : Whole /\ held[z] # << >> =>
          IF Len(held[z]) <= QueryLimit THEN SumsBuckets(z, Len(held[z]))
                                        ELSE SumsBuckets(z, QueryLimit)

\* The sum over the series of one metric sent for a zone.
SumSent(z, metric) ==
    SumTo([i \in DOMAIN sent |->
              IF sent[i].zone = z /\ sent[i].metric = metric THEN sent[i].value ELSE 0],
          Len(sent))

\* The ratios are fractions of the requests, sent exactly when there were any,
\* and the status series sent partition the requests of whatever was answered.
RatiosSound ==
    pc = "done" =>
       \A z \in Zones \cap InScope : Whole /\ held[z] # << >> =>
          LET requests == Value(z, "requests", "") IN
            /\ Sent(z, "error_ratio", "edge") <=> requests > 0
            /\ Sent(z, "cache_hit_ratio", "") <=> requests > 0
            /\ requests > 0 =>
                  LET ratio == Value(z, "error_ratio", "edge")
                      hits  == Value(z, "cache_hit_ratio", "")
                  IN  /\ ratio[1] \in 0..ratio[2] /\ hits[1] \in 0..hits[2]
                      /\ ratio[2] = requests
            /\ SumSent(z, "requests_status") = requests
=============================================================================
