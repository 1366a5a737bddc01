# A verification of cloudflare-prometheus-exporter-go

TLA+ modules, TLC configurations and TLAPS proofs about the exporter under
`src/`.  The exporter answers each Prometheus scrape of `/metrics` by running
all its discovery jobs against the Cloudflare API and sending what it learns as
metrics; it keeps no cache and no background loop, so the interesting behaviour
is within one scrape (concurrent goroutines over shared state, calls that fail
or never answer, a deadline), in how successive scrapes' time windows fit
together, and in how scrapes overlap one another and the end of the process.

- [The system](#the-system): components, state, operations, what is hard
- [The modules](#the-modules): which module models which part, and how
- [The runs](#the-runs): what TLC checks, on which instances, and why those
- [Fairness](#fairness)
- [What is proved](#what-is-proved)
- [Findings](#findings)
- [What is not modelled](#what-is-not-modelled)
- [Plan](#plan)

## The system

| Component | Source | State it keeps | Operations |
|---|---|---|---|
| Collector, one scrape | `internal/collector/collector.go` | per scrape: `zonesByAccount`, `emitted`, `dns` (`type scrape`); per job: `seen`, `sem`, `failed`, `firstErr`; per account goroutine: zones, tags, `zoneByID`, four results; across scrapes: the counters `scrapeErrors`, `apiErrors` and the gauge `jobSuccess` | `Collect`, `collectJob`, `collectAccount`, `zonesFor`, `setZonesFor`, `claimZones`, `dnsState`, `fetchTimed` |
| Adaptive metrics | `cloudflareapi/{errorrate,waf,dns,sampling}.go`, `emitErrorMetrics`, `emitWAFMetrics`, `emitDNSMetrics` | maps built while one answer is summed | decode and scale a row, sum it per zone and per label, send the gauges |
| HTTP zone metrics | `cloudflareapi/analytics.go`, `emitZoneMetrics`, `emitNonZero` | the group the minute buckets of a zone are folded into | `FetchHTTPMetrics`, `mergeGroup`, `emitZoneMetrics` |
| Analytics window | `Collect` (collector.go:339-342), the filters of the four queries | none between scrapes | compute, render and apply `[now-lag-window, now-lag)` |
| Cloudflare API client | `cloudflareapi/{client,graphql}.go` | the HTTP client | list accounts, list zones, tags of zones, GraphQL query |
| Configuration | `internal/config/config.go` | none after `Load` | defaults, validation, `resolveMetricGroups` |
| Process and HTTP server | `cmd/exporter/main.go` | server, error channel, signal context | flags, serve, shut down |
| Descriptors, deployment | `New`, `Describe`, `charts/`, `config.example.yaml` | none | - |

How they interact.  `main` builds one `Collector` from flags and configuration
and registers it; every HTTP request for `/metrics` makes the registry call
`Collect`, which runs the jobs in config order.  Within a job, one goroutine
per distinct account is admitted through the buffered channel `sem`; within an
account the enabled analytics calls run in a goroutine each.  The goroutines
share the `scrape` value under a mutex, except for the fields of the per-account
DNS state, and they write to the registry's channel `ch`.  The registry rejects
a whole scrape in which two series are equal.

What makes each component correct, and what makes that hard:

- **One scrape.**  Jobs may overlap, accounts may be configured twice, a listing
  may repeat an entry or change between requests, tags may change between two
  jobs: still no series is sent twice, each zone belongs to the first job that
  selects it, a job that failed says so, a job that succeeded left nothing out
  silently, what one job learnt about DNS is not undone by another, no more than
  `accountConcurrency` accounts run at once, with a concurrency of 1 the job is
  serial and fail-fast, the unlocked DNS state has one holder at a time, and the
  scrape ends even if the service never answers.
- **Adaptive metrics.**  An answer is cut at `-query-limit` without saying so
  and every row is an estimate: what is published must be complete or flagged,
  all breakdowns of a zone must agree, and what never reached the origin must
  stay out of the origin's figures.
- **HTTP zone metrics.**  A reply may carry errors beside data, or no data:
  what fails must publish nothing.  Names repeat within and across buckets: the
  gauges must be sums over the window and no label may occur twice.
- **Window.**  Scrapes come at any offset in the minute, with jitter, and both
  ends are cut to whole seconds: no minute may be skipped or counted twice.
- **Zone discovery** (API client).  Zones and tags are listed page by page while
  they change on the other side, and filters are evaluated by the service: a
  zone selected must have matched every filter, and one that was there and
  matching all along must not get lost.
- **Time budget of a scrape.**  All jobs, accounts and calls share one deadline,
  only the analytics calls have timeouts of their own, and calls may hang: the
  scrape must end in time, and a slow call should cost only what depends on it.
- **Configuration.**  The file is decoded over defaults and validated as a
  whole: what is accepted must be what the rest relies on, whoever set it.
- **Process.**  A signal, a listen error and scrapes in flight race; clients
  give up while their scrape runs on; overlapping scrapes share `job_success`:
  the exit status must tell the cause, the grace period must be honoured, the
  process must not stay up without serving, and a response must not carry a
  stale result.

`PROJECT.json` lists the hazards at the lines where they bite, with the
properties that cover each.

## The modules

| Module | Role |
|---|---|
| `Collector` | one call of `Collect` |
| `ScrapeLedger` | what one scrape promises; `Collector` implements it |
| `ScrapeBudget` | one call of `Collect` with a clock: how its time is spent |
| `AdaptiveMetrics` | one answer of the errors, WAF or DNS dataset to gauges |
| `ZoneHttpMetrics` | one `httpRequests1mGroups` answer to gauges |
| `GraphQL` | when a reply of the analytics API counts as an answer; used by `ZoneHttpMetrics` |
| `Sums` | sums over the rows of an answer; used by `AdaptiveMetrics`, `ZoneHttpMetrics`, `Discovery` and `ScrapeBudget` |
| `AnalyticsWindow` | the windows of successive scrapes |
| `Discovery` | an account's zones and tags, page by page, up to the zones selected |
| `ConfigLoad` | `config.Load`; used by `Exporter` |
| `Exporter` | the process: flags, configuration, server, signals, scrapes in flight |
| `MC...` | values of the constants for TLC, one module per model |
| `CollectorProofs`, `AdaptiveMetricsProofs`, `ZoneHttpMetricsProofs`, `DiscoveryProofs`, `ScrapeBudgetProofs`, `AnalyticsWindowProofs`, `ExporterProofs` | theorems and proofs |
| `SumTheorems` | what is proved of sums for any number of rows and over any finite set |

How they fit together.  `Exporter` sees a scrape from outside: its jobs end one
after the other, each with an outcome, within `scrapeTimeout`.  `Collector`
gives the inside of such a scrape without a clock, `ScrapeBudget` the same
control with a clock but without zones and series, and shows the bound that
`Exporter` takes for granted (`ScrapeBounded`).  `ConfigLoad` gives `Exporter`
its configuration, and what it establishes (`ServesSoundConfig`) is what
`ScrapeBudget` assumes of its settings.  `Discovery` is what lies behind the
listing and tag calls of `Collector`, `GraphQL` and the metrics modules what
lies behind its analytics calls.

### Collector

A worker `w` is the goroutine of the job's `w`-th account; `wpc[w]` is its
position in `collectAccount`, `dpc` that of `Collect`/`collectJob`.  Every
action is one atomic piece of the code: a section under the mutex, an operation
on `sem` or `failed`, a remote call with what follows it up to the next shared
operation.

| Code | Model |
|---|---|
| `collectJob`: account IDs from config or `ListAccounts` | `ResolveConfigured`, `ListAccounts`, `ListAccountsFails` |
| the loop: `seen`, `sem <-`, `failed.Load()`, `go` | `SkipSeen`, `Acquire`, `StopAdmitting`, `Admit`, `AllAdmitted`, `Wait` |
| `zonesFor` / `ListZones` + `setZonesFor` | `Lookup` / `ListZones`, `ListZonesFails` |
| `ZoneTags`, with its tolerated failure | `ZoneTags`, `ZoneTagsFails` |
| tag filter and `claimZones` | `Claim` |
| `zone_info` and `zone_tags_info`, starting the calls | `Announce` |
| the HTTP, WAF and errors goroutines | `FetchOK`, `FetchFails` |
| the DNS goroutine: `dnsState` under the mutex, then the unlocked writes and `emitDNSMetrics` | `DnsAnswered`, `DnsMerge` |
| inner `wg.Wait`, `errors.Join` | `Join` |
| `errOnce`, `failed.Store`; deferred `<-sem`, `wg.Done` | `RecordFailure`; `Release`, `Exit` |
| the per-job counters and gauge | `Report` |
| the account-scoped DNS gauges | `EmitGauges` |
| `context.WithTimeout` | `Deadline` |

Abstractions.  A series is the family of a zone (`zone_info`, `zone_tags_info`
and one per analytics call) with the number of times it was sent; values and
the other labels are the subject of `AdaptiveMetrics` and `ZoneHttpMetrics`.
Which Cloudflare answers are possible is a constant (`AccountLists`,
`ZoneLists`, `TagAnswers`, `HttpZones`, `DNSRows`).  A call may fail at any
time, which covers errors, missing permissions and the call's own timeout in
`fetchTimed` (`ScrapeBudget` has the clock); past the deadline it can only fail.  `matched` and `outcome` are
history variables, which no action reads.  `Report` clears what is local to
`collectJob` and its goroutines, which are out of scope by then.

### ScrapeLedger

The abstract scrape: in its turn, a job takes zones nobody owns and publishes
series of its own zones, each once and only of its metric groups; its turn ends
when each zone it took has a `zone_info`.  Accounts, goroutines, failures and
the deadline are gone.  `Collector` implements it with `turn <- job` and
`owner <- claimedBy` (`LedgerSpec`).

### AdaptiveMetrics

`Fetch` picks an answer the service may give (all groups, or as many as the
limit, in any order) and decodes it as the `Fetch*Metrics` functions do, `Sum`
is one turn of an emit function's loop (`next` is the row it comes to), `Send`
the gauges.  A Go map is a
function on the keys present, so the difference between an absent key and a
zero is kept.  Of breakdowns that are treated alike two stand for all, and byte
sums, which are scaled and summed like counts, are left out.  Ratios are pairs.

### ScrapeBudget

The same control as `Collector`, abstracted to where each account stands
(`stage`) and since when (`began`), with a clock `now` that starts with
`Collect`.

| Code | Model |
|---|---|
| `context.WithTimeout(..., scrapeTimeout)` in `Collect`, handed to every call | `opts.scrapeTimeout` in `GivesUp` and `RestGivesUp` |
| `fetchTimed`'s own timeout, DNS longer than the others | `Own`, `EndsAt` |
| `clientHTTPTimeout` of the HTTP client, and the SDK's attempts at REST calls | `ClientTimeout`; `RestTimeout` |
| the loop of `collectJob` with its semaphore and `failed` | `Admit`, `CanAdmit`, `SlotFree` |
| zones, known to the scrape or listed; tags, fatal only with filters | `ZonesKnown`, `ListZonesFails`; `ZoneTags`, `ZoneTagsFails` |
| the analytics goroutines and their join | `Select`, `Fetched`, `FetchFails`, `Join` |

A call that is not slow answers within `Quick`; a slow one never answers and
ends when the context or the client gives up.  Code that waits for nothing takes
no time: `Tick` is enabled only when nothing is `Due`.  Early failures, zone
claims and series are left to `Collector`.

### Discovery

`ZonePage` and `ZonesListed` are the iterations of `ListZones` and its end,
`TagPage` those of `ZoneTags`; `queryString` is `TagFilter.queryString`, `Named`
the test for a zone ID.  The service is external: it keeps an ordered listing,
answers a page by offset into the listing as it stands, evaluates the tag
queries (`Satisfies`), lists only resources with tags, and may change zones or
tags between any two requests (`ZoneAdded`, `ZoneRemoved`, `ZoneRetagged`).
`shrunk`, `stable` and `matching` are history variables.  Resources that are not
zones are one item without a zone ID, at the front of the tag listing.  `Kept`
is the loop that keeps the entries of a list that are in a set: `Select`'s, and
the service's when it lists the zones that satisfy a query.

### ConfigLoad and Exporter

| Code | Model |
|---|---|
| `defaults`, `yaml.Unmarshal` over them, the checks of `Load`, `resolveMetricGroups` | `defaults`, `Server`, `ServerValid`, `JobValid`, `Accepts`, `Load` |
| `flag.Parse`, which exits by itself: 0 for `-help`, 2 for a flag it cannot parse | `ParseExits` |
| `main`, `run` up to the select: `-version`, flags, `Load`, `mux.Handle` | `ShowVersion`, `RefuseFlags`, `RefuseConfig`, `PanicOnPath`, `Start` |
| `signal.NotifyContext` | `Signal` |
| the goroutine of `ListenAndServe` and `errCh` | `Listen`, `ServeFails`, `ServerClosed` |
| the select | `ErrorReceived`, `SignalReceived` |
| `Shutdown` with its grace period | `Drained`, `GraceOver` |
| a request for the metrics path | `Arrive`, `JobEnds`, `ReadGauge`, `Gathered`, `Sent`, `WriteFails`, `ClientGivesUp` |

How a command line is written is abstracted to how `flag.Parse` ends
(`ParseResults`) and the values it leaves.  A panic ends the process with status
2, as a flag that cannot be parsed does.

A request is numbered as it comes and several may be in flight.  `JobEnds` sets
the job's value in the shared gauge; after the last job the gauge is read name
by name, as its `Collect` does, while other scrapes go on writing it.  A request
whose client has gone goes on until `Collect` returns, since `Collect` has a
context of its own.  Time passes in steps of `Unit` seconds and, as above, only
when no step is due.  `recorded` is a history variable: what was recorded under
each name since the scrape began.

### ZoneHttpMetrics and GraphQL

`QueryFails` collects the error returns of `GraphQLClient.Query`; `Replies` are
the ways the service may answer.  `Fetch`, `NextZone`, `Merge` and `Emit` are
the nested loops of `FetchHTTPMetrics` with `emitZoneMetrics` at the end of each zone.  The service
guarantees of a bucket (`BucketAssumption`) only that its statuses partition its
requests and that cached requests are a part of them.

### AnalyticsWindow

Time is counted in ticks, finer than a second.  `Format` is the rendering with
`time.RFC3339`, which has no fraction; `Within` is the filter
`datetime_geq`/`datetime_lt`.  A bucket is identified by its timestamp, which is
its start.  `counted`, `first` and `gaps` are history variables.

### Variants

Operators whose comment begins with "Variant:" are plausible mistakes in the
operator that follows them (a token not given back, a mark set after the loop
instead of in it, a comparison off by one).  No specification uses them.  Each
is paired, in `PROJECT.json` under "mutants", with a property that TLC finds
violated when the variant takes the operator's place: it shows that the
property can tell the code from a broken one.

## The runs

State counts are distinct states.  `exporter` takes about a minute and a half,
the others seconds.  Run one with `tlc -config X.cfg M`.

| Run | Instance | Checks |
|---|---|---|
| `collector` | two jobs over two accounts, concurrency 2; job 1 filters by tag and lists account `a1` twice, job 2 does not and asks `ListAccounts`; `a1`'s listing repeats a zone, `a2` may have a zone of its own, `a1`'s, or none; `z2` may be tagged between two answers; HTTP and DNS enabled, limit 2, full DNS pages for one job and not for the other (292,840) | `FullInv` (types and the inductive invariant), `NoDuplicateSeries`, `DnsStateRaceFree`, `FirstJobWins`, `SuccessMeansCovered`, `JobSuccessTruthful`, `DnsStateOnlyGrows`, and the refinement of `ScrapeLedger` (`LedgerSpec`) |
| `serial` | concurrency 0, which the code turns into 1; job 1 runs three accounts with three groups, job 2 one of them or none with all four calls interleaving (58,522) | `SuccessMeansPublished`, `ConcurrencyBound`, `SerialFailFast`, `Termination` |
| `same_names` | two jobs with one name | refutes `JobSuccessTruthful`, see Findings |
| `drifting_rows` | the estimate of an out-of-scope row differs between two answers | refutes `UnmatchedCountedOnce`, see Findings |
| `adaptive` | seven error, five WAF and five DNS groups on both sides of every boundary, up to four held at once, limit 3 (8,532) | `UndercountIsFlagged`, `BreakdownsAgree`, `OriginSideSound`, `DnsRowsAccounted` |
| `adaptive_small` | the WAF groups alone | refutes `SmallRowsUnscaled`, see Findings |
| `zone_http` | every kind of reply, and all sequences of up to three of four kinds of minute for a zone in scope and one out of scope, limit 2 (380,885) | `AllOrNothing`, `NoDuplicateLabels`, `WindowSummed`, `RatiosSound` |
| `window` | a window of one bucket, half-second ticks, the first scrape at any tick of a minute, five scrapes at intervals shorter, equal and longer than the window (2,988) | `NoBucketSkipped`, `NoBucketCountedTwice`, `BucketsComplete` |
| `exporter` | every way `flag.Parse` ends, every command line and file that a check refuses, one by one, and two configurations that are accepted; two scrapes, scrape timeouts below the grace period and equal to it (394,366) | `ExitMatchesCause`, `ServesSoundConfig`, `GraceHonoured`, `ResponseTruthful`, `FlushHeadroom`, `StopsForGood` |
| `budget` | two jobs over three accounts, seven sets of calls that hang, four settings: worst cases that fit the budget with one and two accounts at a time, and two that do not (112,982) | `ScrapeBounded`, `SlowCallOverlaps`, `FailsOnlyForItsOwn` |
| `budget_tags` | one job without filters whose tag listing hangs | refutes `TagsAreDecoration`, see Findings |
| `discovery` | any of three zones, in any order, pages of one, five lists of filters, two changes at any moment (397,228, up to symmetry of the zones) | `SelectionMatches`, `StableZonesSelected` |

All passing runs but `serial` check the type invariant too; those of
`ScrapeBudget` and `Exporter` carry a bound besides (accounts at work, the age
of a connection).

What the properties of one scrape say:

- `NoDuplicateSeries`: each series is sent at most once.
- `DnsStateRaceFree`: the unlocked writes to an account's DNS state never have
  two goroutines.
- `ConcurrencyBound`: the admitted accounts, and the one about to be, are at
  most the limit.
- `SerialFailFast`: with limit 1 no account starts beside another or after a
  failure, although the dispatcher and the goroutines synchronise only through
  `sem` and the deferred release.
- `FirstJobWins`: a zone belongs to the first job that selected it, for good.
- `SuccessMeansCovered`, `SuccessMeansPublished`: a successful job listed all
  its accounts and each of their zones is claimed (by it or an earlier job), and
  each zone it claimed has all the job's groups or a counter that says why not.
- `JobSuccessTruthful`: `job_success` and `scrape_errors_total` agree with what
  the jobs returned, when their names differ.
- `DnsStateOnlyGrows`: what the scrape has learnt about DNS is kept.
  `ZonesFetchedOnce`, the same for zone lists, is proved and not run.
- `Termination`: `Collect` returns.

What the others say:

- `ScrapeBounded`: the scrape is over by `scrapeTimeout`, whatever hangs.
- `SlowCallOverlaps`: an account's analytics take no longer than the longest of
  their timeouts, not their sum.
- `FailsOnlyForItsOwn`: a rule for choosing the timeouts.  If the worst case of
  all rounds of accounts fits the budget, and no timeout is so short that it cuts
  off a call that is not slow (`Fits`), a job fails only for a slow call of its
  own that is fatal: never for DNS, for another job, or for want of time.
- `SelectionMatches`: a zone selected by filters matched all of them, as the
  file means them, at some moment while it was read.
- `StableZonesSelected`: a zone listed and matching all along is selected,
  whatever is added meanwhile, unless the account failed.
- `AllOrNothing`: a call that failed publishes nothing, one that succeeded is a
  whole answer; only data that is null is let through, see Findings.
- `WindowSummed`: a window is summed in full, however many minutes it has, up to
  the limit; past it, as many whole minutes as the limit are.
- `ExitMatchesCause`: 0 only for `-help`, `-version` or a signal, and only if no
  scrape was cut; 1 only for refused input, a server that failed or connections
  that outlast the grace period; 2 only for a flag that cannot be parsed or a
  metrics path the mux refuses.
- `ServesSoundConfig`: while it serves, no call's timeout exceeds the scrape's,
  whether file or default set it, and each job has a group.
- `GraceHonoured`: a scrape in flight is cut only at the end of the grace period
  or because the server failed, and a shutdown never outlasts the period.
- `ResponseTruthful`: a `job_success` in a response was recorded while that
  scrape ran, by itself or by one overlapping it, never by an earlier one.
- `FlushHeadroom`: a response whose client waits is cut only after the headroom.
- `StopsForGood`: after a signal, and when the server has failed, the process
  ends.

Why the bounds are enough.  Jobs run one after the other and a later job sees of
the earlier ones only the `scrape` value and the counters, so two jobs give all
the interplay there is: a first and a later claimer.  Accounts interact through
`sem`, `failed` and the set of claimed zones only: two at once, a third entry
that repeats the first, and (in `serial`) three different ones show admission,
blocking, skipping and stopping.  `NumJobs`, `Accounts`, `Zones` and
`MaxAccounts` are the only bounds; no counter is capped, since a scrape has
finitely many steps.  For most of these properties the proofs below remove the
bounds.  In `AdaptiveMetrics` `MaxGroups` exceeds the limit by one, so answers
fall below, at and above it; the groups lie on both sides of ten records, of
interval 1 and of status 0, 399 and 400.  In `ZoneHttpMetrics` `MaxBuckets`
exceeds the limit by one for the same reason.  In `AnalyticsWindow` the time
arithmetic is periodic in the bucket and the second, and the first scrape ranges
over a whole period; `MaxScrapes` bounds the number of scrapes, which is why
this run does not check for deadlock.  All other runs do, with an explicit
`Done` step for the program having returned.

In `Exporter` scrapes meet only in `jobSuccess`, so two of them (`MaxScrapes`)
show every overlap, and a third that starts after the first has ended differs
from the second only in what it finds in the gauge.  `Unit` (5 s) divides the
grace period, the headroom and the timeouts (`TimeAssumption`), so time stops at
each deadline.  The proofs remove the bound on scrapes and allow any timeout
that is a multiple of 1 s or 5 s.  In `ScrapeBudget` the times are small numbers
that keep the order of the real ones (`Quick` < `requestTimeout` <=
`dnsRequestTimeout` < `scrapeTimeout`, `RestTimeout` > `ClientTimeout`); one
setting has a DNS timeout equal to the scrape's and beyond `ClientTimeout`, the
code's backstop of five minutes being reachable with long timeouts only.
`Discovery` has `PageSize` 1, so each entry is a page of its own and every shift
shows, and `MaxChanges` 2, the least with which an entry leaves and another
comes; lists are finite and `Symmetry` is sound as no zone is named.

## Fairness

`Collector`'s `FairSpec` assumes, and `Termination` needs:

- weak fairness of `Dispatch` and of each worker's `Step`: the Go scheduler runs
  every runnable goroutine.  `Acquire` blocks while the semaphore is full, but
  the dispatcher is alone in waiting for it, and a token once free stays so;
- weak fairness of `Deadline`: the context's timer fires;
- weak fairness of the calls only *once the deadline has passed*: every request
  carries the scrape's context, so it returns an error then.  Before that
  nothing obliges the service to answer, and the model lets a call hang until the
  deadline.  `fetchTimed`'s own, shorter timeouts are not needed for termination.

`Exporter`'s `FairSpec` assumes, and `StopsForGood` needs:

- weak fairness of `Main`, `Listen` and `ServerClosed`: the main goroutine and
  that of `ListenAndServe` run.  Nothing makes accepting fail (`ServeFails`), and
  nobody has to send a signal or a request;
- weak fairness of `Tick`: time passes;
- weak fairness of a handler's steps only when one is due: `Collect` ends by the
  scrape's deadline (`ScrapeBounded` of `ScrapeBudget`), a write by the
  connection's write deadline.

`ScrapeBudget` and `Exporter` share one assumption about time that is not
fairness: a step that is ready is taken before the clock moves.  The bounds they
show (`ScrapeBounded`, `GraceHonoured`, the age in `TypeOK`) therefore leave out
the scheduler's latency and the time the code itself computes.

## What is proved

TLAPS checks these for every number of jobs, accounts and zones, every limit and
every answer of the service, every file and command line, every number of
overlapping scrapes and every choice of timeouts.  The assumptions on the
constants are `JobsAssumption`, `LimitsAssumption` and `AnswersAssumption` of
`Collector`, `TimeAssumption` of `AnalyticsWindow`, `BudgetAssumption` of
`ScrapeBudget`, `InputAssumption` of `AdaptiveMetrics`, `BucketAssumption` of
`ZoneHttpMetrics`, `DiscoveryAssumption` of `Discovery`, and `TimeAssumption` and
`InvocationAssumption` of `Exporter`; TLC evaluates them in each run.  They say that there is at least one job, that lists
are lists over the given sets and fit the model's number of workers, that times
are integers with a positive second, bucket and window, that the accounts are
finitely many, that the timeouts of `ScrapeBudget` are such as `Load` accepts
(`ServesSoundConfig`), that a decoded file has numbers where numbers are due,
that `Exporter`'s unit of time divides the accepted timeouts, that a minute's
counts are natural numbers, its statuses partition its requests and its visitors
are finitely many, that a group of an adaptive dataset has at least one record,
natural numbers and the dimensions of its dataset, and that an account has finitely many zones with IDs that are
not empty.  Nothing is assumed about lists of accounts and zones being free of
repetitions or the values in a file being positive.  Two theorems have a
hypothesis of their own: what is said of success (`FullInvariance`,
`Publication`) needs a positive query limit, which main.go:60
checks, and `ResultsTruthful` needs different job names, without which it is
false (see Findings).

`CollectorProofs`: `TypeCorrect`, `Invariance`, `NoDuplicates`, `RaceFree`,
`Bounded`, `FailFast`, `ListOnce`, `DnsAccumulates`.  The properties are not
inductive: that a series has been sent at most once says nothing about who may
still send it.  The invariant `IInv` strengthens them by

- `PhaseInv`: where the dispatcher stands bounds what the workers do; in
  particular the workers of a job are gone before the next job begins;
- `DispatchInv`: workers start in order and have pairwise different accounts,
  which is what makes the unlocked DNS state safe;
- `SemInv`: the tokens in `sem` are exactly those of the working goroutines and
  of the dispatcher between acquiring and admitting;
- `ClaimInv`: what a worker picked is claimed by the current job, once, and
  different workers picked different zones;
- `SeriesInv`: a series not yet sent is still owed by the one worker that picked
  its zone, and a worker that has not sent it finds it unsent;
- `CacheInv`: whoever fetches a list does so for an account without one.

Each conjunct has a lemma that the initial state has it and that each step keeps
it, one step of the proof per action; the counting of tokens and of a zone's
entries rests on the theorems about finite cardinalities.

In its second half `FullInvariance`, `FirstOwner`, `Coverage`, `Publication`,
`ResultsCounted` and `ResultsTruthful`.  What a job's success means is decided
long after the facts it speaks of, so `FullInv` carries them there:

- `OwnerInv`: a zone is claimed as soon as a job has selected it, and its claimer
  is the first that did;
- `CoverInv`: an account whose goroutine got through without an error has every
  zone it selected claimed, as has every account of a job not marked as failed;
- `PublishInv`: a worker past its calls has, for each group of each zone it
  picked, sent the series or recorded a loss of DNS rows; without an error only
  a DNS call can have failed;
- `ResultInv`: the two per-job metrics are functions of `outcome`, the list of
  results so far, whatever the names.

`Refinement`, in the same module: `Spec` implies `LedgerSpec`.  `Claim`
maps to `Take`, `Announce`, `FetchOK` and `DnsMerge` to `Publish`, `Report` to
`EndTurn`, all else to stuttering; `EndTurn`'s guard is the last conjunct of
`SeriesInv` with all workers gone.

`SumTheorems` holds only lemmas of arithmetic that the other proofs use: how sums
grow, compare and split; `SumByKey`: rows summed by key, and the keys' sums
summed, give the sum over the rows; `SumOverRows`: a sum over a set is one over
the rows that list it, in any order; `WeightedMean`.  Induction over the
number of rows is had without an induction theorem: a set of lengths for which a
statement fails would have a least one (`LengthInduction`).

`AdaptiveMetricsProofs`: `AdaptiveInvariance`, `AdaptiveTypeCorrect`,
`NoSilentUndercount`, `BreakdownsAreConsistent`, `OriginGaugesSound`,
`EveryDnsRowCounts`.  The properties speak of the gauges at the end only; `AInv`
says what the maps hold on the way:

- `AnswerInv`: the rows are those of an answer the service may give, decoded;
- `SumInv`: each map has, for each key, the sum over the rows before `next` that
  count towards it (`Summed`, by `Gathered` for each map), and the unmatched rows
  are those of them out of scope;
- `SentInv`: the gauges are made from the maps after the last row.

One turn of the loop takes `Summed(n - 1)` to `Summed(n)` (`SumStep`, map by map
for each dataset).  What a breakdown publishes for a zone is then the sum over
its rows (`PublishedIs`), and the rows are all the service holds unless their
number reaches the limit (`NothingCut`, by counting rows and groups).

`ZoneHttpMetricsProofs`: `HttpInvariance`, `HttpTypeCorrect`, `LabelsDistinct`,
`NothingPartial`, `WindowIsSummed`, `RatiosAreSound`.  `HttpInv` says that a
failed query leaves nothing to do and nothing sent (`TodoInv`), that what has
been sent is of zones in scope that are done, each series once (`SentInv`), that the group being
merged is the sum of the buckets taken (`MergeInv`), and that what has been sent
of a zone is made from the sum over all its buckets (`PublishedInv`).

`DiscoveryProofs`: `DiscoveryInvariance`, `DiscoveryTypeCorrect`, `FiltersHold`,
`NothingLost`.  `DInv` says that the service lists no zone twice
(`DistinctListing`), that what is called stable is still listed and matching
(`HistoryInv`), and, for each of the two listings, that a stable zone has been
read or its position is still ahead of the offset (`ZonesInv`, `TagsInv`).  A
zone's position in the tag listing is the number of zones up to it that satisfy
the query, so the argument counts: an insertion, or a zone that comes to match,
lowers no count (`CountInserted`, `CountGrows`), a page moves the offset by a
page, and an empty page means that the offset is past the end (`PageEntries`).
`FilterMeaning` shows that the query sent says what the file means.

`AnalyticsWindowProofs`: `WindowTypeCorrect`, `NothingSkipped`,
`NothingCountedTwice`, `OnlyCompleteBuckets`.  The invariant
`WInv` adds to the two properties that the window is the one of the latest
scrape, that its start is not before the first window's, and that no bucket at
or behind its end has been counted yet; without the last part a step could
count a bucket that had been counted too early.
The key lemma is that rendering is monotone, so that truncation to seconds moves
the end of one window and the start of the next consistently.

`ScrapeBudgetProofs`: `BudgetTypeCorrect`, `ScrapeEndsInTime`,
`SlowCallsOverlap`, `JobsFailOnlyForTheirOwn`.  The key lemma of the first,
`DueAtDeadline`, is that at the scrape's
deadline a scrape that is not over has a step to take, wherever it stands: every
call is given up by then (`RestCallsEnd`, `CallsEnd`), and with no account at
work and at least one token the loop can go on.  As time passes only when nothing
is due, it never passes the deadline.  `SlowCallsOverlap` adds that only
enabled calls run (`OnlyEnabled`) and that none does after the last job
(`OverAfterLast`): without them the call that is not yet due might have a
timeout that the bound does not count.

`JobsFailOnlyForTheirOwn` says of the semaphore what is known of list
scheduling: with `accountConcurrency` slots taken greedily, accounts start no
later than if they went in rounds.  The order in which they start and end is
arbitrary, so the invariant `PaceInv` counts instead.  Its part `InRounds` says
that there is a time of admission for each account seen (the model keeps only
the start of its latest stage) such that, for every round `r`, an account is
admitted after the start of round `r`, or is still waiting then, only if
`(r + 1) * accountConcurrency` accounts had been admitted by it.  Its step is
`RoundIsFull`: an account that waits at the end of a round finds every slot
taken, and by accounts of this round, since one of the round before would have
ended (`WorkerInTime`); so the counts add up.  An account at work therefore
belongs to one of the `Rounds` of its job (`TickOnTime`), a job is over by the
sum of the costs up to its own (`OnTime`, `JobsCostIs`), the deadline of the
scrape is never reached (`BeforeDeadline`), and what is given up is a slow call
of the job (`GivenUpIsSlow`, `FaultInv`).

`ExporterProofs`: `ExporterInvariance`, `ExporterTypeCorrect`, `StatusHasCause`,
`ConfigurationIsSound`, `GraceIsHonoured`, `ResponsesAreTruthful`,
`HeadroomIsLeft`.  The invariant `EInv` consists of

- `ProcInv`: what is known at each place of `run`, for instance that a drain has
  been signalled for, and that `errCh` holds no `ErrServerClosed` before one;
- `CfgInv`: the configuration in use is what `Load` made of an accepted file
  (`LoadIsSound`), or none;
- `ClockInv`: every clock is a multiple of `Unit` and stops at its deadline.
  Without the multiples (`Multiples`, `NoOvershoot`) a clock might step over it;
- `CutInv`: requests are at work only while the process is, and one that was
  killed was killed for a reason; an exit with status 0 kills none
  (`CutsNobody`);
- `GaugeInv`: for each job a scrape has finished, the gauge holds a result
  recorded since that scrape began, and so does what it has read of the gauge.
  This is what makes a response truthful: another scrape may overwrite the
  gauge between the two, but only with a result that is recorded as well.

Only model-checked: `Termination` and `StopsForGood`, liveness properties under
fairness, which the prover does not handle.

## Findings

- `same_names` (config.go:169): `Load` accepts two jobs of one name.  The second
  one's result overwrites the first's, so that `job_success` is 1 although a job
  of that name failed in this very scrape.
- `drifting_rows` (collector.go:327): unmatched DNS rows are a set of whole
  rows, estimated count included.  If the estimate of a row differs between the
  answers to two jobs, the row is counted twice; the comment says once.
- `adaptive_small` (waf.go:105): the README's section on sampling says of the
  adaptive datasets that rows with fewer than ten records are not scaled; only
  the errors dataset does that, WAF and DNS rows always are.
- `budget_tags` (collector.go:455): the tag listing of a job without filters is
  meant to be decoration, but has no timeout below the scrape's.  One that hangs
  is given up only when the scrape's context is done; the analytics calls after
  it then fail at once, and the account loses its analytics to its tags; only
  `zone_info` is still sent.

One more document is contradicted, by a passing run.  README.md:100-102 says that
`httpRequests1mGroups` "returns at most one 1-minute bucket per query", right
after advising to raise `-analytics-window`.  That is so for the default window
of a minute only: a longer one is answered several buckets, and `mergeGroup`
(analytics.go:149-151) and its test (graphql_test.go:56-59) are there to sum
them.  `zone_http` has windows of up to three buckets, and `WindowSummed` shows
that none of them within the limit is lost, so the README's reason for under-counting is wrong
while its advice is right.

Seen on the way, without a run of their own:

- A zone claimed by a job whose calls then fail is not tried again by a later
  job of the scrape (`claimedBy` is for good, the documented design); the loss
  shows in the owner's result or in a counter (`SuccessMeansPublished`).
- A window with more minute buckets than `-query-limit` is cut, and unlike the
  errors, WAF and DNS datasets HTTP has no gauge that says so, although the
  README has all analytics metrics hold the sum over the window (README.md:106).
  With the default limit that takes a window of a week.
- The default lag covers the ingestion delay only if that is at most the lag
  minus a minute, since a bucket's timestamp is its start (`BucketsComplete`).
- Two windows tile only if the scrape interval is at most (none skipped) and at
  least (none twice) the window, so with jitter on both sides some minute is
  skipped or repeated.  The chart's defaults, a window of 1m and an interval of
  150s, skip three of five minutes (values.yaml:29, 67, 73), although its own
  README asks to keep the two matched (charts/cloudflare-exporter/README.md:60).
- Any positive `-analytics-window` is accepted (main.go:54), but dividing an
  HTTP metric by `analytics_window_seconds` gives the rate only if the window is
  a whole number of minutes.
- `Load` does not look at `metricsPath`; an empty one, one without a slash, or
  `/healthz` makes the mux panic after the configuration was accepted
  (`PanicOnPath`); nothing says it should be refused before.
- `data` that is null without errors decodes into an empty answer, which cannot
  be told from no traffic (`AllOrNothing` excepts it).
- Zones without any tag are not in the tag listing, so they match no filter, not
  even a negated one (`Matches`); a zone may be missed if another one leaves a
  listing between two of its pages (`shrunk` in `StableZonesSelected`).
- The grace period of 15 s is shorter than a scrape may take: a shutdown during
  a long scrape cuts it and the process exits with 1.
- If a listen error and a signal are both ready, the select may take the signal:
  the process exits with 0 although it never served (`ExitMatchesCause` allows
  it, since there was a signal).
- A client that gives up does not stop its scrape, so retries add up: only the
  scrape's deadline limits how many run at once.

## What is not modelled

- The histogram of call durations, logging and the text of errors: nothing
  depends on them.
- Descriptors (`New`, `Describe`): metadata without state.
- `ListAccounts`' pages, which are handled as those of `ListZones` are: in
  `Collector` and `ScrapeBudget` it is an answer or an error.
- The encoding of requests, YAML and JSON decoding and the SDK's retries: I/O and
  formatting.  Retries appear as the time a REST call may take.
- Of the breakdowns and totals that the emit functions treat alike, all but one
  or two of each kind; byte sums.
- The listen address, which `Load` does not check and which shows up as a listen
  error; `/healthz` and idle connections, which a shutdown does not wait for; the
  log adapter.
- The Helm chart, container files and release workflows: static configuration.
- How a flag's text is parsed: only the three ways `flag.Parse` may end.

## Plan

What remains: that the scrapes `Exporter` assumes are those `ScrapeBudget`
describes, as a refinement of a common abstract scrape with a clock.
