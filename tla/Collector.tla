----------------------------- MODULE Collector -----------------------------
(***************************************************************************)
(* One call of Collector.Collect (internal/collector/collector.go): the    *)
(* discovery jobs run one after the other; within a job the accounts are   *)
(* scraped by concurrent goroutines, admitted through a counting semaphore *)
(* and stopped, best effort, by the first fatal error; within an account   *)
(* up to four analytics calls run concurrently.  The goroutines share the  *)
(* zone cache, the set of zones already emitted and the per-account DNS    *)
(* state of the scrape, and write series to one channel; the registry      *)
(* rejects the whole scrape when two series of that channel are equal.     *)
(*                                                                         *)
(* Every remote call may fail at any time (network, permission, its own    *)
(* timeout) and must fail once the scrape's deadline has passed.  Counts,  *)
(* label values, logging and the call-duration histogram are left out.     *)
(***************************************************************************)
EXTENDS Integers, Sequences, FiniteSets

CONSTANTS
    Accounts,            \* account IDs
    Zones,               \* zone IDs the REST API lists
    NumJobs,             \* discovery.jobs, in config order, are 1..NumJobs
    JobName,             \* [Jobs -> names]
    JobAccounts,         \* [Jobs -> Seq(Accounts)], << >> means "ask ListAccounts"
    Filtered,            \* [Jobs -> BOOLEAN], the job has searchTags
    Enabled,             \* [Jobs -> SUBSET Apis], its metric groups
    AccountConcurrency,  \* Options.AccountConcurrency
    QueryLimit,          \* Options.QueryLimit
    MaxAccounts,         \* bound on the accounts of one job
    AccountLists,        \* the answers ListAccounts may give
    ZoneLists,           \* [Accounts -> the answers ListZones may give]
    TagAnswers,          \* [Jobs -> the zone sets ZoneTags may answer]
    HttpZones,           \* zones with at least one httpRequests1mGroups bucket
    DNSRows              \* the DNS dataset: records with fields zone, type (for
                         \* query type and response code) and count

Jobs    == 1..NumJobs
Workers == 1..MaxAccounts   \* worker w is the goroutine of the job's w-th account

\* The four analytics calls; a failure of the first three fails the account.
FatalApis == {"http", "waf", "errors"}
Apis      == FatalApis \cup {"dns_analytics"}

\* The calls whose failure is tolerated and counted in apiErrors.
CountedApis == {"resource_tagging", "dns_analytics"}

\* The series of a zone, one family per block of code that emits them.
Families == {"zone_info", "zone_tags_info"} \cup Apis

Names  == {JobName[j] : j \in Jobs}

\* dnsAccountState; known says that the map has an entry for the account.
DnsStates == [known : BOOLEAN, truncated : BOOLEAN, unmatched : SUBSET DNSRows]
NoState   == [known |-> FALSE, truncated |-> FALSE, unmatched |-> {}]

\* zoneTag_in keeps the zones asked for, and the answer still carries rows of
\* zones that the zone list omits (workers.dev and friends).
StrayRows == {r \in DNSRows : r.zone \notin Zones}

ASSUME JobsAssumption ==
    /\ NumJobs \in Nat \ {0}
    /\ MaxAccounts \in Nat \ {0}
    /\ Filtered \in [Jobs -> BOOLEAN]
    /\ Enabled \in [Jobs -> SUBSET Apis]
    /\ JobAccounts \in [Jobs -> Seq(Accounts)]
    /\ \A j \in Jobs : Len(JobAccounts[j]) <= MaxAccounts

ASSUME LimitsAssumption == AccountConcurrency \in Int /\ QueryLimit \in Int

\* A paginated listing may repeat an entry when pages shift between requests.
ASSUME AnswersAssumption ==
    /\ AccountLists \subseteq Seq(Accounts)
    /\ \A l \in AccountLists : Len(l) <= MaxAccounts
    /\ \A a \in Accounts : ZoneLists[a] \subseteq Seq(Zones)
    /\ TagAnswers \in [Jobs -> SUBSET SUBSET Zones]
    /\ HttpZones \subseteq Zones

VARIABLES
    job,            \* the job being collected; NumJobs + 1 after the last one
    dpc,            \* where Collect and collectJob stand
    ids,            \* accountIDs of the job
    next,           \* index of the account collectJob considers next
    sem,            \* tokens in the channel sem
    failed,         \* atomic.Bool failed
    jobErr,         \* the error collectJob returns is not nil (firstErr)
    wpc,            \* [Workers -> where collectAccount stands]
    zones,          \* [Workers -> its local zone list]
    tags,           \* [Workers -> its local tag map: the zones it names]
    picked,         \* [Workers -> positions in zones of the zones it claimed]
    fetch,          \* [Workers -> [Apis -> state of that analytics call]]
    rows,           \* [Workers -> the DNS rows it was answered]
    cached,         \* accounts with an entry in scrape.zonesByAccount
    zonesByAccount, \* scrape.zonesByAccount
    claimedBy,      \* scrape.emitted: 0, or the job that claimed the zone
    dns,            \* scrape.dns
    dnsGauge,       \* the account-scoped DNS gauges emitted at the end
    series,         \* [Families -> [Zones -> how often it was sent on ch]]
    scrapeErrors,   \* cloudflare_exporter_scrape_errors_total, by job name
    jobSuccess,     \* cloudflare_exporter_job_success, by job name
    apiErrors,      \* cloudflare_exporter_api_errors_total
    expired,        \* the context of the scrape is past its deadline
    matched,        \* history: [Zones -> jobs whose selection held the zone]
    outcome         \* history: [Jobs -> what collectJob returned]

dispatch == <<job, dpc, ids, next, sem, failed, jobErr>>
local    == <<zones, tags, picked, fetch, rows>>
scrape   == <<cached, zonesByAccount, claimedBy, dns>>
counters == <<scrapeErrors, jobSuccess, apiErrors>>
history  == <<matched, outcome>>
vars == <<dispatch, wpc, local, scrape, dnsGauge, series, counters, expired, history>>

-----------------------------------------------------------------------------

Limit == IF AccountConcurrency <= 0 THEN 1 ELSE AccountConcurrency

Account(w) == ids[w]

\* zoneByID of worker w, and how many entries of selected name zone z.
Mine(w)     == {zones[w][i] : i \in picked[w]}
Count(w, z) == Cardinality({i \in picked[w] : zones[w][i] = z})

\* A goroutine holds its semaphore token from its admission to its release.
Holding == {"lookup", "list", "tags", "claim", "announce", "fetch", "fail", "release"}
Holders == {w \in Workers : wpc[w] \in Holding}

\* The zones of the account that the job's search tags leave in scope.
InScope(w) == {i \in DOMAIN zones[w] : Filtered[job] => zones[w][i] \in tags[w]}

\* Variant: claimZones looks at s.emitted but marks the zones after the loop.
ClaimableRepeats(w) == {i \in InScope(w) : claimedBy[zones[w][i]] = 0}

\* Variant: claimZones only removes repeats, not what earlier jobs claimed.
ClaimableAgain(w) ==
    {i \in InScope(w) : \A k \in InScope(w) : k < i => zones[w][k] # zones[w][i]}

\* claimZones: the unclaimed ones, a repeated entry only at its first position.
Claimable(w) ==
    {i \in InScope(w) :
        /\ claimedBy[zones[w][i]] = 0
        /\ \A k \in InScope(w) : k < i => zones[w][k] # zones[w][i]}

\* Types of the variables, with the states of the dispatcher and the workers.
TypeOK ==
    /\ job \in 1..(NumJobs + 1)
    /\ dpc \in {"resolve", "loop", "check", "wait", "report", "gauges", "done"}
    /\ ids \in Seq(Accounts) /\ Len(ids) <= MaxAccounts
    /\ next \in 1..(MaxAccounts + 1)
    /\ sem \in Int
    /\ failed \in BOOLEAN /\ jobErr \in BOOLEAN /\ expired \in BOOLEAN
    /\ wpc \in [Workers -> Holding \cup {"idle", "exit", "gone"}]
    /\ zones \in [Workers -> Seq(Zones)]
    /\ tags \in [Workers -> SUBSET Zones]
    /\ picked \in [Workers -> SUBSET Nat]
    /\ fetch \in [Workers -> [Apis -> {"off", "running", "merging", "ok", "err"}]]
    /\ rows \in [Workers -> SUBSET DNSRows]
    /\ cached \subseteq Accounts
    /\ zonesByAccount \in [Accounts -> Seq(Zones)]
    /\ claimedBy \in [Zones -> 0..NumJobs]
    /\ dns \in [Accounts -> DnsStates]
    /\ dnsGauge \in [Accounts -> DnsStates]
    /\ series \in [Families -> [Zones -> Nat]]
    /\ scrapeErrors \in [Names -> Nat]
    /\ jobSuccess \in [Names -> {"unset", "0", "1"}]
    /\ apiErrors \in [CountedApis -> [Accounts -> Nat]]
    /\ matched \in [Zones -> SUBSET Jobs]
    /\ outcome \in [Jobs -> {"pending", "ok", "error"}]

InitWorkers ==
    /\ wpc = [w \in Workers |-> "idle"]
    /\ zones = [w \in Workers |-> << >>]
    /\ tags = [w \in Workers |-> {}]
    /\ picked = [w \in Workers |-> {}]
    /\ fetch = [w \in Workers |-> [api \in Apis |-> "off"]]
    /\ rows = [w \in Workers |-> {}]

Init ==
    /\ job = 1 /\ dpc = "resolve"
    /\ ids = << >> /\ next = 1 /\ sem = 0
    /\ failed = FALSE /\ jobErr = FALSE
    /\ InitWorkers
    /\ cached = {}
    /\ zonesByAccount = [a \in Accounts |-> << >>]
    /\ claimedBy = [z \in Zones |-> 0]
    /\ dns = [a \in Accounts |-> NoState]
    /\ dnsGauge = [a \in Accounts |-> NoState]
    /\ series = [f \in Families |-> [z \in Zones |-> 0]]
    /\ scrapeErrors = [n \in Names |-> 0]
    /\ jobSuccess = [n \in Names |-> "unset"]
    /\ apiErrors = [api \in CountedApis |-> [a \in Accounts |-> 0]]
    /\ expired = FALSE
    /\ matched = [z \in Zones |-> {}]
    /\ outcome = [j \in Jobs |-> "pending"]

-----------------------------------------------------------------------------
(* Collect and collectJob *)

\* The job's account IDs are known: make the semaphore, start the loop.
StartJob(accounts) ==
    /\ ids' = accounts
    /\ next' = 1
    /\ sem' = 0
    /\ failed' = FALSE
    /\ dpc' = "loop"
    /\ UNCHANGED <<job, jobErr>>

ResolveConfigured ==
    /\ dpc = "resolve" /\ JobAccounts[job] # << >>
    /\ StartJob(JobAccounts[job])
    /\ UNCHANGED <<wpc, local, scrape, dnsGauge, series, counters, expired, history>>

ListAccounts ==
    /\ dpc = "resolve" /\ JobAccounts[job] = << >> /\ ~expired
    /\ \E answer \in AccountLists : StartJob(answer)
    /\ UNCHANGED <<wpc, local, scrape, dnsGauge, series, counters, expired, history>>

ListAccountsFails ==
    /\ dpc = "resolve" /\ JobAccounts[job] = << >>
    /\ dpc' = "report" /\ jobErr' = TRUE
    /\ UNCHANGED <<job, ids, next, sem, failed, wpc, local, scrape, dnsGauge,
                   series, counters, expired, history>>

\* Variant: the map seen is consulted but never filled.
SeenNever(i) == FALSE

Seen(i) == \E k \in 1..(i - 1) : ids[k] = ids[i]

SkipSeen ==
    /\ dpc = "loop" /\ next <= Len(ids) /\ Seen(next)
    /\ next' = next + 1
    /\ UNCHANGED <<job, dpc, ids, sem, failed, jobErr, wpc, local, scrape,
                   dnsGauge, series, counters, expired, history>>

\* Variant: the channel sem has room for one token too many.
AcquireLate ==
    /\ dpc = "loop" /\ next <= Len(ids) /\ ~Seen(next)
    /\ sem <= Limit
    /\ sem' = sem + 1
    /\ dpc' = "check"
    /\ UNCHANGED <<job, ids, next, failed, jobErr, wpc, local, scrape, dnsGauge,
                   series, counters, expired, history>>

\* sem <- struct{}{}: blocks while Limit accounts hold a token.
Acquire ==
    /\ dpc = "loop" /\ next <= Len(ids) /\ ~Seen(next)
    /\ sem < Limit
    /\ sem' = sem + 1
    /\ dpc' = "check"
    /\ UNCHANGED <<job, ids, next, failed, jobErr, wpc, local, scrape, dnsGauge,
                   series, counters, expired, history>>

\* Variant: the loop breaks off without giving the token back.
StopKeepsToken ==
    /\ dpc = "check" /\ failed
    /\ dpc' = "wait"
    /\ UNCHANGED <<job, ids, next, sem, failed, jobErr, wpc, local, scrape, dnsGauge,
                   series, counters, expired, history>>

\* failed.Load() holds: give the token back and admit no further account.
StopAdmitting ==
    /\ dpc = "check" /\ failed
    /\ sem' = sem - 1
    /\ dpc' = "wait"
    /\ UNCHANGED <<job, ids, next, failed, jobErr, wpc, local, scrape, dnsGauge,
                   series, counters, expired, history>>

\* Variant: failed is not looked at before an account is admitted.
AdmitAnyway ==
    /\ dpc = "check"
    /\ wpc' = [wpc EXCEPT ![next] = "lookup"]
    /\ next' = next + 1
    /\ dpc' = "loop"
    /\ UNCHANGED <<job, ids, sem, failed, jobErr, local, scrape, dnsGauge,
                   series, counters, expired, history>>

Admit ==
    /\ dpc = "check" /\ ~failed
    /\ wpc' = [wpc EXCEPT ![next] = "lookup"]
    /\ next' = next + 1
    /\ dpc' = "loop"
    /\ UNCHANGED <<job, ids, sem, failed, jobErr, local, scrape, dnsGauge,
                   series, counters, expired, history>>

AllAdmitted ==
    /\ dpc = "loop" /\ next > Len(ids)
    /\ dpc' = "wait"
    /\ UNCHANGED <<job, ids, next, sem, failed, jobErr, wpc, local, scrape,
                   dnsGauge, series, counters, expired, history>>

\* wg.Wait returns once every started goroutine has called wg.Done.
Wait ==
    /\ dpc = "wait"
    /\ \A w \in Workers : wpc[w] \in {"idle", "gone"}
    /\ dpc' = "report"
    /\ UNCHANGED <<job, ids, next, sem, failed, jobErr, wpc, local, scrape,
                   dnsGauge, series, counters, expired, history>>

\* Variant: a failed job leaves its job_success as it was.
ReportKeepsSuccess ==
    /\ dpc = "report"
    /\ LET name == JobName[job] IN
         IF jobErr
         THEN /\ scrapeErrors' = [scrapeErrors EXCEPT ![name] = @ + 1]
              /\ UNCHANGED jobSuccess
         ELSE /\ jobSuccess' = [jobSuccess EXCEPT ![name] = "1"]
              /\ UNCHANGED scrapeErrors
    /\ outcome' = [outcome EXCEPT ![job] = IF jobErr THEN "error" ELSE "ok"]
    /\ job' = job + 1
    /\ dpc' = IF job = NumJobs THEN "gauges" ELSE "resolve"
    /\ ids' = << >> /\ next' = 1 /\ sem' = 0
    /\ failed' = FALSE /\ jobErr' = FALSE
    /\ wpc' = [w \in Workers |-> "idle"]
    /\ zones' = [w \in Workers |-> << >>]
    /\ tags' = [w \in Workers |-> {}]
    /\ picked' = [w \in Workers |-> {}]
    /\ fetch' = [w \in Workers |-> [api \in Apis |-> "off"]]
    /\ rows' = [w \in Workers |-> {}]
    /\ UNCHANGED <<scrape, dnsGauge, series, apiErrors, expired, matched>>

\* Collect counts the job's result under its name and goes on to the next job.
Report ==
    /\ dpc = "report"
    /\ LET name == JobName[job] IN
         IF jobErr
         THEN /\ scrapeErrors' = [scrapeErrors EXCEPT ![name] = @ + 1]
              /\ jobSuccess' = [jobSuccess EXCEPT ![name] = "0"]
         ELSE /\ jobSuccess' = [jobSuccess EXCEPT ![name] = "1"]
              /\ UNCHANGED scrapeErrors
    /\ outcome' = [outcome EXCEPT ![job] = IF jobErr THEN "error" ELSE "ok"]
    /\ job' = job + 1
    /\ dpc' = IF job = NumJobs THEN "gauges" ELSE "resolve"
    /\ ids' = << >> /\ next' = 1 /\ sem' = 0
    /\ failed' = FALSE /\ jobErr' = FALSE
    /\ wpc' = [w \in Workers |-> "idle"]
    /\ zones' = [w \in Workers |-> << >>]
    /\ tags' = [w \in Workers |-> {}]
    /\ picked' = [w \in Workers |-> {}]
    /\ fetch' = [w \in Workers |-> [api \in Apis |-> "off"]]
    /\ rows' = [w \in Workers |-> {}]
    /\ UNCHANGED <<scrape, dnsGauge, series, apiErrors, expired, matched>>

\* The account-scoped DNS gauges, once per account any job got an answer for.
EmitGauges ==
    /\ dpc = "gauges"
    /\ dnsGauge' = dns
    /\ dpc' = "done"
    /\ UNCHANGED <<job, ids, next, sem, failed, jobErr, wpc, local, scrape,
                   series, counters, expired, history>>

\* ScrapeTimeout passes.  config.Load only admits a positive scrapeTimeout.
Deadline ==
    /\ ~expired /\ dpc # "done"
    /\ expired' = TRUE
    /\ UNCHANGED <<dispatch, wpc, local, scrape, dnsGauge, series, counters, history>>

-----------------------------------------------------------------------------
(* collectAccount, run by worker w *)

Goto(w, pc) == wpc' = [wpc EXCEPT ![w] = pc]

\* zonesFor: the zone list an earlier job of the same scrape fetched.
Lookup(w) ==
    /\ wpc[w] = "lookup"
    /\ IF Account(w) \in cached
       THEN /\ zones' = [zones EXCEPT ![w] = zonesByAccount[Account(w)]]
            /\ Goto(w, "tags")
       ELSE /\ Goto(w, "list")
            /\ UNCHANGED zones
    /\ UNCHANGED <<dispatch, tags, picked, fetch, rows, scrape, dnsGauge, series,
                   counters, expired, history>>

\* ListZones answers; setZonesFor stores the list.
ListZones(w) ==
    /\ wpc[w] = "list" /\ ~expired
    /\ \E answer \in ZoneLists[Account(w)] :
         /\ zones' = [zones EXCEPT ![w] = answer]
         /\ zonesByAccount' = [zonesByAccount EXCEPT ![Account(w)] = answer]
    /\ cached' = cached \cup {Account(w)}
    /\ Goto(w, "tags")
    /\ UNCHANGED <<dispatch, tags, picked, fetch, rows, claimedBy, dns, dnsGauge,
                   series, counters, expired, history>>

\* Variant: a failed listing is tried again, without looking at the context.
ListZonesRetries(w) ==
    /\ wpc[w] = "list"
    /\ Goto(w, "lookup")
    /\ UNCHANGED <<dispatch, local, scrape, dnsGauge, series, counters, expired, history>>

ListZonesFails(w) ==
    /\ wpc[w] = "list"
    /\ Goto(w, "fail")
    /\ UNCHANGED <<dispatch, local, scrape, dnsGauge, series, counters, expired, history>>

ZoneTags(w) ==
    /\ wpc[w] = "tags" /\ ~expired
    /\ \E answer \in TagAnswers[job] : tags' = [tags EXCEPT ![w] = answer]
    /\ Goto(w, "claim")
    /\ UNCHANGED <<dispatch, zones, picked, fetch, rows, scrape, dnsGauge, series,
                   counters, expired, history>>

\* Without search tags the tags are only decoration: count the failure, go on.
ZoneTagsFails(w) ==
    /\ wpc[w] = "tags"
    /\ IF Filtered[job]
       THEN Goto(w, "fail") /\ UNCHANGED <<tags, apiErrors>>
       ELSE /\ apiErrors' = [apiErrors EXCEPT !["resource_tagging"][Account(w)] = @ + 1]
            /\ tags' = [tags EXCEPT ![w] = {}]
            /\ Goto(w, "claim")
    /\ UNCHANGED <<dispatch, zones, picked, fetch, rows, scrape, dnsGauge, series,
                   scrapeErrors, jobSuccess, expired, history>>

\* claimZones, under the mutex; with nothing claimed the account is finished.
Claim(w) ==
    /\ wpc[w] = "claim"
    /\ LET mine == {zones[w][i] : i \in Claimable(w)} IN
         /\ picked' = [picked EXCEPT ![w] = Claimable(w)]
         /\ claimedBy' = [z \in Zones |-> IF z \in mine THEN job ELSE claimedBy[z]]
         /\ Goto(w, IF mine = {} THEN "release" ELSE "announce")
    /\ matched' = [z \in Zones |->
                     IF z \in {zones[w][i] : i \in InScope(w)}
                     THEN matched[z] \cup {job} ELSE matched[z]]
    /\ UNCHANGED <<dispatch, zones, tags, fetch, rows, cached, zonesByAccount, dns,
                   dnsGauge, series, counters, expired, outcome>>

\* Variant: all four analytics calls are made, whatever the metric groups.
AnnounceAll(w) ==
    /\ wpc[w] = "announce"
    /\ series' = [series EXCEPT
         !["zone_info"] = [z \in Zones |-> @[z] + Count(w, z)],
         !["zone_tags_info"] = [z \in Zones |->
                                  IF z \in tags[w] THEN @[z] + Count(w, z) ELSE @[z]]]
    /\ fetch' = [fetch EXCEPT ![w] = [api \in Apis |-> "running"]]
    /\ Goto(w, "fetch")
    /\ UNCHANGED <<dispatch, zones, tags, picked, rows, scrape, dnsGauge, counters,
                   expired, history>>

\* One zone_info per selected zone and its zone_tags_info; then the analytics
\* goroutines of the enabled groups start.
Announce(w) ==
    /\ wpc[w] = "announce"
    /\ series' = [series EXCEPT
         !["zone_info"] = [z \in Zones |-> @[z] + Count(w, z)],
         !["zone_tags_info"] = [z \in Zones |->
                                  IF z \in tags[w] THEN @[z] + Count(w, z) ELSE @[z]]]
    /\ fetch' = [fetch EXCEPT ![w] =
                   [api \in Apis |-> IF api \in Enabled[job] THEN "running" ELSE "off"]]
    /\ Goto(w, "fetch")
    /\ UNCHANGED <<dispatch, zones, tags, picked, rows, scrape, dnsGauge, counters,
                   expired, history>>

\* Send the family api for a set of zones, keeping those in zoneByID.
Emit(w, api, reported) ==
    series' = [series EXCEPT ![api] =
                 [z \in Zones |-> IF z \in reported \cap Mine(w) THEN @[z] + 1 ELSE @[z]]]

\* emitZoneMetrics runs for the zones with data, emitWAFMetrics and
\* emitErrorMetrics send their truncation gauge for every zone of zoneByID.
Reported(w, api) == IF api = "http" THEN HttpZones ELSE Mine(w)

FetchOK(w, api) ==
    /\ wpc[w] = "fetch" /\ fetch[w][api] = "running" /\ ~expired
    /\ api \in FatalApis
    /\ Emit(w, api, Reported(w, api))
    /\ fetch' = [fetch EXCEPT ![w][api] = "ok"]
    /\ UNCHANGED <<dispatch, wpc, zones, tags, picked, rows, scrape, dnsGauge,
                   counters, expired, history>>

FetchFails(w, api) ==
    /\ wpc[w] = "fetch" /\ fetch[w][api] = "running"
    /\ fetch' = [fetch EXCEPT ![w][api] = "err"]
    /\ apiErrors' = IF api = "dns_analytics"
                    THEN [apiErrors EXCEPT ![api][Account(w)] = @ + 1]
                    ELSE apiErrors
    /\ UNCHANGED <<dispatch, wpc, zones, tags, picked, rows, scrape, dnsGauge,
                   series, scrapeErrors, jobSuccess, expired, history>>

\* The rows the DNS query selects.  The service cuts its answer at the limit,
\* and its estimate of a row may differ from one answer to the next.
Selected(w) == {r \in DNSRows : r.zone \in Mine(w)} \cup StrayRows
SameRow(r, q) == r.zone = q.zone /\ r.type = q.type
DnsAnswers(w) ==
    {s \in SUBSET Selected(w) :
        /\ \A r, q \in s : SameRow(r, q) => r = q
        /\ Cardinality(s) <= QueryLimit
        /\ \/ Cardinality(s) = QueryLimit
           \/ \A r \in Selected(w) : \E q \in s : SameRow(r, q)}

\* The answer arrives; dnsState returns the account's entry, made if missing.
DnsAnswered(w) ==
    /\ wpc[w] = "fetch" /\ fetch[w]["dns_analytics"] = "running" /\ ~expired
    /\ \E answer \in DnsAnswers(w) : rows' = [rows EXCEPT ![w] = answer]
    /\ dns' = [dns EXCEPT ![Account(w)].known = TRUE]
    /\ fetch' = [fetch EXCEPT ![w]["dns_analytics"] = "merging"]
    /\ UNCHANGED <<dispatch, wpc, zones, tags, picked, cached, zonesByAccount,
                   claimedBy, dnsGauge, series, counters, expired, history>>

\* Variant: the truncation flag is assigned from the latest answer.
DnsMergeOverwrites(w) ==
    /\ wpc[w] = "fetch" /\ fetch[w]["dns_analytics"] = "merging"
    /\ dns' = [dns EXCEPT
         ![Account(w)].truncated = rows[w] # {} /\ Cardinality(rows[w]) >= QueryLimit,
         ![Account(w)].unmatched = @ \cup {r \in rows[w] : r.zone \notin Mine(w)}]
    /\ Emit(w, "dns_analytics", {r.zone : r \in rows[w]})
    /\ fetch' = [fetch EXCEPT ![w]["dns_analytics"] = "ok"]
    /\ UNCHANGED <<dispatch, wpc, zones, tags, picked, rows, cached, zonesByAccount,
                   claimedBy, dnsGauge, counters, expired, history>>

\* Without the mutex: flag truncation, emit the rows of claimed zones, keep the
\* others as unmatched.
DnsMerge(w) ==
    /\ wpc[w] = "fetch" /\ fetch[w]["dns_analytics"] = "merging"
    /\ LET cut == rows[w] # {} /\ Cardinality(rows[w]) >= QueryLimit
           out == {r \in rows[w] : r.zone \notin Mine(w)}
       IN  dns' = [dns EXCEPT ![Account(w)].truncated = @ \/ cut,
                              ![Account(w)].unmatched = @ \cup out]
    /\ Emit(w, "dns_analytics", {r.zone : r \in rows[w]})
    /\ fetch' = [fetch EXCEPT ![w]["dns_analytics"] = "ok"]
    /\ UNCHANGED <<dispatch, wpc, zones, tags, picked, rows, cached, zonesByAccount,
                   claimedBy, dnsGauge, counters, expired, history>>

\* Variant: only the HTTP call's error is returned.
JoinHttpOnly(w) ==
    /\ wpc[w] = "fetch"
    /\ \A api \in Apis : fetch[w][api] \notin {"running", "merging"}
    /\ Goto(w, IF fetch[w]["http"] = "err" THEN "fail" ELSE "release")
    /\ UNCHANGED <<dispatch, local, scrape, dnsGauge, series, counters, expired, history>>

\* The inner wg.Wait, then errors.Join of the three fatal errors.
Join(w) ==
    /\ wpc[w] = "fetch"
    /\ \A api \in Apis : fetch[w][api] \notin {"running", "merging"}
    /\ Goto(w, IF \E api \in FatalApis : fetch[w][api] = "err" THEN "fail" ELSE "release")
    /\ UNCHANGED <<dispatch, local, scrape, dnsGauge, series, counters, expired, history>>

\* Variant: the failure stops the loop, but firstErr is not set.
RecordFlagOnly(w) ==
    /\ wpc[w] = "fail"
    /\ failed' = TRUE
    /\ Goto(w, "release")
    /\ UNCHANGED <<job, dpc, ids, next, sem, jobErr, local, scrape, dnsGauge, series,
                   counters, expired, history>>

\* errOnce.Do keeps the first error, failed.Store(true) stops the dispatcher.
RecordFailure(w) ==
    /\ wpc[w] = "fail"
    /\ jobErr' = TRUE
    /\ failed' = TRUE
    /\ Goto(w, "release")
    /\ UNCHANGED <<job, dpc, ids, next, sem, local, scrape, dnsGauge, series,
                   counters, expired, history>>

\* The deferred calls run in reverse order: <-sem first, wg.Done last.
Release(w) ==
    /\ wpc[w] = "release"
    /\ sem' = sem - 1
    /\ Goto(w, "exit")
    /\ UNCHANGED <<job, dpc, ids, next, failed, jobErr, local, scrape, dnsGauge,
                   series, counters, expired, history>>

Exit(w) ==
    /\ wpc[w] = "exit"
    /\ Goto(w, "gone")
    /\ UNCHANGED <<dispatch, local, scrape, dnsGauge, series, counters, expired, history>>

-----------------------------------------------------------------------------

CallAccounts == ListAccounts \/ ListAccountsFails

Dispatch ==
    \/ ResolveConfigured
    \/ SkipSeen \/ Acquire \/ StopAdmitting \/ Admit \/ AllAdmitted
    \/ Wait \/ Report \/ EmitGauges

\* Worker w is answered, or gets an error, by the Cloudflare API.
Call(w) ==
    \/ ListZones(w) \/ ListZonesFails(w)
    \/ ZoneTags(w) \/ ZoneTagsFails(w)
    \/ \E api \in Apis : FetchOK(w, api) \/ FetchFails(w, api)
    \/ DnsAnswered(w)

Step(w) ==
    \/ Lookup(w) \/ Claim(w) \/ Announce(w) \/ DnsMerge(w)
    \/ Join(w) \/ RecordFailure(w) \/ Release(w) \/ Exit(w)

\* Collect has returned.
Done == dpc = "done" /\ UNCHANGED vars

Next ==
    \/ CallAccounts \/ Dispatch
    \/ \E w \in Workers : Call(w) \/ Step(w)
    \/ Deadline
    \/ Done

\* The Go scheduler runs every runnable goroutine and the deadline passes.
\* Nothing makes the service answer: a call is only sure to return once the
\* context it was given is done.
Fairness ==
    /\ WF_vars(Dispatch)
    /\ WF_vars(expired /\ CallAccounts)
    /\ \A w \in Workers : WF_vars(Step(w)) /\ WF_vars(expired /\ Call(w))
    /\ WF_vars(Deadline)

Spec     == Init /\ [][Next]_vars
FairSpec == Spec /\ Fairness

-----------------------------------------------------------------------------
(* Properties *)

\* No series is sent twice on the channel: the registry would reject the whole
\* scrape (the comment on type scrape, collector.go:253-256).  Overlapping
\* jobs, repeated accounts and repeated zones must not break it.
NoDuplicateSeries == \A f \in Families, z \in Zones : series[f][z] <= 1

\* The DNS state of an account is written without the mutex (collector.go:568
\* and 580): no two goroutines may hold it at once.
DnsStateRaceFree ==
    \A v, w \in Workers :
       /\ wpc[v] = "fetch" /\ fetch[v]["dns_analytics"] = "merging"
       /\ wpc[w] = "fetch" /\ fetch[w]["dns_analytics"] = "merging"
       /\ Account(v) = Account(w)
       => v = w

\* At most Limit accounts of a job are scraped at once (Options.AccountConcurrency),
\* the one the dispatcher is about to admit included.
ConcurrencyBound ==
    Cardinality(Holders) + (IF dpc = "check" THEN 1 ELSE 0) <= Limit

\* If this step starts worker w of a serial job, no other worker is at work.
StartsAlone(w) ==
    Limit = 1 /\ wpc[w] = "idle" /\ wpc'[w] # "idle" =>
       ~jobErr /\ \A v \in Workers : wpc[v] \in {"idle", "exit", "gone"}

\* With concurrency 1 the loop is the old serial one (collector.go:413-419): an
\* account starts only when every earlier one, its error capture included, is
\* finished, and none starts after a failure.
SerialFailFast == [][\A w \in Workers : StartsAlone(w)]_vars

\* The first job in config order that selects a zone claims it, for good
\* (the comment on type scrape, collector.go:258-260).
FirstJobWins ==
    \A z \in Zones :
       matched[z] # {} => claimedBy[z] \in matched[z]
                          /\ \A j \in matched[z] : claimedBy[z] <= j

\* A job about to be reported successful has listed every one of its accounts,
\* and (without search tags) every zone of those accounts is claimed by it or
\* by an earlier job: nothing of what it selects was silently skipped.
SuccessMeansCovered ==
    dpc = "report" /\ ~jobErr =>
       \A i \in DOMAIN ids :
          /\ ids[i] \in cached
          /\ ~Filtered[job] =>
               \A k \in DOMAIN zonesByAccount[ids[i]] :
                  claimedBy[zonesByAccount[ids[i]][k]] \in 1..job

\* The zones an answered call reports; DNS rows may be cut at the limit.
HasData(api) ==
    CASE api = "http" -> HttpZones
      [] api = "dns_analytics" -> {r.zone : r \in DNSRows} \cap Zones
      [] OTHER -> Zones

\* Once Collect is over, a zone claimed by a job that succeeded has the series
\* of every group its job enables, unless the loss shows in apiErrors or in the
\* account's truncation gauge.
SuccessMeansPublished ==
    dpc = "done" =>
       \A z \in Zones : claimedBy[z] # 0 /\ outcome[claimedBy[z]] = "ok" =>
          /\ series["zone_info"][z] = 1
          /\ \A api \in Enabled[claimedBy[z]] : z \in HasData(api) =>
               \/ series[api][z] = 1
               \/ /\ api = "dns_analytics"
                  /\ \E a \in Accounts :
                        apiErrors[api][a] > 0 \/ dnsGauge[a].truncated

\* This step keeps all that the DNS state of account a says.
DnsGrows(a) ==
    /\ dns[a].known => dns'[a].known
    /\ dns[a].truncated => dns'[a].truncated
    /\ dns[a].unmatched \subseteq dns'[a].unmatched

\* What one job learnt about an account's DNS answers is never undone by a
\* later job of the scrape (the comment on scrape.dns, collector.go:273-276).
DnsStateOnlyGrows == [][\A a \in Accounts : DnsGrows(a)]_vars

\* "the same out-of-scope row returned to two jobs' queries is counted once"
\* (collector.go:325-326): the account's gauge has each row only once.
UnmatchedCountedOnce ==
    \A a \in Accounts : \A r, q \in dnsGauge[a].unmatched : SameRow(r, q) => r = q

\* This step keeps the zone list of account a.
KeepsList(a) == a \in cached' /\ zonesByAccount'[a] = zonesByAccount[a]

\* The zone list of an account is fetched at most once per scrape, so that all
\* jobs work from the same list.
ZonesFetchedOnce == [][\A a \in cached : KeepsList(a)]_vars

\* job_success is 0 exactly for the names of jobs that failed in this scrape,
\* and scrape_errors_total counts those failures (the help text of job_success,
\* collector.go:162).
JobSuccessTruthful ==
    dpc = "done" =>
       \A n \in Names :
          LET errors == {j \in Jobs : JobName[j] = n /\ outcome[j] = "error"} IN
            /\ (jobSuccess[n] = "0") <=> (errors # {})
            /\ scrapeErrors[n] = Cardinality(errors)

\* Collect returns, whatever the service does and in whatever order the
\* goroutines run.
Termination == <>(dpc = "done")

-----------------------------------------------------------------------------
(* The inductive strengthening of the safety properties above *)

\* Where the dispatcher stands bounds what the workers may be doing.
PhaseInv ==
    /\ dpc \in {"gauges", "done"} <=> job = NumJobs + 1
    /\ dpc \in {"resolve", "gauges", "done"} =>
         \A w \in Workers : wpc[w] = "idle"
    /\ dpc = "report" => \A w \in Workers : wpc[w] \in {"idle", "gone"}
    /\ dpc = "check" => next <= Len(ids) /\ ~Seen(next)
    /\ dpc = "resolve" => ~jobErr
    /\ dpc \in {"loop", "check", "wait"} => (jobErr <=> failed)

\* Workers are started in order, one per distinct account.
DispatchInv ==
    \A w \in Workers : wpc[w] # "idle" =>
       /\ w < next /\ w <= Len(ids)
       /\ \A v \in Workers : wpc[v] # "idle" /\ ids[v] = ids[w] => v = w

\* The tokens in sem are those of the workers and of the dispatcher.
SemInv ==
    dpc \in {"loop", "check", "wait"} =>
       /\ sem = Cardinality(Holders) + (IF dpc = "check" THEN 1 ELSE 0)
       /\ sem <= Limit

\* What a worker picked is its own, and each zone of it is picked once.
ClaimInv ==
    /\ \A z \in Zones : claimedBy[z] <= job
    /\ \A w \in Workers :
         /\ wpc[w] \in {"idle", "lookup", "list", "tags", "claim"} => picked[w] = {}
         /\ picked[w] \subseteq DOMAIN zones[w]
         /\ \A i, k \in picked[w] : zones[w][i] = zones[w][k] => i = k
         /\ \A i \in picked[w] : claimedBy[zones[w][i]] = job
    /\ \A v, w \in Workers : v # w => Mine(v) \cap Mine(w) = {}

\* A series not yet sent belongs to whoever will send it.
SeriesInv ==
    /\ \A f \in Families, z \in Zones :
         series[f][z] \in {0, 1} /\ (claimedBy[z] = 0 => series[f][z] = 0)
    /\ \A w \in Workers : \A z \in Mine(w) :
         /\ wpc[w] = "announce" => \A f \in Families : series[f][z] = 0
         /\ wpc[w] = "fetch" => \A api \in Apis :
              fetch[w][api] \in {"running", "merging"} => series[api][z] = 0
    /\ \A w \in Workers : wpc[w] = "fetch" => \A api \in Apis :
         fetch[w][api] \in {"running", "merging"} => api \in Enabled[job]
    /\ \A z \in Zones :
         claimedBy[z] = job /\ series["zone_info"][z] = 0 =>
            \E w \in Workers : wpc[w] = "announce" /\ z \in Mine(w)

\* Whoever is about to fetch a zone list is the only one of its account.
CacheInv ==
    \A w \in Workers : wpc[w] = "list" => Account(w) \notin cached

\* Together they are inductive, and imply the safety properties they strengthen.
IInv ==
    /\ TypeOK /\ PhaseInv /\ DispatchInv /\ SemInv
    /\ ClaimInv /\ SeriesInv /\ CacheInv

\* What the first job to select a zone owns, it keeps; a job selects a zone in
\* its own turn only.
OwnerInv ==
    \A z \in Zones :
       /\ matched[z] \subseteq 1..job
       /\ claimedBy[z] # 0 <=> matched[z] # {}
       /\ claimedBy[z] # 0 => claimedBy[z] \in matched[z]
       /\ \A j \in matched[z] : claimedBy[z] <= j

\* The jobs of a name that failed; whether the last one reported is among them.
Failures(n)   == {j \in Jobs : JobName[j] = n /\ outcome[j] = "error"}
LastFailed(n) ==
    \E j \in Failures(n) :
       \A k \in Jobs : k > j /\ JobName[k] = n => outcome[k] = "pending"

\* The jobs before the current one are counted under their names, whatever the
\* names: the last one of a name wins its job_success.
ResultInv ==
    /\ \A j \in Jobs : outcome[j] = "pending" <=> j >= job
    /\ \A n \in Names : scrapeErrors[n] = Cardinality(Failures(n))
    /\ \A n \in Names : jobSuccess[n] = "0" <=> LastFailed(n)

\* Worker w is past its work, and no worker of the job has failed so far.
LeftWell(w) == wpc[w] \in {"release", "exit", "gone"} /\ ~jobErr

\* Worker w works from the list every other job of the scrape works from.
Listed(w) == Account(w) \in cached /\ zones[w] = zonesByAccount[Account(w)]

AllClaimed(w) == \A k \in DOMAIN zones[w] : claimedBy[zones[w][k]] \in 1..job

\* A worker that gets through without an error has listed its account and left
\* no zone of it unclaimed, unless its job filters.
Covered(w) ==
    /\ wpc[w] \in {"tags", "claim", "announce", "fetch"} \/ LeftWell(w) => Listed(w)
    /\ wpc[w] \in {"announce", "fetch"} \/ LeftWell(w) =>
         Filtered[job] \/ AllClaimed(w)

\* Each account the loop has gone past has a worker, and the loop of a job
\* without an error goes past all of them.
CoverInv ==
    /\ dpc = "resolve" => next = 1
    /\ \A i \in 1..(next - 1) :
          \E w \in Workers : wpc[w] # "idle" /\ ids[w] = ids[i]
    /\ dpc \in {"wait", "report"} /\ ~jobErr => next > Len(ids)
    /\ \A w \in Workers : Covered(w)

\* A DNS answer was lost or cut, and apiErrors or a truncation flag says so.
DnsLoss ==
    \E a \in Accounts : apiErrors["dns_analytics"][a] > 0 \/ dns[a].truncated

\* Zone z has the series of api, or its absence is accounted for.
Shown(api, z) ==
    z \in HasData(api) => \/ series[api][z] = 1
                          \/ api = "dns_analytics" /\ DnsLoss

Published(j, z) ==
    series["zone_info"][z] = 1 /\ \A api \in Enabled[j] : Shown(api, z)

\* An analytics call of worker w that is over has shown its series or its loss.
Delivered(w) ==
    /\ fetch[w]["dns_analytics"] = "merging" => rows[w] \in DnsAnswers(w)
    /\ fetch[w]["dns_analytics"] = "err" => DnsLoss
    /\ \A api \in Enabled[job] : fetch[w][api] # "off"
    /\ \A api \in Apis, z \in Mine(w) : fetch[w][api] = "ok" => Shown(api, z)

\* Where the series of a claimed zone are: with a job that succeeded, with a
\* worker that is still to send them, or with one that has sent them all.
PublishInv ==
    /\ dpc = "done" => dnsGauge = dns
    /\ \A z \in Zones : claimedBy[z] = job => \E w \in Workers : z \in Mine(w)
    /\ \A z \in Zones : claimedBy[z] \in Jobs /\ outcome[claimedBy[z]] = "ok" =>
         Published(claimedBy[z], z)
    /\ \A w \in Workers : wpc[w] = "fetch" => Delivered(w)
    /\ \A w \in Workers : LeftWell(w) => \A z \in Mine(w) : Published(job, z)

\* IInv with what the results of the jobs rest on.
FullInv == IInv /\ OwnerInv /\ ResultInv /\ CoverInv /\ PublishInv

Ledger == INSTANCE ScrapeLedger WITH turn <- job, owner <- claimedBy

\* One scrape implements the ledger: what a job publishes is its own, once, and
\* of its groups, and each zone it took is published before its turn ends.
LedgerSpec == Ledger!Spec
=============================================================================
