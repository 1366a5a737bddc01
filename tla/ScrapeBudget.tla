---------------------------- MODULE ScrapeBudget ----------------------------
(***************************************************************************)
(* How one scrape spends its time (Collect, collectJob, collectAccount and *)
(* fetchTimed in internal/collector/collector.go).  All jobs, accounts and *)
(* calls share the deadline of the scrape.  The analytics calls have a     *)
(* timeout of their own besides; the REST calls (accounts, zones, tags)    *)
(* have only the HTTP client's backstop of five minutes, which the SDK     *)
(* waits for in each of its attempts.                                      *)
(*                                                                         *)
(* A call that is not slow answers within Quick; a slow one never answers  *)
(* and ends when the context or the client gives up.  Calls that fail      *)
(* early, zones and series are the subject of Collector.                   *)
(***************************************************************************)
EXTENDS Integers, Sequences, FiniteSets, FiniteSetsExt, Sums

CONSTANTS
    Accounts,      \* account IDs
    AllAccounts,   \* the answer of ListAccounts
    JobAccounts,   \* the jobs' accounts in config order; << >> asks ListAccounts
    Filtered,      \* [Jobs -> BOOLEAN], the job has searchTags
    Enabled,       \* [Jobs -> SUBSET Apis], its metric groups
    Settings,      \* timeouts and concurrency, as Load accepts them
    SlowCalls,     \* the sets of <<account, call>> that may be slow in a scrape
    Quick,         \* time within which a call answers that is not slow
    ClientTimeout, \* clientHTTPTimeout
    RestTimeout    \* the SDK's attempts at a REST call, each of ClientTimeout

Jobs == DOMAIN JobAccounts

FatalApis == {"http", "waf", "errors"}
Apis      == FatalApis \cup {"dns_analytics"}

ASSUME BudgetAssumption ==
    /\ IsFiniteSet(Accounts) /\ AllAccounts \in Seq(Accounts)
    /\ JobAccounts \in Seq(Seq(Accounts)) \ {<< >>}
    /\ Enabled \in [Jobs -> SUBSET Apis]
    /\ \A s \in Settings :
         /\ s.scrapeTimeout \in Nat \ {0} /\ s.accountConcurrency \in Nat \ {0}
         /\ s.requestTimeout \in 1..s.scrapeTimeout
         /\ s.dnsRequestTimeout \in 1..s.scrapeTimeout
    /\ Quick \in Nat \ {0} /\ ClientTimeout \in Nat \ {0}
    /\ RestTimeout \in Nat \ {0}

VARIABLES
    opts,     \* the settings of this process, one of Settings
    slow,     \* the calls that are slow in this scrape, one of SlowCalls
    now,      \* time since Collect was called
    job,      \* the job being collected; Len(JobAccounts) + 1 after the last
    ids,      \* its accounts still to be admitted
    listing,  \* ListAccounts is under way
    asked,    \* when it was called
    failed,   \* an account of the job, or ListAccounts, has failed
    stage,    \* [Accounts -> where collectAccount stands]
    began,    \* [Accounts -> when it got there]
    call,     \* [Accounts -> [Apis -> state of that analytics call]]
    cached,   \* accounts whose zones are known to this scrape
    outcome   \* [Jobs -> what collectJob returned]

vars == <<opts, slow, now, job, ids, listing, asked, failed, stage, began, call,
          cached, outcome>>

Idle == /\ stage' = [a \in Accounts |-> "idle"]
        /\ began' = [a \in Accounts |-> 0]
        /\ call' = [a \in Accounts |-> [api \in Apis |-> "off"]]

Init ==
    /\ opts \in Settings /\ slow \in SlowCalls
    /\ now = 0 /\ job = 1
    /\ ids = JobAccounts[1] /\ listing = (JobAccounts[1] = << >>) /\ asked = 0
    /\ failed = FALSE
    /\ stage = [a \in Accounts |-> "idle"]
    /\ began = [a \in Accounts |-> 0]
    /\ call = [a \in Accounts |-> [api \in Apis |-> "off"]]
    /\ cached = {}
    /\ outcome = [j \in Jobs |-> "pending"]

-----------------------------------------------------------------------------
(* When calls end *)

\* Variant: the call's context is derived from the background context.
GivesUpAlone(t, own) == Min({t + own, t + ClientTimeout})

\* A call made at t under a timeout of its own is given up at the earliest of
\* that, the scrape's deadline and the client's backstop.
GivesUp(t, own) == Min({t + own, opts.scrapeTimeout, t + ClientTimeout})

\* The REST calls have no timeout of their own.
RestGivesUp(t) == Min({opts.scrapeTimeout, t + RestTimeout})

Own(api) == IF api = "dns_analytics" THEN opts.dnsRequestTimeout ELSE opts.requestTimeout

\* A call c for account a, made at t and given up at end, answers now.
MayAnswer(a, c, t, end) == <<a, c>> \notin slow /\ now < end /\ now <= t + Quick

\* It must have ended by now.
Overdue(a, c, t, end) == now >= end \/ (<<a, c>> \notin slow /\ now >= t + Quick)

-----------------------------------------------------------------------------
(* Collect and collectJob *)

Working(a) == stage[a] \notin {"idle", "gone"}

\* Variant: the semaphore has one token too many.
SlotFreeLate == Cardinality({a \in Accounts : Working(a)}) <= opts.accountConcurrency

SlotFree == Cardinality({a \in Accounts : Working(a)}) < opts.accountConcurrency

ListAccounts ==
    /\ listing /\ now < RestGivesUp(asked) /\ now <= asked + Quick
    /\ listing' = FALSE
    /\ ids' = AllAccounts
    /\ UNCHANGED <<opts, slow, now, job, asked, failed, stage, began, call, cached, outcome>>

ListAccountsFails ==
    /\ listing /\ now >= RestGivesUp(asked)
    /\ listing' = FALSE
    /\ failed' = TRUE
    /\ UNCHANGED <<opts, slow, now, job, ids, asked, stage, began, call, cached, outcome>>

Seen(a) == stage[a] # "idle"

\* The loop takes the next account; one seen before is skipped, and none is
\* admitted after a failure.
CanAdmit == ~listing /\ ids # << >> /\ (Seen(Head(ids)) \/ SlotFree)

Admit ==
    /\ CanAdmit
    /\ IF Seen(Head(ids))
       THEN ids' = Tail(ids) /\ UNCHANGED <<stage, began>>
       ELSE IF failed
            THEN ids' = << >> /\ UNCHANGED <<stage, began>>
            ELSE /\ ids' = Tail(ids)
                 /\ stage' = [stage EXCEPT ![Head(ids)] = "zones"]
                 /\ began' = [began EXCEPT ![Head(ids)] = now]
    /\ UNCHANGED <<opts, slow, now, job, listing, asked, failed, call, cached, outcome>>

CanEndJob ==
    /\ job \in Jobs /\ ~listing /\ ids = << >>
    /\ \A a \in Accounts : ~Working(a)

\* wg.Wait returns, the job's result is known and the next job begins.
EndJob ==
    /\ CanEndJob
    /\ outcome' = [outcome EXCEPT ![job] = IF failed THEN "error" ELSE "ok"]
    /\ job' = job + 1
    /\ ids' = IF job + 1 \in Jobs THEN JobAccounts[job + 1] ELSE << >>
    /\ listing' = (job + 1 \in Jobs /\ JobAccounts[job + 1] = << >>)
    /\ asked' = now
    /\ failed' = FALSE
    /\ Idle
    /\ UNCHANGED <<opts, slow, now, cached>>

-----------------------------------------------------------------------------
(* collectAccount *)

Goto(a, s) == stage' = [stage EXCEPT ![a] = s] /\ began' = [began EXCEPT ![a] = now]

Quiet == UNCHANGED <<opts, slow, now, job, ids, listing, asked, outcome>>

ZonesKnown(a) ==
    /\ stage[a] = "zones"
    /\ a \in cached \/ MayAnswer(a, "zones", began[a], RestGivesUp(began[a]))
    /\ cached' = cached \cup {a}
    /\ Goto(a, "tags")
    /\ Quiet /\ UNCHANGED <<failed, call>>

ListZonesFails(a) ==
    /\ stage[a] = "zones" /\ a \notin cached /\ now >= RestGivesUp(began[a])
    /\ failed' = TRUE
    /\ Goto(a, "gone")
    /\ Quiet /\ UNCHANGED <<call, cached>>

\* The zones are claimed; with none left the account is finished, otherwise all
\* enabled calls start at once.
Select(a) ==
    \/ Goto(a, "gone") /\ UNCHANGED call
    \/ /\ Goto(a, "fetch")
       /\ call' = [call EXCEPT ![a] =
                     [api \in Apis |-> IF api \in Enabled[job] THEN "running" ELSE "off"]]

ZoneTags(a) ==
    /\ stage[a] = "tags" /\ MayAnswer(a, "tags", began[a], RestGivesUp(began[a]))
    /\ Select(a)
    /\ Quiet /\ UNCHANGED <<failed, cached>>

\* Fatal only if the tags decide which zones are scraped.
ZoneTagsFails(a) ==
    /\ stage[a] = "tags" /\ now >= RestGivesUp(began[a])
    /\ IF Filtered[job]
       THEN failed' = TRUE /\ Goto(a, "gone") /\ UNCHANGED call
       ELSE Select(a) /\ UNCHANGED failed
    /\ Quiet /\ UNCHANGED cached

\* Variant: the DNS call is made after the others, which may use up their time.
EndsAtInTurn(a, api) ==
    IF api = "dns_analytics" THEN GivesUp(began[a] + opts.requestTimeout, Own(api))
                             ELSE GivesUp(began[a], Own(api))

EndsAt(a, api) == GivesUp(began[a], Own(api))

Running(a, api) == stage[a] = "fetch" /\ call[a][api] = "running"

Fetched(a, api) ==
    /\ Running(a, api) /\ MayAnswer(a, api, began[a], EndsAt(a, api))
    /\ call' = [call EXCEPT ![a][api] = "ok"]
    /\ Quiet /\ UNCHANGED <<failed, stage, began, cached>>

FetchFails(a, api) ==
    /\ Running(a, api) /\ now >= EndsAt(a, api)
    /\ call' = [call EXCEPT ![a][api] = "err"]
    /\ Quiet /\ UNCHANGED <<failed, stage, began, cached>>

AllFetched(a) == stage[a] = "fetch" /\ \A api \in Apis : call[a][api] # "running"

\* Variant: an error of the DNS call is joined with the others.
JoinAll(a) ==
    /\ AllFetched(a)
    /\ failed' = (failed \/ \E api \in Apis : call[a][api] = "err")
    /\ Goto(a, "gone")
    /\ Quiet /\ UNCHANGED <<call, cached>>

\* wg.Wait returns; the error of a fatal call fails the account and its job.
Join(a) ==
    /\ AllFetched(a)
    /\ failed' = (failed \/ \E api \in FatalApis : call[a][api] = "err")
    /\ Goto(a, "gone")
    /\ Quiet /\ UNCHANGED <<call, cached>>

-----------------------------------------------------------------------------

RestOverdue(a) ==
    \/ stage[a] = "zones" /\ (a \in cached \/ Overdue(a, "zones", began[a], RestGivesUp(began[a])))
    \/ stage[a] = "tags" /\ Overdue(a, "tags", began[a], RestGivesUp(began[a]))

\* A step of the exporter is ready or a call must end: no time passes first.
Due ==
    \/ listing /\ now >= Min({RestGivesUp(asked), asked + Quick})
    \/ CanAdmit \/ CanEndJob
    \/ \E a \in Accounts : RestOverdue(a) \/ AllFetched(a)
    \/ \E a \in Accounts, api \in Apis :
          Running(a, api) /\ Overdue(a, api, began[a], EndsAt(a, api))

Tick ==
    /\ job \in Jobs /\ ~Due
    /\ now' = now + 1
    /\ UNCHANGED <<opts, slow, job, ids, listing, asked, failed, stage, began, call,
                   cached, outcome>>

Done == job \notin Jobs /\ UNCHANGED vars

Next ==
    \/ ListAccounts \/ ListAccountsFails \/ Admit \/ EndJob \/ Tick \/ Done
    \/ \E a \in Accounts :
         \/ ZonesKnown(a) \/ ListZonesFails(a) \/ ZoneTags(a) \/ ZoneTagsFails(a) \/ Join(a)
         \/ \E api \in Apis : Fetched(a, api) \/ FetchFails(a, api)

Spec == Init /\ [][Next]_vars

-----------------------------------------------------------------------------
(* Properties *)

\* Types of the variables, and the bound on the accounts at work.
TypeOK ==
    /\ opts \in Settings /\ slow \in SlowCalls
    /\ now \in Nat /\ job \in Nat /\ asked \in Nat
    /\ ids \in Seq(Accounts)
    /\ listing \in BOOLEAN /\ failed \in BOOLEAN
    /\ stage \in [Accounts -> {"idle", "zones", "tags", "fetch", "gone"}]
    /\ began \in [Accounts -> Nat]
    /\ call \in [Accounts -> [Apis -> {"off", "running", "ok", "err"}]]
    /\ cached \subseteq Accounts
    /\ outcome \in [Jobs -> {"pending", "ok", "error"}]
    /\ Cardinality({a \in Accounts : Working(a)}) <= opts.accountConcurrency

\* Collect is over by the scrape's deadline, although jobs and accounts queue
\* up behind calls that never answer (main.go:95-97 builds on it).
ScrapeBounded == now <= opts.scrapeTimeout

MaxOf(S) == Max(S \cup {0})

\* A slow call does not add its latency to the other three (collector.go:495-496):
\* an account's analytics take no longer than the longest of their timeouts.
SlowCallOverlaps ==
    \A a \in Accounts : stage[a] = "fetch" =>
       now - began[a] <= MaxOf({Own(api) : api \in Enabled[job]})

\* What a call of an account may take at most, before the scrape's deadline.
Cost(a, c, own) == IF <<a, c>> \in slow THEN own ELSE Quick

AccountsOf(j) ==
    LET l == IF JobAccounts[j] = << >> THEN AllAccounts ELSE JobAccounts[j]
    IN  {l[i] : i \in DOMAIN l}

AnalyticsCost(j, a) == MaxOf({Cost(a, api, Own(api)) : api \in Enabled[j]})

AccountCost(j, a) ==
    Cost(a, "zones", RestTimeout) + Cost(a, "tags", RestTimeout) + AnalyticsCost(j, a)

\* Accounts go in rounds of accountConcurrency, a round lasts as long as its
\* slowest account, and ListAccounts comes before them.
Rounds(j) == (Cardinality(AccountsOf(j)) + opts.accountConcurrency - 1)
                \div opts.accountConcurrency

RoundCost(j) == MaxOf({AccountCost(j, a) : a \in AccountsOf(j)})

ListCost(j) == IF JobAccounts[j] = << >> THEN Quick ELSE 0

JobCost(j) == ListCost(j) + Rounds(j) * RoundCost(j)

\* What the first n jobs may take at most.
JobsCost(n) == SumTo([j \in Jobs |-> JobCost(j)], n)

\* No timeout cuts off a call that is not slow, and all jobs fit the budget.
Fits ==
    /\ Quick < RestTimeout /\ Quick < ClientTimeout
    /\ Quick < opts.requestTimeout /\ Quick < opts.dnsRequestTimeout
    /\ JobsCost(Len(JobAccounts)) < opts.scrapeTimeout

\* The job itself makes a call whose failure is fatal and which is slow.
Culprit(j) ==
    \E a \in AccountsOf(j) :
       \E c \in {"zones"} \cup (IF Filtered[j] THEN {"tags"} ELSE {}) \cup (Enabled[j] \cap FatalApis) :
          <<a, c>> \in slow

\* The rule for choosing the timeouts: if the worst case of all rounds fits the
\* scrape's budget, a job fails only for a slow call of its own whose failure is
\* fatal: never for a slow DNS call (config.go:99-101), for another job's slow
\* call, or for want of time.
FailsOnlyForItsOwn ==
    \A j \in Jobs : outcome[j] = "error" /\ Fits => Culprit(j)

\* "With no filters the tags are only decoration for zone_tags_info, so keep
\* going without them rather than losing every metric for the account"
\* (collector.go:453-454): a job without filters fails only if a call other
\* than for tags is slow.
TagsAreDecoration ==
    \A j \in Jobs : outcome[j] = "error" /\ ~Filtered[j] =>
       \E p \in slow : p[2] # "tags"
=============================================================================
