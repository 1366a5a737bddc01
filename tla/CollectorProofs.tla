-------------------------- MODULE CollectorProofs --------------------------
(***************************************************************************)
(* Proofs about Collector for every set of accounts, zones and jobs, every *)
(* concurrency limit and every answer of the service: what no step may do  *)
(* to the claims, tokens and counters, then what a scrape reports of its   *)
(* jobs, and that it keeps the ledger ScrapeLedger describes.              *)
(***************************************************************************)
EXTENDS Collector, TLAPS, FiniteSetTheorems, WellFoundedInduction

USE DEF vars, dispatch, local, scrape, counters, history

-----------------------------------------------------------------------------
(* Counting *)

\* A zone is counted once by the worker that picked it and not at all by the
\* others: the loop of collectAccount sends one zone_info for it.
LEMMA CountOne ==
    ASSUME TypeOK, ClaimInv, NEW w \in Workers, NEW z \in Zones
    PROVE  Count(w, z) = IF z \in Mine(w) THEN 1 ELSE 0
<1> DEFINE P == {i \in picked[w] : zones[w][i] = z}
<1>1. CASE z \in Mine(w)
  <2>1. PICK i \in picked[w] : zones[w][i] = z
    BY <1>1 DEF Mine
  <2>2. P = {i}
    BY <2>1 DEF ClaimInv
  <2> QED
    BY <1>1, <2>2, FS_Singleton DEF Count
<1>2. CASE z \notin Mine(w)
  <2>1. P = {}
    BY <1>2 DEF Mine
  <2> QED
    BY <1>2, <2>1, FS_EmptySet DEF Count
<1> QED
  BY <1>1, <1>2

\* The workers that hold a token are finitely many.
LEMMA HoldersFinite == IsFiniteSet(Holders) /\ Cardinality(Holders) \in Nat
<1>1. IsFiniteSet(Workers)
  BY FS_Interval, JobsAssumption DEF Workers
<1> QED
  BY <1>1, FS_Subset, FS_CardinalityType DEF Holders

\* Before the jobs are over there is a current job.
LEMMA CurrentJob ==
    ASSUME TypeOK, PhaseInv, dpc \notin {"gauges", "done"}
    PROVE  job \in Jobs /\ job <= NumJobs
BY JobsAssumption DEF TypeOK, PhaseInv, Jobs

\* A started worker runs within a job and has an account of its own.
LEMMA ActiveWorker ==
    ASSUME TypeOK, PhaseInv, DispatchInv, NEW w \in Workers, wpc[w] # "idle"
    PROVE  /\ job \in Jobs /\ job <= NumJobs
           /\ Account(w) \in Accounts
           /\ wpc[w] # "gone" => dpc \in {"loop", "check", "wait"}
<1>1. dpc \notin {"gauges", "done", "resolve"}
  BY DEF PhaseInv
<1>2. job \in Jobs /\ job <= NumJobs
  BY <1>1, CurrentJob
<1>3. w \in 1..Len(ids)
  BY DEF DispatchInv, Workers
<1>4. Account(w) \in Accounts
  BY <1>3 DEF TypeOK, Account
<1> QED
  BY <1>1, <1>2, <1>4 DEF TypeOK, PhaseInv

-----------------------------------------------------------------------------
(* Types of the values the actions assign *)

\* Starting a job keeps the dispatcher's variables in their types.
LEMMA StartJobType ==
    ASSUME TypeOK, NEW accounts \in Seq(Accounts), Len(accounts) <= MaxAccounts,
           StartJob(accounts)
    PROVE  /\ ids' \in Seq(Accounts) /\ Len(ids') <= MaxAccounts
           /\ next' \in 1..(MaxAccounts + 1)
           /\ sem' = 0 /\ failed' = FALSE /\ dpc' = "loop"
           /\ job' = job /\ jobErr' = jobErr
<1>1. ids' = accounts /\ next' = 1 /\ sem' = 0 /\ failed' = FALSE /\ dpc' = "loop"
      /\ job' = job /\ jobErr' = jobErr
  BY DEF StartJob
<1>2. MaxAccounts \in Nat \ {0}
  BY JobsAssumption
<1>3. 1 \in 1..(MaxAccounts + 1)
  BY <1>2
<1> QED
  BY <1>1, <1>3

\* One more failed call keeps apiErrors a table of counts.
LEMMA CountError ==
    ASSUME NEW errors \in [CountedApis -> [Accounts -> Nat]],
           NEW api \in CountedApis, NEW a \in Accounts
    PROVE  [errors EXCEPT ![api][a] = @ + 1] \in [CountedApis -> [Accounts -> Nat]]
OBVIOUS

\* Making an account's DNS entry keeps the table of entries.
LEMMA MarkKnown ==
    ASSUME NEW states \in [Accounts -> DnsStates], NEW a \in Accounts
    PROVE  [states EXCEPT ![a].known = TRUE] \in [Accounts -> DnsStates]
<1>1. [states[a] EXCEPT !.known = TRUE] \in DnsStates
  BY DEF DnsStates
<1> QED
  BY <1>1

\* Merging an answer into an account's DNS entry keeps it too.
LEMMA MergeAnswer ==
    ASSUME NEW states \in [Accounts -> DnsStates], NEW a \in Accounts,
           NEW cut \in BOOLEAN, NEW out \in SUBSET DNSRows
    PROVE  [states EXCEPT ![a].truncated = @ \/ cut, ![a].unmatched = @ \cup out]
              \in [Accounts -> DnsStates]
<1> DEFINE st == [states[a] EXCEPT !.truncated = @ \/ cut, !.unmatched = @ \cup out]
<1>1. st \in DnsStates
  BY DEF DnsStates
<1>2. [states EXCEPT ![a].truncated = @ \/ cut, ![a].unmatched = @ \cup out]
      = [states EXCEPT ![a] = st]
  BY DEF DnsStates
<1> HIDE DEF st
<1> QED
  BY <1>1, <1>2

-----------------------------------------------------------------------------
(* Each part of the inductive invariant is preserved by every step. *)

\* Every step keeps the types.
LEMMA TypeStep == IInv /\ [Next]_vars => TypeOK'
<1> SUFFICES ASSUME TypeOK, PhaseInv, DispatchInv, ClaimInv, [Next]_vars
             PROVE  TypeOK'
  BY DEF IInv
<1> NumJobs \in Nat \ {0} /\ MaxAccounts \in Nat \ {0}
  BY JobsAssumption
<1>1. CASE ResolveConfigured
  <2>1. JobAccounts[job] \in Seq(Accounts) /\ Len(JobAccounts[job]) <= MaxAccounts
    BY <1>1, CurrentJob, JobsAssumption DEF ResolveConfigured
  <2>2. StartJob(JobAccounts[job])
    BY <1>1 DEF ResolveConfigured
  <2>3. /\ ids' \in Seq(Accounts) /\ Len(ids') <= MaxAccounts
        /\ next' \in 1..(MaxAccounts + 1)
        /\ sem' = 0 /\ failed' = FALSE /\ dpc' = "loop"
        /\ job' = job /\ jobErr' = jobErr
    BY <2>1, <2>2, StartJobType
  <2>4. UNCHANGED <<wpc, local, scrape, dnsGauge, series, counters, expired, history>>
    BY <1>1 DEF ResolveConfigured
  <2>5. sem' \in Int
    BY <2>3
  <2> QED
    BY <2>3, <2>4, <2>5 DEF TypeOK
<1>2. CASE ListAccounts
  <2>1. PICK answer \in AccountLists : StartJob(answer)
    BY <1>2 DEF ListAccounts
  <2>2. answer \in Seq(Accounts) /\ Len(answer) <= MaxAccounts
    BY <2>1, AnswersAssumption
  <2>3. /\ ids' \in Seq(Accounts) /\ Len(ids') <= MaxAccounts
        /\ next' \in 1..(MaxAccounts + 1)
        /\ sem' = 0 /\ failed' = FALSE /\ dpc' = "loop"
        /\ job' = job /\ jobErr' = jobErr
    BY <2>1, <2>2, StartJobType
  <2>4. UNCHANGED <<wpc, local, scrape, dnsGauge, series, counters, expired, history>>
    BY <1>2 DEF ListAccounts
  <2>5. sem' \in Int
    BY <2>3
  <2> QED
    BY <2>3, <2>4, <2>5 DEF TypeOK
<1>3. CASE ListAccountsFails
  BY <1>3 DEF TypeOK, ListAccountsFails
<1>4. CASE SkipSeen
  BY <1>4 DEF TypeOK, SkipSeen
<1>5. CASE Acquire
  BY <1>5 DEF TypeOK, Acquire
<1>6. CASE StopAdmitting
  BY <1>6 DEF TypeOK, StopAdmitting
<1>7. CASE Admit
  <2>1. next \in Workers /\ next + 1 \in 1..(MaxAccounts + 1)
    BY <1>7 DEF TypeOK, Admit, PhaseInv, Workers
  <2> QED
    BY <1>7, <2>1 DEF TypeOK, Admit, Holding
<1>8. CASE AllAdmitted
  BY <1>8 DEF TypeOK, AllAdmitted
<1>9. CASE Wait
  BY <1>9 DEF TypeOK, Wait
<1>10. CASE Report
  <2>1. job \in Jobs /\ job + 1 \in 1..(NumJobs + 1)
    BY <1>10, CurrentJob DEF Report, TypeOK
  <2>2. JobName[job] \in Names
    BY <2>1 DEF Names
  <2>3. /\ scrapeErrors' \in [Names -> Nat]
        /\ jobSuccess' \in [Names -> {"unset", "0", "1"}]
    <3>1. CASE jobErr
      <4>1. /\ scrapeErrors' = [scrapeErrors EXCEPT ![JobName[job]] = @ + 1]
            /\ jobSuccess' = [jobSuccess EXCEPT ![JobName[job]] = "0"]
        BY <1>10, <3>1 DEF Report
      <4> QED
        BY <4>1, <2>2 DEF TypeOK
    <3>2. CASE ~jobErr
      BY <1>10, <2>2, <3>2 DEF TypeOK, Report
    <3> QED
      BY <3>1, <3>2
  <2>4. outcome' \in [Jobs -> {"pending", "ok", "error"}]
    BY <1>10, <2>1 DEF TypeOK, Report
  <2>5. dpc' \in {"gauges", "resolve"} /\ ids' = << >> /\ next' = 1 /\ sem' = 0
    BY <1>10 DEF Report
  <2>6. << >> \in Seq(Accounts) /\ Len(<< >>) = 0 /\ << >> \in Seq(Zones)
    OBVIOUS
  <2>7. ids' \in Seq(Accounts) /\ Len(ids') <= MaxAccounts
    BY <2>5, <2>6
  <2>8. zones' \in [Workers -> Seq(Zones)]
    BY <1>10, <2>6 DEF Report
  <2>9. /\ failed' = FALSE /\ jobErr' = FALSE
        /\ wpc' \in [Workers -> Holding \cup {"idle", "exit", "gone"}]
        /\ tags' \in [Workers -> SUBSET Zones]
        /\ picked' \in [Workers -> SUBSET Nat]
        /\ fetch' \in [Workers -> [Apis -> {"off", "running", "merging", "ok", "err"}]]
        /\ rows' \in [Workers -> SUBSET DNSRows]
        /\ job' = job + 1
    BY <1>10 DEF Report
  <2>10. UNCHANGED <<scrape, dnsGauge, series, apiErrors, expired, matched>>
    BY <1>10 DEF Report
  <2>11. next' \in 1..(MaxAccounts + 1) /\ sem' \in Int
    BY <2>5
  <2> QED
    BY <2>1, <2>3, <2>4, <2>5, <2>7, <2>8, <2>9, <2>10, <2>11 DEF TypeOK
<1>11. CASE EmitGauges
  BY <1>11 DEF TypeOK, EmitGauges
<1>12. CASE Deadline
  BY <1>12 DEF TypeOK, Deadline
<1>13. ASSUME NEW w \in Workers, Lookup(w)
       PROVE  TypeOK'
  <2>1. Account(w) \in Accounts
    BY <1>13, ActiveWorker DEF Lookup
  <2>2. zones' \in [Workers -> Seq(Zones)]
    BY <1>13, <2>1 DEF TypeOK, Lookup
  <2>3. wpc' \in [Workers -> Holding \cup {"idle", "exit", "gone"}]
    BY <1>13 DEF TypeOK, Lookup, Goto, Holding
  <2>4. UNCHANGED <<dispatch, tags, picked, fetch, rows, scrape, dnsGauge, series,
                    counters, expired, history>>
    BY <1>13 DEF Lookup
  <2> QED
    BY <2>2, <2>3, <2>4 DEF TypeOK
<1>14. ASSUME NEW w \in Workers, ListZones(w)
       PROVE  TypeOK'
  <2>1. Account(w) \in Accounts
    BY <1>14, ActiveWorker DEF ListZones
  <2> QED
    BY <1>14, <2>1, AnswersAssumption DEF TypeOK, ListZones, Goto, Holding
<1>15. ASSUME NEW w \in Workers, ListZonesFails(w)
       PROVE  TypeOK'
  BY <1>15 DEF TypeOK, ListZonesFails, Goto, Holding
<1>16. ASSUME NEW w \in Workers, ZoneTags(w)
       PROVE  TypeOK'
  <2>1. job \in Jobs
    BY <1>16, ActiveWorker DEF ZoneTags
  <2> QED
    BY <1>16, <2>1, AnswersAssumption DEF TypeOK, ZoneTags, Goto, Holding
<1>17. ASSUME NEW w \in Workers, ZoneTagsFails(w)
       PROVE  TypeOK'
  <2>1. Account(w) \in Accounts
    BY <1>17, ActiveWorker DEF ZoneTagsFails
  <2>2. apiErrors' \in [CountedApis -> [Accounts -> Nat]]
    <3>1. \/ apiErrors' = apiErrors
          \/ apiErrors' = [apiErrors EXCEPT !["resource_tagging"][Account(w)] = @ + 1]
      BY <1>17 DEF ZoneTagsFails
    <3>2. "resource_tagging" \in CountedApis
      BY DEF CountedApis
    <3>3. apiErrors \in [CountedApis -> [Accounts -> Nat]]
      BY DEF TypeOK
    <3>4. [apiErrors EXCEPT !["resource_tagging"][Account(w)] = @ + 1]
             \in [CountedApis -> [Accounts -> Nat]]
      BY ONLY <2>1, <3>2, <3>3, CountError
    <3> QED
      BY <3>1, <3>3, <3>4
  <2> QED
    BY <1>17, <2>2 DEF TypeOK, ZoneTagsFails, Goto, Holding
<1>18. ASSUME NEW w \in Workers, Claim(w)
       PROVE  TypeOK'
  <2>1. job \in Jobs /\ job \in 0..NumJobs
    BY <1>18, ActiveWorker DEF Claim, Jobs
  <2>2. Claimable(w) \subseteq Nat
    BY DEF TypeOK, Claimable, InScope
  <2>3. picked' \in [Workers -> SUBSET Nat]
    BY <1>18, <2>2 DEF TypeOK, Claim
  <2>4. claimedBy' \in [Zones -> 0..NumJobs]
    BY <1>18, <2>1 DEF TypeOK, Claim
  <2>5. matched' \in [Zones -> SUBSET Jobs]
    BY <1>18, <2>1 DEF TypeOK, Claim
  <2>6. wpc' \in [Workers -> Holding \cup {"idle", "exit", "gone"}]
    BY <1>18 DEF TypeOK, Claim, Goto, Holding
  <2>7. UNCHANGED <<dispatch, zones, tags, fetch, rows, cached, zonesByAccount, dns,
                    dnsGauge, series, counters, expired, outcome>>
    BY <1>18 DEF Claim
  <2> QED
    BY <2>3, <2>4, <2>5, <2>6, <2>7 DEF TypeOK
<1>19. ASSUME NEW w \in Workers, Announce(w)
       PROVE  TypeOK'
  <2>1. \A z \in Zones : Count(w, z) \in Nat
    BY CountOne
  <2>2. series' \in [Families -> [Zones -> Nat]]
    BY <1>19, <2>1 DEF TypeOK, Announce, Families
  <2>3. fetch' \in [Workers -> [Apis -> {"off", "running", "merging", "ok", "err"}]]
    BY <1>19 DEF TypeOK, Announce
  <2> QED
    BY <1>19, <2>2, <2>3 DEF TypeOK, Announce, Goto, Holding
<1>20. ASSUME NEW w \in Workers, NEW api \in Apis, FetchOK(w, api)
       PROVE  TypeOK'
  BY <1>20 DEF TypeOK, FetchOK, Emit, Families
<1>21. ASSUME NEW w \in Workers, NEW api \in Apis, FetchFails(w, api)
       PROVE  TypeOK'
  <2>1. Account(w) \in Accounts
    BY <1>21, ActiveWorker DEF FetchFails
  <2>2. apiErrors' \in [CountedApis -> [Accounts -> Nat]]
    BY <1>21, <2>1, CountError DEF TypeOK, FetchFails, CountedApis
  <2> QED
    BY <1>21, <2>2 DEF TypeOK, FetchFails
<1>22. ASSUME NEW w \in Workers, DnsAnswered(w)
       PROVE  TypeOK'
  <2>1. Account(w) \in Accounts
    BY <1>22, ActiveWorker DEF DnsAnswered
  <2>2. dns' \in [Accounts -> DnsStates]
    BY <1>22, <2>1, MarkKnown DEF TypeOK, DnsAnswered
  <2>3. rows' \in [Workers -> SUBSET DNSRows]
    BY <1>22 DEF TypeOK, DnsAnswered, DnsAnswers, Selected, StrayRows
  <2> QED
    BY <1>22, <2>2, <2>3 DEF TypeOK, DnsAnswered, Apis
<1>23. ASSUME NEW w \in Workers, DnsMerge(w)
       PROVE  TypeOK'
  <2>1. Account(w) \in Accounts
    BY <1>23, ActiveWorker DEF DnsMerge
  <2> DEFINE cut == rows[w] # {} /\ Cardinality(rows[w]) >= QueryLimit
             out == {r \in rows[w] : r.zone \notin Mine(w)}
  <2>2. cut \in BOOLEAN /\ out \in SUBSET DNSRows
    BY DEF TypeOK
  <2>3. dns' = [dns EXCEPT ![Account(w)].truncated = @ \/ cut,
                           ![Account(w)].unmatched = @ \cup out]
    BY <1>23 DEF DnsMerge
  <2> HIDE DEF cut, out
  <2>4. dns' \in [Accounts -> DnsStates]
    BY <2>1, <2>2, <2>3, MergeAnswer DEF TypeOK
  <2>5. series' \in [Families -> [Zones -> Nat]]
    BY <1>23 DEF TypeOK, DnsMerge, Emit, Apis, Families
  <2> QED
    BY <1>23, <2>4, <2>5 DEF TypeOK, DnsMerge, Apis
<1>24. ASSUME NEW w \in Workers, Join(w)
       PROVE  TypeOK'
  BY <1>24 DEF TypeOK, Join, Goto, Holding
<1>25. ASSUME NEW w \in Workers, RecordFailure(w)
       PROVE  TypeOK'
  BY <1>25 DEF TypeOK, RecordFailure, Goto, Holding
<1>26. ASSUME NEW w \in Workers, Release(w)
       PROVE  TypeOK'
  BY <1>26 DEF TypeOK, Release, Goto, Holding
<1>27. ASSUME NEW w \in Workers, Exit(w)
       PROVE  TypeOK'
  BY <1>27 DEF TypeOK, Exit, Goto, Holding
<1>28. CASE Done \/ UNCHANGED vars
  BY <1>28 DEF TypeOK, Done
<1> QED
  BY <1>1, <1>2, <1>3, <1>4, <1>5, <1>6, <1>7, <1>8, <1>9, <1>10, <1>11, <1>12,
     <1>13, <1>14, <1>15, <1>16, <1>17, <1>18, <1>19, <1>20, <1>21, <1>22, <1>23,
     <1>24, <1>25, <1>26, <1>27, <1>28
     DEF Next, CallAccounts, Dispatch, Call, Step

\* What every step of a worker leaves alone, and how it moves that worker.
LEMMA WorkerFrame ==
    ASSUME TypeOK, NEW w \in Workers, Call(w) \/ Step(w)
    PROVE  /\ wpc[w] \in Holding \cup {"exit"}
           /\ wpc'[w] \in Holding \cup {"exit", "gone"}
           /\ \A v \in Workers : v # w => wpc'[v] = wpc[v]
           /\ UNCHANGED <<job, dpc, ids, next>>
           /\ (jobErr <=> failed) => (jobErr' <=> failed')
<1>1. CASE Call(w)
  BY <1>1 DEF TypeOK, Call, ListZones, ListZonesFails, ZoneTags, ZoneTagsFails,
              FetchOK, FetchFails, DnsAnswered, Goto, Holding
<1>2. CASE Lookup(w) \/ Announce(w) \/ DnsMerge(w)
  BY <1>2 DEF TypeOK, Lookup, Announce, DnsMerge, Goto, Holding
<1>3. CASE Claim(w)
  BY <1>3 DEF TypeOK, Claim, Goto, Holding
<1>4. CASE Join(w) \/ RecordFailure(w) \/ Release(w) \/ Exit(w)
  BY <1>4 DEF TypeOK, Join, RecordFailure, Release, Exit, Goto, Holding
<1> QED
  BY <1>1, <1>2, <1>3, <1>4 DEF Step

\* Every step keeps what the dispatcher's position says of the workers.
LEMMA PhaseStep == IInv /\ [Next]_vars => PhaseInv'
<1> SUFFICES ASSUME TypeOK, PhaseInv, DispatchInv, [Next]_vars
             PROVE  PhaseInv'
  BY DEF IInv
<1> NumJobs \in Nat \ {0} /\ MaxAccounts \in Nat \ {0}
  BY JobsAssumption
<1>1. CASE ResolveConfigured
  BY <1>1 DEF PhaseInv, ResolveConfigured, StartJob
<1>2. CASE CallAccounts
  BY <1>2 DEF PhaseInv, CallAccounts, ListAccounts, ListAccountsFails, StartJob
<1>3. CASE SkipSeen \/ StopAdmitting \/ AllAdmitted
  BY <1>3 DEF PhaseInv, SkipSeen, StopAdmitting, AllAdmitted
<1>4. CASE Acquire
  BY <1>4 DEF PhaseInv, Acquire, Seen
<1>5. CASE Admit
  BY <1>5 DEF PhaseInv, Admit
<1>6. CASE Wait
  BY <1>6 DEF PhaseInv, Wait
<1>7. CASE Report
  BY <1>7 DEF TypeOK, PhaseInv, Report
<1>8. CASE EmitGauges \/ Deadline \/ Done \/ UNCHANGED vars
  BY <1>8 DEF PhaseInv, EmitGauges, Deadline, Done, Seen
<1>9. ASSUME NEW w \in Workers, Call(w) \/ Step(w)
      PROVE  PhaseInv'
  <2>1. wpc[w] \notin {"idle", "gone"}
    BY <1>9, WorkerFrame DEF Holding
  <2>2. dpc \in {"loop", "check", "wait"}
    BY <2>1, ActiveWorker
  <2> QED
    BY <1>9, <2>2, WorkerFrame DEF PhaseInv, Seen
<1> QED
  BY <1>1, <1>2, <1>3, <1>4, <1>5, <1>6, <1>7, <1>8, <1>9 DEF Next, Dispatch

\* Every step keeps the workers in order, one per distinct account.
LEMMA DispatchStep == IInv /\ [Next]_vars => DispatchInv'
<1> SUFFICES ASSUME TypeOK, PhaseInv, DispatchInv, [Next]_vars
             PROVE  DispatchInv'
  BY DEF IInv
<1>1. CASE ResolveConfigured \/ CallAccounts
  BY <1>1 DEF PhaseInv, DispatchInv, ResolveConfigured, CallAccounts, ListAccounts,
              ListAccountsFails, StartJob
<1>2. CASE SkipSeen
  BY <1>2 DEF TypeOK, DispatchInv, SkipSeen, Workers
<1>3. CASE \/ Acquire \/ StopAdmitting \/ AllAdmitted \/ Wait \/ EmitGauges
           \/ Deadline \/ Done \/ UNCHANGED vars
  BY <1>3 DEF DispatchInv, Acquire, StopAdmitting, AllAdmitted, Wait, EmitGauges,
              Deadline, Done
<1>4. CASE Admit
  <2>1. next \in Workers /\ next <= Len(ids)
    <3>1. Len(ids) \in Nat /\ Len(ids) <= MaxAccounts /\ next \in Nat \ {0}
      BY DEF TypeOK
    <3>2. next <= Len(ids)
      BY <1>4 DEF PhaseInv, Admit
    <3> QED
      BY <3>1, <3>2, JobsAssumption DEF Workers
  <2>2. \A v \in Workers : v < next => ids[v] # ids[next]
    BY <1>4 DEF TypeOK, PhaseInv, Admit, Seen, Workers
  <2>3. \A v \in Workers : wpc[v] # "idle" => v < next
    BY DEF DispatchInv
  <2> QED
    BY <1>4, <2>1, <2>2, <2>3 DEF TypeOK, DispatchInv, Admit, Workers
<1>5. CASE Report
  BY <1>5 DEF DispatchInv, Report
<1>6. ASSUME NEW w \in Workers, Call(w) \/ Step(w)
      PROVE  DispatchInv'
  <2>1. \A v \in Workers : wpc'[v] # "idle" => wpc[v] # "idle"
    BY <1>6, WorkerFrame DEF Holding
  <2> QED
    BY <1>6, <2>1, WorkerFrame DEF DispatchInv
<1> QED
  BY <1>1, <1>2, <1>3, <1>4, <1>5, <1>6 DEF Next, Dispatch

\* Only Admit and Release change who holds a token.
LEMMA HoldersFrame ==
    ASSUME TypeOK, NEW w \in Workers, Call(w) \/ Step(w)
    PROVE  \/ Release(w)
           \/ Holders' = Holders /\ UNCHANGED <<dpc, sem>>
<1>1. CASE Call(w)
  <2>1. wpc[w] \in Holding /\ wpc'[w] \in Holding /\ UNCHANGED <<dpc, sem>>
    BY <1>1 DEF TypeOK, Call, ListZones, ListZonesFails, ZoneTags, ZoneTagsFails,
                FetchOK, FetchFails, DnsAnswered, Goto, Holding
  <2> QED
    BY <1>1, <2>1, WorkerFrame DEF Holders
<1>2. CASE Lookup(w) \/ Claim(w) \/ Announce(w) \/ DnsMerge(w)
  <2>1. wpc[w] \in Holding /\ wpc'[w] \in Holding /\ UNCHANGED <<dpc, sem>>
    BY <1>2 DEF TypeOK, Lookup, Claim, Announce, DnsMerge, Goto, Holding
  <2> QED
    BY <1>2, <2>1, WorkerFrame DEF Holders, Step
<1>3. CASE Join(w) \/ RecordFailure(w)
  <2>1. wpc[w] \in Holding /\ wpc'[w] \in Holding /\ UNCHANGED <<dpc, sem>>
    BY <1>3 DEF TypeOK, Join, RecordFailure, Goto, Holding
  <2> QED
    BY <1>3, <2>1, WorkerFrame DEF Holders, Step
<1>4. CASE Exit(w)
  <2>1. wpc[w] \notin Holding /\ wpc'[w] \notin Holding /\ UNCHANGED <<dpc, sem>>
    BY <1>4 DEF TypeOK, Exit, Goto, Holding
  <2> QED
    BY <1>4, <2>1, WorkerFrame DEF Holders, Step
<1> QED
  BY <1>1, <1>2, <1>3, <1>4 DEF Step

\* Every step keeps the tokens of sem equal to their holders, within the limit.
LEMMA SemStep == IInv /\ [Next]_vars => SemInv'
<1> SUFFICES ASSUME TypeOK, PhaseInv, DispatchInv, SemInv, [Next]_vars
             PROVE  SemInv'
  BY DEF IInv
<1>a. Limit \in Nat \ {0}
  BY LimitsAssumption DEF Limit
<1>1. CASE ResolveConfigured \/ ListAccounts
  <2>1. Holders' = {}
    BY <1>1 DEF PhaseInv, ResolveConfigured, ListAccounts, Holders, Holding
  <2>2. Cardinality(Holders') = 0
    BY <2>1, FS_EmptySet
  <2>3. dpc' = "loop" /\ sem' = 0
    BY <1>1 DEF ResolveConfigured, ListAccounts, StartJob
  <2> QED
    BY <1>a, <2>2, <2>3 DEF SemInv
<1>2. CASE ListAccountsFails \/ Wait \/ Report \/ EmitGauges
  BY <1>2 DEF SemInv, ListAccountsFails, Wait, Report, EmitGauges
<1>3. CASE SkipSeen \/ AllAdmitted \/ Deadline \/ Done \/ UNCHANGED vars
  BY <1>3 DEF SemInv, SkipSeen, AllAdmitted, Deadline, Done, Holders
<1>4. CASE Acquire
  BY <1>4, <1>a, HoldersFinite DEF TypeOK, SemInv, Acquire, Holders
<1>5. CASE StopAdmitting
  BY <1>5, <1>a, HoldersFinite DEF TypeOK, SemInv, StopAdmitting, Holders
<1>6. CASE Admit
  <2>1. next \in Workers /\ wpc[next] = "idle"
    <3>1. Len(ids) \in Nat /\ Len(ids) <= MaxAccounts /\ next \in Nat \ {0}
      BY DEF TypeOK
    <3>2. next <= Len(ids)
      BY <1>6 DEF PhaseInv, Admit
    <3>3. next \in Workers
      BY <3>1, <3>2, JobsAssumption DEF Workers
    <3> QED
      BY <3>1, <3>3 DEF DispatchInv
  <2>2. next \notin Holders /\ Holders' = Holders \cup {next}
    BY <1>6, <2>1 DEF TypeOK, Admit, Holders, Holding
  <2>3. Cardinality(Holders') = Cardinality(Holders) + 1
    BY <2>2, HoldersFinite, FS_AddElement
  <2> QED
    BY <1>6, <1>a, <2>3, HoldersFinite DEF SemInv, Admit
<1>7. ASSUME NEW w \in Workers, Release(w)
      PROVE  SemInv'
  <2>1. w \in Holders /\ Holders' = Holders \ {w}
    BY <1>7 DEF TypeOK, Release, Goto, Holders, Holding
  <2>2. Cardinality(Holders') = Cardinality(Holders) - 1
    BY <2>1, HoldersFinite, FS_RemoveElement
  <2> QED
    BY <1>7, <1>a, <2>2, HoldersFinite DEF TypeOK, SemInv, Release
<1>8. ASSUME NEW w \in Workers, Call(w) \/ Step(w), ~Release(w)
      PROVE  SemInv'
  BY <1>8, HoldersFrame DEF SemInv
<1> QED
  BY <1>1, <1>2, <1>3, <1>4, <1>5, <1>6, <1>7, <1>8 DEF Next, CallAccounts, Dispatch

\* The claims stand as long as the zone lists, the picks and the claims do.
LEMMA ClaimFrame ==
    ASSUME ClaimInv, UNCHANGED <<job, zones, picked, claimedBy>>,
           \A v \in Workers :
              wpc'[v] \in {"idle", "lookup", "list", "tags", "claim"} => picked[v] = {}
    PROVE  ClaimInv'
BY DEF ClaimInv, Mine

\* A worker that has picked nothing may still change its zone list.
LEMMA ClaimEmpty ==
    ASSUME TypeOK, ClaimInv, NEW w \in Workers, picked[w] = {},
           UNCHANGED <<job, picked, claimedBy>>,
           \A v \in Workers : v # w => wpc'[v] = wpc[v] /\ zones'[v] = zones[v]
    PROVE  ClaimInv'
<1>1. \A v \in Workers : Mine(v)' = Mine(v)
  BY DEF Mine
<1> QED
  BY <1>1 DEF ClaimInv

\* Every step keeps what the workers picked disjoint and claimed.
LEMMA ClaimStep == IInv /\ [Next]_vars => ClaimInv'
<1> SUFFICES ASSUME TypeOK, PhaseInv, DispatchInv, ClaimInv, [Next]_vars
             PROVE  ClaimInv'
  BY DEF IInv
<1> DEFINE Early == {"idle", "lookup", "list", "tags", "claim"}
<1>1. CASE ResolveConfigured \/ CallAccounts
  BY <1>1, ClaimFrame DEF ClaimInv, ResolveConfigured, CallAccounts, ListAccounts,
                          ListAccountsFails, StartJob
<1>2. CASE \/ SkipSeen \/ Acquire \/ StopAdmitting \/ AllAdmitted \/ Wait
           \/ EmitGauges \/ Deadline \/ Done \/ UNCHANGED vars
  BY <1>2, ClaimFrame DEF ClaimInv, SkipSeen, Acquire, StopAdmitting, AllAdmitted,
                          Wait, EmitGauges, Deadline, Done
<1>3. CASE Admit
  <2>1. next \notin Workers \/ wpc[next] = "idle"
    BY DEF TypeOK, DispatchInv
  <2>2. UNCHANGED <<job, zones, picked, claimedBy>>
    BY <1>3 DEF Admit
  <2>3. \A v \in Workers : wpc'[v] \in Early => wpc[v] \in Early
    BY <1>3, <2>1 DEF TypeOK, Admit
  <2> QED
    BY <2>2, <2>3, ClaimFrame DEF ClaimInv
<1>4. CASE Report
  <2>1. /\ \A w \in Workers : picked'[w] = {}
        /\ claimedBy' = claimedBy /\ job' = job + 1
    BY <1>4 DEF Report
  <2>2. \A z \in Zones : claimedBy[z] <= job + 1
    BY DEF TypeOK, ClaimInv
  <2> QED
    BY <2>1, <2>2 DEF ClaimInv, Mine
<1>5. ASSUME NEW w \in Workers, Lookup(w) \/ ListZones(w)
      PROVE  ClaimInv'
  <2>1. picked[w] = {} /\ UNCHANGED <<job, picked, claimedBy>>
    BY <1>5 DEF ClaimInv, Lookup, ListZones
  <2>2. \A v \in Workers : v # w => wpc'[v] = wpc[v] /\ zones'[v] = zones[v]
    BY <1>5 DEF TypeOK, Lookup, ListZones, Goto
  <2> QED
    BY <2>1, <2>2, ClaimEmpty
<1>6. ASSUME NEW w \in Workers, ListZonesFails(w) \/ ZoneTags(w) \/ ZoneTagsFails(w)
      PROVE  ClaimInv'
  <2>1. picked[w] = {} /\ UNCHANGED <<job, zones, picked, claimedBy>>
    BY <1>6 DEF ClaimInv, ListZonesFails, ZoneTags, ZoneTagsFails
  <2>2. \A v \in Workers : v # w => wpc'[v] = wpc[v]
    BY <1>6 DEF TypeOK, ListZonesFails, ZoneTags, ZoneTagsFails, Goto
  <2> QED
    BY <2>1, <2>2, ClaimEmpty
<1>7. ASSUME NEW w \in Workers, Claim(w)
      PROVE  ClaimInv'
  <2> DEFINE C == Claimable(w)
             mine == {zones[w][i] : i \in C}
  <2>1. /\ picked' = [picked EXCEPT ![w] = C]
        /\ claimedBy' = [z \in Zones |-> IF z \in mine THEN job ELSE claimedBy[z]]
        /\ wpc'[w] \notin Early
        /\ \A v \in Workers : v # w => wpc'[v] = wpc[v]
        /\ zones' = zones /\ job' = job
    BY <1>7 DEF TypeOK, Claim, Goto
  <2>2. /\ C \subseteq DOMAIN zones[w]
        /\ \A i \in C : claimedBy[zones[w][i]] = 0 /\ zones[w][i] \in Zones
    BY DEF TypeOK, Claimable, InScope
  <2>3. \A i, k \in C : zones[w][i] = zones[w][k] => i = k
    <3>1. \A i, k \in C : i \in Nat /\ k \in Nat
      BY DEF TypeOK, Claimable, InScope
    <3> QED
      BY <3>1 DEF Claimable
  <2>4. job # 0
    BY DEF TypeOK
  <2>5. \A v \in Workers : v # w =>
          /\ picked'[v] = picked[v]
          /\ \A i \in picked[v] : /\ zones[v][i] \in Zones
                                  /\ zones[v][i] \notin mine
    BY <2>1, <2>2, <2>4 DEF TypeOK, ClaimInv
  <2>6. picked'[w] = C
    BY <2>1 DEF TypeOK
  <2> HIDE DEF C
  <2>7. \A z \in Zones : claimedBy'[z] <= job'
    BY <2>1 DEF TypeOK, ClaimInv
  <2>8. \A v \in Workers : \A i \in picked'[v] : claimedBy'[zones'[v][i]] = job'
    BY <2>1, <2>2, <2>5, <2>6 DEF ClaimInv
  <2>9. Mine(w)' = mine /\ \A v \in Workers : v # w => Mine(v)' = Mine(v)
    BY <2>1, <2>5, <2>6 DEF Mine
  <2>10. \A v \in Workers : v # w => Mine(v) \cap mine = {}
    BY <2>5 DEF Mine
  <2>11. \A u, v \in Workers : u # v => Mine(u)' \cap Mine(v)' = {}
    <3> HIDE DEF mine
    <3> QED
      BY <2>9, <2>10 DEF ClaimInv
  <2>12. \A v \in Workers :
           /\ wpc'[v] \in Early => picked'[v] = {}
           /\ picked'[v] \subseteq DOMAIN zones'[v]
           /\ \A i, k \in picked'[v] : zones'[v][i] = zones'[v][k] => i = k
    BY <2>1, <2>2, <2>3, <2>5, <2>6 DEF ClaimInv
  <2> QED
    BY <2>7, <2>8, <2>11, <2>12 DEF ClaimInv
<1>8. ASSUME NEW w \in Workers, NEW api \in Apis, FetchOK(w, api) \/ FetchFails(w, api)
      PROVE  ClaimInv'
  BY <1>8, ClaimFrame DEF ClaimInv, FetchOK, FetchFails
<1>9. ASSUME NEW w \in Workers, DnsAnswered(w) \/ DnsMerge(w)
      PROVE  ClaimInv'
  BY <1>9, ClaimFrame DEF ClaimInv, DnsAnswered, DnsMerge
<1>10. ASSUME NEW w \in Workers,
              Announce(w) \/ Join(w) \/ RecordFailure(w) \/ Release(w) \/ Exit(w)
       PROVE  ClaimInv'
  <2>1. /\ UNCHANGED <<job, zones, picked, claimedBy>>
        /\ wpc'[w] \notin Early
        /\ \A v \in Workers : v # w => wpc'[v] = wpc[v]
    BY <1>10 DEF TypeOK, Announce, Join, RecordFailure, Release, Exit, Goto
  <2> QED
    BY <2>1, ClaimFrame DEF ClaimInv
<1> QED
  BY <1>1, <1>2, <1>3, <1>4, <1>5, <1>6, <1>7, <1>8, <1>9, <1>10
     DEF Next, CallAccounts, Dispatch, Call, Step

\* A worker's zones are zones, claimed by the current job.
LEMMA MineZones ==
    ASSUME TypeOK, ClaimInv, NEW w \in Workers, NEW z \in Mine(w)
    PROVE  z \in Zones /\ claimedBy[z] = job
<1>1. PICK i \in picked[w] : z = zones[w][i]
  BY DEF Mine
<1>2. zones[w] \in Seq(Zones) /\ i \in DOMAIN zones[w]
  BY DEF TypeOK, ClaimInv
<1> QED
  BY <1>1, <1>2 DEF ClaimInv

\* Steps that leave the series, the claims and the calls alone keep SeriesInv,
\* provided no worker starts or stops announcing.
LEMMA SeriesFrame ==
    ASSUME SeriesInv, UNCHANGED <<job, zones, picked, claimedBy, series>>,
           \A v \in Workers :
              /\ wpc'[v] = "announce" <=> wpc[v] = "announce"
              /\ wpc'[v] = "fetch" => wpc[v] = "fetch"
              /\ \A api \in Apis : fetch'[v][api] \in {"running", "merging"} =>
                                     fetch[v][api] \in {"running", "merging"}
    PROVE  SeriesInv'
BY DEF SeriesInv, Mine

\* Every step keeps each series unsent until its one sender sends it.
LEMMA SeriesStep == IInv /\ [Next]_vars => SeriesInv'
<1> SUFFICES ASSUME TypeOK, PhaseInv, DispatchInv, ClaimInv, SeriesInv, [Next]_vars
             PROVE  SeriesInv'
  BY DEF IInv
<1>1. CASE ResolveConfigured \/ CallAccounts
  BY <1>1, SeriesFrame DEF ResolveConfigured, CallAccounts, ListAccounts,
                           ListAccountsFails, StartJob
<1>2. CASE \/ SkipSeen \/ Acquire \/ StopAdmitting \/ AllAdmitted \/ Wait
           \/ EmitGauges \/ Deadline \/ Done \/ UNCHANGED vars
  BY <1>2, SeriesFrame DEF SkipSeen, Acquire, StopAdmitting, AllAdmitted, Wait,
                           EmitGauges, Deadline, Done
<1>3. CASE Admit
  <2>1. next \notin Workers \/ wpc[next] = "idle"
    BY DEF TypeOK, DispatchInv
  <2>2. UNCHANGED <<job, zones, picked, claimedBy, series, fetch>>
    BY <1>3 DEF Admit
  <2>3. \A v \in Workers : wpc'[v] = wpc[v] \/ (wpc[v] = "idle" /\ wpc'[v] = "lookup")
    BY <1>3, <2>1 DEF TypeOK, Admit
  <2> QED
    BY <2>2, <2>3, SeriesFrame
<1>4. CASE Report
  <2>1. /\ \A v \in Workers : wpc'[v] = "idle" /\ picked'[v] = {}
        /\ claimedBy' = claimedBy /\ series' = series /\ job' = job + 1
    BY <1>4 DEF Report
  <2>2. \A z \in Zones : claimedBy[z] # job + 1
    BY DEF TypeOK, ClaimInv
  <2> QED
    BY <2>1, <2>2 DEF SeriesInv, Mine
<1>5. ASSUME NEW w \in Workers,
             \/ Lookup(w) \/ ListZones(w) \/ ListZonesFails(w)
             \/ ZoneTags(w) \/ ZoneTagsFails(w)
      PROVE  SeriesInv'
  <2>1. picked[w] = {} /\ UNCHANGED <<job, picked, claimedBy, series, fetch>>
    BY <1>5 DEF ClaimInv, Lookup, ListZones, ListZonesFails, ZoneTags, ZoneTagsFails
  <2>2. \A v \in Workers : v # w => wpc'[v] = wpc[v] /\ zones'[v] = zones[v]
    BY <1>5 DEF TypeOK, Lookup, ListZones, ListZonesFails, ZoneTags, ZoneTagsFails, Goto
  <2>3. wpc[w] # "announce" /\ wpc'[w] \notin {"announce", "fetch"}
    BY <1>5 DEF TypeOK, Lookup, ListZones, ListZonesFails, ZoneTags, ZoneTagsFails, Goto
  <2>4. \A v \in Workers : Mine(v)' = Mine(v)
    BY <2>1, <2>2 DEF Mine
  <2> QED
    BY <2>1, <2>2, <2>3, <2>4 DEF SeriesInv
<1>6. ASSUME NEW w \in Workers, Claim(w)
      PROVE  SeriesInv'
  <2> DEFINE C == Claimable(w)
             mine == {zones[w][i] : i \in C}
  <2>1. /\ picked' = [picked EXCEPT ![w] = C]
        /\ claimedBy' = [z \in Zones |-> IF z \in mine THEN job ELSE claimedBy[z]]
        /\ wpc'[w] = IF mine = {} THEN "release" ELSE "announce"
        /\ \A v \in Workers : v # w => wpc'[v] = wpc[v]
        /\ UNCHANGED <<zones, job, fetch, series>>
    BY <1>6 DEF TypeOK, Claim, Goto
  <2>2. \A z \in mine : z \in Zones /\ claimedBy[z] = 0
    BY DEF TypeOK, Claimable, InScope
  <2>3. job # 0
    BY DEF TypeOK
  <2>4. Mine(w)' = mine /\ \A v \in Workers : v # w => Mine(v)' = Mine(v)
    BY <2>1 DEF TypeOK, Mine
  <2>5. wpc[w] = "claim"
    BY <1>6 DEF Claim
  <2> HIDE DEF mine
  <2>6. \A f \in Families, z \in Zones :
          series'[f][z] \in {0, 1} /\ (claimedBy'[z] = 0 => series'[f][z] = 0)
    BY <2>1, <2>3 DEF SeriesInv
  <2>7. \A v \in Workers : \A z \in Mine(v)' :
          /\ wpc'[v] = "announce" => \A f \in Families : series'[f][z] = 0
          /\ wpc'[v] = "fetch" => \A api \in Apis :
               fetch'[v][api] \in {"running", "merging"} => series'[api][z] = 0
    BY <2>1, <2>2, <2>4 DEF SeriesInv
  <2>8. \A v \in Workers : wpc'[v] = "fetch" => \A api \in Apis :
          fetch'[v][api] \in {"running", "merging"} => api \in Enabled[job']
    BY <2>1 DEF SeriesInv
  <2>9. ASSUME NEW z \in Zones, claimedBy'[z] = job', series'["zone_info"][z] = 0
        PROVE  \E v \in Workers : wpc'[v] = "announce" /\ z \in Mine(v)'
    <3>1. CASE z \in mine
      BY <2>1, <2>4, <3>1
    <3>2. CASE z \notin mine
      <4>1. PICK v \in Workers : wpc[v] = "announce" /\ z \in Mine(v)
        BY <2>1, <2>9, <3>2 DEF SeriesInv
      <4> QED
        BY <2>1, <2>4, <2>5, <4>1
    <3> QED
      BY <3>1, <3>2
  <2> QED
    BY <2>6, <2>7, <2>8, <2>9 DEF SeriesInv
<1>7. ASSUME NEW w \in Workers, Announce(w)
      PROVE  SeriesInv'
  <2>1. /\ wpc[w] = "announce" /\ wpc'[w] = "fetch"
        /\ \A v \in Workers : v # w => wpc'[v] = wpc[v] /\ fetch'[v] = fetch[v]
        /\ \A api \in Apis : fetch'[w][api] = "running" => api \in Enabled[job]
        /\ \A api \in Apis : fetch'[w][api] # "merging"
        /\ UNCHANGED <<job, zones, picked, claimedBy>>
    BY <1>7 DEF TypeOK, Announce, Goto
  <2>2. \A z \in Zones :
          /\ series'["zone_info"][z] = series["zone_info"][z] + Count(w, z)
          /\ series'["zone_tags_info"][z] =
                IF z \in tags[w] THEN series["zone_tags_info"][z] + Count(w, z)
                ELSE series["zone_tags_info"][z]
          /\ \A api \in Apis : series'[api][z] = series[api][z]
    BY <1>7 DEF TypeOK, Announce, Families, Apis, FatalApis
  <2>3. \A z \in Mine(w) : z \in Zones /\ claimedBy[z] # 0
                           /\ \A f \in Families : series[f][z] = 0
    BY <2>1 DEF TypeOK, ClaimInv, SeriesInv, Mine
  <2>4. \A z \in Zones : Count(w, z) = IF z \in Mine(w) THEN 1 ELSE 0
    BY CountOne
  <2>5. \A v \in Workers : Mine(v)' = Mine(v)
    BY <2>1 DEF Mine
  <2>6. \A v \in Workers : v # w => Mine(v) \cap Mine(w) = {}
    BY DEF ClaimInv
  <2>7. \A f \in Families, z \in Zones : z \notin Mine(w) => series'[f][z] = series[f][z]
    <3>1. ASSUME NEW f \in Families, NEW z \in Zones, z \notin Mine(w)
          PROVE  series'[f][z] = series[f][z]
      <4>1. Count(w, z) = 0 /\ series[f][z] \in Nat
        BY <2>4, <3>1 DEF TypeOK
      <4> QED
        BY <2>2, <4>1 DEF Families
    <3> QED
      BY <3>1
  <2>8. \A f \in Families, z \in Mine(w) : series'[f][z] \in {0, 1}
    BY <2>2, <2>3, <2>4 DEF Families
  <2>9. \A f \in Families, z \in Zones :
          series'[f][z] \in {0, 1} /\ (claimedBy'[z] = 0 => series'[f][z] = 0)
    BY <2>1, <2>3, <2>7, <2>8 DEF SeriesInv
  <2>10. \A v \in Workers : \A z \in Mine(v) :
           wpc'[v] = "announce" => \A f \in Families : series'[f][z] = 0
    <3>1. ASSUME NEW v \in Workers, NEW z \in Mine(v), wpc'[v] = "announce",
                 NEW f \in Families
          PROVE  series'[f][z] = 0
      <4>1. v # w /\ wpc[v] = "announce"
        BY <2>1, <3>1
      <4>2. z \in Zones /\ z \notin Mine(w)
        BY <2>6, <3>1, <4>1, MineZones
      <4> QED
        BY <2>7, <3>1, <4>1, <4>2 DEF SeriesInv
    <3> QED
      BY <3>1
  <2>11. \A v \in Workers : wpc'[v] = "fetch" => \A z \in Mine(v) : \A api \in Apis :
           fetch'[v][api] \in {"running", "merging"} => series'[api][z] = 0
    <3>1. ASSUME NEW v \in Workers, wpc'[v] = "fetch", NEW z \in Mine(v), NEW api \in Apis,
                 fetch'[v][api] \in {"running", "merging"}
          PROVE  series'[api][z] = 0
      <4>1. z \in Zones /\ series'[api][z] = series[api][z] /\ api \in Families
        BY <2>2, MineZones DEF Families
      <4>2. CASE v = w
        BY <2>3, <3>1, <4>1, <4>2
      <4>3. CASE v # w
        BY <2>1, <3>1, <4>1, <4>3 DEF SeriesInv
      <4> QED
        BY <4>2, <4>3
    <3> QED
      BY <3>1
  <2>12. \A z \in Zones : claimedBy'[z] = job' /\ series'["zone_info"][z] = 0 =>
           \E v \in Workers : wpc'[v] = "announce" /\ z \in Mine(v)
    <3>1. \A z \in Mine(w) : series'["zone_info"][z] = 1
      BY <2>2, <2>3, <2>4 DEF Families
    <3> QED
      BY <2>1, <2>7, <3>1 DEF SeriesInv, Families
  <2> QED
    BY <2>1, <2>5, <2>9, <2>10, <2>11, <2>12 DEF SeriesInv
<1>8. ASSUME NEW w \in Workers, NEW api \in Apis, NEW reported,
             wpc[w] = "fetch", fetch[w][api] \in {"running", "merging"},
             Emit(w, api, reported), fetch' = [fetch EXCEPT ![w][api] = "ok"],
             UNCHANGED <<wpc, job, zones, picked, claimedBy>>
      PROVE  SeriesInv'
  <2>1. /\ \A z \in Zones : series'[api][z] = IF z \in reported \cap Mine(w)
                                              THEN series[api][z] + 1 ELSE series[api][z]
        /\ \A f \in Families : f # api => series'[f] = series[f]
    BY <1>8 DEF TypeOK, Emit, Families
  <2>2. /\ fetch'[w][api] = "ok"
        /\ \A v \in Workers, b \in Apis :
             v # w \/ b # api => fetch'[v][b] = fetch[v][b]
    BY <1>8 DEF TypeOK
  <2>3. \A z \in Mine(w) : z \in Zones /\ claimedBy[z] # 0 /\ series[api][z] = 0
    <3>1. \A z \in Mine(w) : z \in Zones /\ claimedBy[z] = job
      BY MineZones
    <3>2. job # 0
      BY DEF TypeOK
    <3>3. \A z \in Mine(w) : series[api][z] = 0
      BY <1>8 DEF SeriesInv
    <3> QED
      BY <3>1, <3>2, <3>3
  <2>4. \A f \in Families, z \in Zones :
          series'[f][z] \in {0, 1} /\ (claimedBy'[z] = 0 => series'[f][z] = 0)
    BY <1>8, <2>1, <2>3 DEF SeriesInv
  <2>5. \A v \in Workers : /\ Mine(v)' = Mine(v)
                           /\ v # w => Mine(v) \cap Mine(w) = {}
    BY <1>8 DEF ClaimInv, Mine
  <2>6. \A v \in Workers : \A z \in Mine(v) : z \in Zones
    BY MineZones
  <2>7. \A v \in Workers : \A z \in Mine(v) : \A f \in Families :
          v # w \/ f # api => series'[f][z] = series[f][z]
    BY <2>1, <2>5, <2>6
  <2>8. \A v \in Workers : \A z \in Mine(v) :
          /\ wpc'[v] = "announce" => \A f \in Families : series'[f][z] = 0
          /\ wpc'[v] = "fetch" => \A b \in Apis :
               fetch'[v][b] \in {"running", "merging"} => series'[b][z] = 0
    BY <1>8, <2>2, <2>7 DEF SeriesInv, Families
  <2>9. \A v \in Workers : wpc'[v] = "fetch" => \A b \in Apis :
          fetch'[v][b] \in {"running", "merging"} => b \in Enabled[job']
    BY <1>8, <2>2 DEF SeriesInv
  <2>10. series'["zone_info"] = series["zone_info"]
    BY <2>1 DEF Families, Apis, FatalApis
  <2> QED
    BY <1>8, <2>4, <2>5, <2>8, <2>9, <2>10 DEF SeriesInv
<1>9. ASSUME NEW w \in Workers, NEW api \in Apis, FetchOK(w, api)
      PROVE  SeriesInv'
  BY <1>8, <1>9 DEF FetchOK
<1>10. ASSUME NEW w \in Workers, DnsMerge(w)
       PROVE  SeriesInv'
  <2>1. "dns_analytics" \in Apis
    BY DEF Apis
  <2> QED
    BY <1>8, <1>10, <2>1 DEF DnsMerge
<1>11. ASSUME NEW w \in Workers, NEW api \in Apis, FetchFails(w, api)
       PROVE  SeriesInv'
  <2>1. UNCHANGED <<wpc, job, zones, picked, claimedBy, series>>
    BY <1>11 DEF FetchFails
  <2>2. \A v \in Workers, b \in Apis :
          fetch'[v][b] \in {"running", "merging"} =>
             fetch[v][b] \in {"running", "merging"}
    BY <1>11 DEF TypeOK, FetchFails
  <2> QED
    BY <2>1, <2>2, SeriesFrame
<1>12. ASSUME NEW w \in Workers, DnsAnswered(w)
       PROVE  SeriesInv'
  <2>1. UNCHANGED <<wpc, job, zones, picked, claimedBy, series>>
    BY <1>12 DEF DnsAnswered
  <2>2. \A v \in Workers, b \in Apis :
          fetch'[v][b] \in {"running", "merging"} =>
             fetch[v][b] \in {"running", "merging"}
    BY <1>12 DEF TypeOK, DnsAnswered
  <2> QED
    BY <2>1, <2>2, SeriesFrame
<1>13. ASSUME NEW w \in Workers, Join(w) \/ RecordFailure(w) \/ Release(w) \/ Exit(w)
       PROVE  SeriesInv'
  <2>1. /\ UNCHANGED <<job, zones, picked, claimedBy, series, fetch>>
        /\ wpc[w] # "announce" /\ wpc'[w] \notin {"announce", "fetch"}
        /\ \A v \in Workers : v # w => wpc'[v] = wpc[v]
    BY <1>13 DEF TypeOK, Join, RecordFailure, Release, Exit, Goto
  <2> QED
    BY <2>1, SeriesFrame
<1> QED
  BY <1>1, <1>2, <1>3, <1>4, <1>5, <1>6, <1>7, <1>9, <1>10, <1>11, <1>12, <1>13
     DEF Next, CallAccounts, Dispatch, Call, Step

\* Only ListZones touches the zone cache.
LEMMA CacheFrame ==
    ASSUME [Next]_vars
    PROVE  \/ \E w \in Workers : ListZones(w)
           \/ cached' = cached /\ zonesByAccount' = zonesByAccount
<1>1. CASE CallAccounts \/ Dispatch \/ Deadline \/ Done \/ UNCHANGED vars
  BY <1>1 DEF CallAccounts, Dispatch, ListAccounts, ListAccountsFails,
              ResolveConfigured, SkipSeen, Acquire, StopAdmitting, Admit, AllAdmitted,
              Wait, Report, EmitGauges, Deadline, Done
<1>2. ASSUME NEW w \in Workers, Call(w) \/ Step(w), ~ListZones(w)
      PROVE  cached' = cached /\ zonesByAccount' = zonesByAccount
  BY <1>2 DEF Call, Step, ListZonesFails, ZoneTags, ZoneTagsFails, FetchOK, FetchFails,
              DnsAnswered, Lookup, Claim, Announce, DnsMerge, Join, RecordFailure,
              Release, Exit
<1> QED
  BY <1>1, <1>2 DEF Next

\* Only the two DNS steps touch the DNS state.
LEMMA DnsFrame ==
    ASSUME [Next]_vars
    PROVE  \/ \E w \in Workers : DnsAnswered(w) \/ DnsMerge(w)
           \/ dns' = dns
<1>1. CASE CallAccounts \/ Dispatch \/ Deadline \/ Done \/ UNCHANGED vars
  BY <1>1 DEF CallAccounts, Dispatch, ListAccounts, ListAccountsFails,
              ResolveConfigured, SkipSeen, Acquire, StopAdmitting, Admit, AllAdmitted,
              Wait, Report, EmitGauges, Deadline, Done
<1>2. ASSUME NEW w \in Workers, Call(w) \/ Step(w), ~DnsAnswered(w), ~DnsMerge(w)
      PROVE  dns' = dns
  BY <1>2 DEF Call, Step, ListZones, ListZonesFails, ZoneTags, ZoneTagsFails, FetchOK,
              FetchFails, Lookup, Claim, Announce, Join, RecordFailure, Release, Exit
<1> QED
  BY <1>1, <1>2 DEF Next

\* Every step keeps the listing worker of an account the only one.
LEMMA CacheStep == IInv /\ [Next]_vars => CacheInv'
<1> SUFFICES ASSUME TypeOK, PhaseInv, DispatchInv, CacheInv, [Next]_vars
             PROVE  CacheInv'
  BY DEF IInv
<1>1. ASSUME NEW w \in Workers, Call(w) \/ Step(w), NEW v \in Workers, wpc'[v] = "list"
      PROVE  Account(v)' \notin cached'
  <2>1. ids' = ids
    BY <1>1, WorkerFrame
  <2>2. CASE Lookup(w)
    BY <1>1, <2>1, <2>2 DEF TypeOK, CacheInv, Lookup, Goto, Account
  <2>3. CASE ListZones(w)
    <3>1. v # w /\ wpc[v] = "list" /\ wpc[w] = "list"
      BY <1>1, <2>3 DEF TypeOK, ListZones, Goto
    <3>2. Account(v) # Account(w)
      BY <3>1 DEF DispatchInv, Account
    <3> QED
      BY <2>1, <2>3, <3>1, <3>2 DEF CacheInv, ListZones, Account
  <2>4. CASE ~Lookup(w) /\ ~ListZones(w)
    <3>1. cached' = cached
      BY <1>1, <2>4 DEF Call, Step, ListZonesFails, ZoneTags, ZoneTagsFails, FetchOK,
           FetchFails, DnsAnswered, Claim, Announce, DnsMerge, Join, RecordFailure,
           Release, Exit
    <3>2. wpc'[w] # "list" \/ wpc'[w] = wpc[w]
      BY <1>1, <2>4 DEF TypeOK, Call, Step, ListZonesFails, ZoneTags, ZoneTagsFails,
           FetchOK, FetchFails, DnsAnswered, Claim, Announce, DnsMerge, Join,
           RecordFailure, Release, Exit, Goto
    <3>3. wpc[v] = "list"
      BY <1>1, <3>2, WorkerFrame
    <3> QED
      BY <2>1, <3>1, <3>3 DEF CacheInv, Account
  <2> QED
    BY <2>2, <2>3, <2>4
<1>2. CASE Report
  BY <1>2 DEF CacheInv, Report
<1>3. CASE ResolveConfigured \/ CallAccounts
  BY <1>3 DEF PhaseInv, CacheInv, ResolveConfigured, CallAccounts, ListAccounts,
              ListAccountsFails
<1>4. CASE Admit
  BY <1>4 DEF TypeOK, CacheInv, Admit, Account
<1>5. CASE \/ SkipSeen \/ Acquire \/ StopAdmitting \/ AllAdmitted \/ Wait
           \/ EmitGauges \/ Deadline \/ Done \/ UNCHANGED vars
  BY <1>5 DEF CacheInv, Account, SkipSeen, Acquire, StopAdmitting, AllAdmitted, Wait,
              EmitGauges, Deadline, Done
<1> QED
  BY <1>1, <1>2, <1>3, <1>4, <1>5 DEF Next, CacheInv, Dispatch

-----------------------------------------------------------------------------
(* The theorems *)

\* The invariant holds when Collect starts.
LEMMA InitInv == Init => IInv
<1> SUFFICES ASSUME Init
             PROVE  IInv
  OBVIOUS
<1> NumJobs \in Nat \ {0} /\ MaxAccounts \in Nat \ {0}
  BY JobsAssumption
<1>1. << >> \in Seq(Accounts) /\ Len(<< >>) = 0 /\ << >> \in Seq(Zones)
  OBVIOUS
<1>2. NoState \in DnsStates
  BY DEF NoState, DnsStates
<1>3. TypeOK
  <2>1. /\ job \in 1..(NumJobs + 1) /\ next \in 1..(MaxAccounts + 1) /\ sem \in Int
        /\ dpc = "resolve" /\ ids \in Seq(Accounts) /\ Len(ids) <= MaxAccounts
    BY <1>1 DEF Init
  <2>2. /\ zones \in [Workers -> Seq(Zones)]
        /\ zonesByAccount \in [Accounts -> Seq(Zones)]
    BY <1>1 DEF Init, InitWorkers
  <2>3. dns \in [Accounts -> DnsStates] /\ dnsGauge \in [Accounts -> DnsStates]
    BY <1>2 DEF Init
  <2>4. /\ failed = FALSE /\ jobErr = FALSE /\ expired = FALSE
        /\ wpc \in [Workers -> Holding \cup {"idle", "exit", "gone"}]
        /\ tags \in [Workers -> SUBSET Zones]
        /\ picked \in [Workers -> SUBSET Nat]
        /\ fetch \in [Workers -> [Apis -> {"off", "running", "merging", "ok", "err"}]]
        /\ rows \in [Workers -> SUBSET DNSRows]
    BY DEF Init, InitWorkers
  <2>5. /\ cached \subseteq Accounts
        /\ claimedBy \in [Zones -> 0..NumJobs]
        /\ series \in [Families -> [Zones -> Nat]]
        /\ scrapeErrors \in [Names -> Nat]
        /\ jobSuccess \in [Names -> {"unset", "0", "1"}]
        /\ apiErrors \in [CountedApis -> [Accounts -> Nat]]
        /\ matched \in [Zones -> SUBSET Jobs]
        /\ outcome \in [Jobs -> {"pending", "ok", "error"}]
    BY DEF Init
  <2> QED
    BY <2>1, <2>2, <2>3, <2>4, <2>5 DEF TypeOK
<1>4. PhaseInv /\ DispatchInv /\ SemInv
  BY DEF Init, InitWorkers, PhaseInv, DispatchInv, SemInv
<1>5. \A w \in Workers : Mine(w) = {}
  BY DEF Init, InitWorkers, Mine
<1>6. ClaimInv
  BY <1>5 DEF Init, InitWorkers, ClaimInv
<1>7. SeriesInv
  BY <1>5 DEF Init, InitWorkers, SeriesInv
<1>8. CacheInv
  BY DEF Init, InitWorkers, CacheInv
<1> QED
  BY <1>3, <1>4, <1>6, <1>7, <1>8 DEF IInv

\* The inductive invariant holds of every reachable state of a scrape.
THEOREM Invariance == Spec => []IInv
<1>1. IInv /\ [Next]_vars => IInv'
  BY TypeStep, PhaseStep, DispatchStep, SemStep, ClaimStep, SeriesStep,
     CacheStep DEF IInv
<1> QED
  BY InitInv, <1>1, PTL DEF Spec

\* Type correctness.
THEOREM TypeCorrect == Spec => []TypeOK
<1>1. IInv => TypeOK
  BY DEF IInv
<1> QED
  BY Invariance, <1>1, PTL

\* No scrape sends a series twice, however many jobs select a zone, however
\* often an account or a zone is listed, and whichever calls fail.
THEOREM NoDuplicates == Spec => []NoDuplicateSeries
<1>1. IInv => NoDuplicateSeries
  BY DEF IInv, SeriesInv, NoDuplicateSeries
<1> QED
  BY Invariance, <1>1, PTL

\* The unlocked writes to an account's DNS state never race.
THEOREM RaceFree == Spec => []DnsStateRaceFree
<1>1. IInv => DnsStateRaceFree
  BY DEF IInv, DispatchInv, DnsStateRaceFree, Account
<1> QED
  BY Invariance, <1>1, PTL

\* The semaphore bounds the accounts in flight by AccountConcurrency.
THEOREM Bounded == Spec => []ConcurrencyBound
<1>1. ASSUME IInv
      PROVE  ConcurrencyBound
  <2>1. Limit \in Nat \ {0}
    BY LimitsAssumption DEF Limit
  <2>2. CASE dpc \in {"loop", "check", "wait"}
    BY <1>1, <2>2 DEF IInv, SemInv, ConcurrencyBound
  <2>3. CASE dpc \notin {"loop", "check", "wait"}
    <3>1. Holders = {}
      BY <1>1, <2>3 DEF IInv, TypeOK, PhaseInv, Holders, Holding
    <3>2. Cardinality(Holders) = 0
      BY <3>1, FS_EmptySet
    <3> QED
      BY <2>1, <2>3, <3>2 DEF ConcurrencyBound
  <2> QED
    BY <2>2, <2>3
<1> QED
  BY Invariance, <1>1, PTL

\* With concurrency 1 accounts are scraped strictly one after the other, and
\* none is started after a failure.
THEOREM FailFast == Spec => SerialFailFast
<1>1. ASSUME IInv, [Next]_vars, NEW w \in Workers,
             Limit = 1, wpc[w] = "idle", wpc'[w] # "idle"
      PROVE  ~jobErr /\ \A v \in Workers : wpc[v] \in {"idle", "exit", "gone"}
  <2>1. TypeOK /\ PhaseInv /\ SemInv
    BY <1>1 DEF IInv
  <2>2. ~(Call(w) \/ Step(w))
    BY <1>1, <2>1, WorkerFrame DEF Holding
  <2>3. \A v \in Workers : v # w => ~(Call(v) \/ Step(v))
    BY <1>1, <2>1, WorkerFrame
  <2>4. Admit
    BY <1>1, <2>2, <2>3 DEF Next, CallAccounts, Dispatch, ListAccounts,
         ListAccountsFails, ResolveConfigured, SkipSeen, Acquire, StopAdmitting,
         AllAdmitted, Wait, Report, EmitGauges, Deadline, Done
  <2>5. dpc = "check" /\ ~failed
    BY <2>4 DEF Admit
  <2>6. ~jobErr
    BY <2>1, <2>5 DEF PhaseInv
  <2>7. Cardinality(Holders) = 0
    BY <1>1, <2>1, <2>5, HoldersFinite DEF SemInv
  <2>8. Holders = {}
    BY <2>7, HoldersFinite, FS_EmptySet
  <2>9. \A v \in Workers : wpc[v] \in {"idle", "exit", "gone"}
    BY <2>1, <2>8 DEF TypeOK, Holders
  <2> QED
    BY <2>6, <2>9
<1>2. IInv /\ [Next]_vars => [\A w \in Workers : StartsAlone(w)]_vars
  BY <1>1 DEF StartsAlone
<1> QED
  BY Invariance, <1>2, PTL DEF Spec, SerialFailFast

\* A scrape lists the zones of an account at most once; later jobs see the
\* same list.
THEOREM ListOnce == Spec => ZonesFetchedOnce
<1>1. ASSUME IInv, [Next]_vars, NEW a \in cached
      PROVE  KeepsList(a)
  <2>1. TypeOK /\ CacheInv
    BY <1>1 DEF IInv
  <2>2. ASSUME NEW w \in Workers, ListZones(w)
        PROVE  KeepsList(a)
    <3>1. Account(w) # a
      BY <2>1, <2>2 DEF CacheInv, ListZones
    <3> QED
      BY <2>1, <2>2, <3>1 DEF TypeOK, KeepsList, ListZones
  <2>3. CASE cached' = cached /\ zonesByAccount' = zonesByAccount
    BY <2>3 DEF KeepsList
  <2> QED
    BY <1>1, <2>2, <2>3, CacheFrame
<1>2. IInv /\ [Next]_vars => [\A a \in cached : KeepsList(a)]_vars
  BY <1>1
<1> QED
  BY Invariance, <1>2, PTL DEF Spec, ZonesFetchedOnce

\* A step that touches the DNS state of an account adds to it.
LEMMA DnsGrowth ==
    ASSUME IInv, [Next]_vars, NEW a \in Accounts
    PROVE  DnsGrows(a)
<1>1. dns \in [Accounts -> DnsStates]
  BY DEF IInv, TypeOK
<1>2. ASSUME NEW w \in Workers, DnsAnswered(w)
      PROVE  DnsGrows(a)
  BY <1>1, <1>2 DEF DnsAnswered, DnsGrows, DnsStates
<1>3. ASSUME NEW w \in Workers, DnsMerge(w)
      PROVE  DnsGrows(a)
  BY <1>1, <1>3 DEF DnsMerge, DnsGrows, DnsStates
<1>4. CASE dns' = dns
  BY <1>4 DEF DnsGrows
<1> QED
  BY <1>2, <1>3, <1>4, DnsFrame

\* What the jobs learnt about an account's DNS answers accumulates.
THEOREM DnsAccumulates == Spec => DnsStateOnlyGrows
<1>1. IInv /\ [Next]_vars => [\A a \in Accounts : DnsGrows(a)]_vars
  BY DnsGrowth
<1> QED
  BY Invariance, <1>1, PTL DEF Spec, DnsStateOnlyGrows

-----------------------------------------------------------------------------
(* What claimZones does *)

\* A set of positions has a first one.
LEMMA FirstPosition ==
    ASSUME NEW S \in SUBSET Nat, S # {}
    PROVE  \E i \in S : \A k \in S : i <= k
<1>1. PICK i \in S : \A k \in S : <<k, i>> \notin OpToRel(<, Nat)
  BY NatLessThanWellFounded, WFMin, Zenon
<1>2. \A k \in S : ~(k < i)
  BY <1>1, Zenon DEF OpToRel
<1> QED
  BY <1>2

\* An unclaimed zone in scope is claimed, at the first position that names it.
LEMMA ClaimableInScope ==
    ASSUME TypeOK, NEW w \in Workers, NEW i \in InScope(w),
           claimedBy[zones[w][i]] = 0
    PROVE  \E k \in Claimable(w) : zones[w][k] = zones[w][i]
<1> DEFINE S == {k \in InScope(w) : zones[w][k] = zones[w][i]}
<1>1. S \in SUBSET Nat /\ i \in S
  BY DEF TypeOK, InScope
<1>2. PICK m \in S : \A k \in S : m <= k
  BY <1>1, FirstPosition
<1>3. \A k \in InScope(w) : k < m => zones[w][k] # zones[w][m]
  BY <1>1, <1>2
<1>4. m \in Claimable(w)
  BY <1>2, <1>3 DEF Claimable
<1> QED
  BY <1>2, <1>4

\* The zones that a job selects in the account of worker w.
Scope(w) == {zones[w][i] : i \in InScope(w)}

\* Claim gives each unowned zone in scope to the job, and no other zone.
LEMMA ClaimEffect ==
    ASSUME TypeOK, NEW w \in Workers, Claim(w), NEW z \in Zones
    PROVE  /\ claimedBy'[z] = IF z \in Scope(w) /\ claimedBy[z] = 0
                              THEN job ELSE claimedBy[z]
           /\ matched'[z] = IF z \in Scope(w) THEN matched[z] \cup {job} ELSE matched[z]
<1> DEFINE mine == {zones[w][i] : i \in Claimable(w)}
<1>1. /\ claimedBy'[z] = IF z \in mine THEN job ELSE claimedBy[z]
      /\ matched'[z] = IF z \in Scope(w) THEN matched[z] \cup {job} ELSE matched[z]
  BY DEF Claim, Scope
<1>2. z \in mine <=> z \in Scope(w) /\ claimedBy[z] = 0
  <2>1. z \in mine => z \in Scope(w) /\ claimedBy[z] = 0
    BY DEF Claimable, Scope
  <2>2. z \in Scope(w) /\ claimedBy[z] = 0 => z \in mine
    BY ClaimableInScope DEF Scope
  <2> QED
    BY <2>1, <2>2
<1> HIDE DEF mine
<1> QED
  BY <1>1, <1>2

\* Only Claim touches the claims and the record of who selected what.
LEMMA OwnerFrame ==
    ASSUME [Next]_vars
    PROVE  \/ \E w \in Workers : Claim(w)
           \/ matched' = matched /\ claimedBy' = claimedBy
<1>1. CASE CallAccounts \/ Dispatch \/ Deadline \/ Done \/ UNCHANGED vars
  BY <1>1 DEF CallAccounts, Dispatch, ListAccounts, ListAccountsFails,
              ResolveConfigured, SkipSeen, Acquire, StopAdmitting, Admit, AllAdmitted,
              Wait, Report, EmitGauges, Deadline, Done
<1>2. ASSUME NEW w \in Workers, Call(w) \/ Step(w), ~Claim(w)
      PROVE  matched' = matched /\ claimedBy' = claimedBy
  BY <1>2 DEF Call, Step, ListZones, ListZonesFails, ZoneTags, ZoneTagsFails, FetchOK,
              FetchFails, DnsAnswered, Lookup, Announce, DnsMerge, Join, RecordFailure,
              Release, Exit
<1> QED
  BY <1>1, <1>2 DEF Next

\* Only Report ends a job, and it goes on to the next one.
LEMMA ResultFrame ==
    ASSUME [Next]_vars
    PROVE  \/ Report
           \/ UNCHANGED <<job, scrapeErrors, jobSuccess, outcome>>
<1>1. CASE CallAccounts \/ (Dispatch /\ ~Report) \/ Deadline \/ Done \/ UNCHANGED vars
  BY <1>1 DEF CallAccounts, Dispatch, ListAccounts, ListAccountsFails, StartJob,
              ResolveConfigured, SkipSeen, Acquire, StopAdmitting, Admit, AllAdmitted,
              Wait, EmitGauges, Deadline, Done
<1>2. ASSUME NEW w \in Workers, Call(w) \/ Step(w)
      PROVE  UNCHANGED <<job, scrapeErrors, jobSuccess, outcome>>
  BY <1>2 DEF Call, Step, ListZones, ListZonesFails, ZoneTags, ZoneTagsFails, FetchOK,
              FetchFails, DnsAnswered, Lookup, Claim, Announce, DnsMerge, Join,
              RecordFailure, Release, Exit
<1> QED
  BY <1>1, <1>2 DEF Next

-----------------------------------------------------------------------------
(* Each part of the strengthening is preserved by every step. *)

\* Every step keeps the owner of a zone the first job that selected it.
LEMMA OwnerStep == IInv /\ OwnerInv /\ [Next]_vars => OwnerInv'
<1> SUFFICES ASSUME TypeOK, PhaseInv, DispatchInv, ClaimInv, OwnerInv, [Next]_vars,
                    NEW z \in Zones
             PROVE  /\ matched'[z] \subseteq 1..job'
                    /\ claimedBy'[z] # 0 <=> matched'[z] # {}
                    /\ claimedBy'[z] # 0 => claimedBy'[z] \in matched'[z]
                    /\ \A j \in matched'[z] : claimedBy'[z] <= j
  BY DEF IInv, OwnerInv
<1> job \in Nat \ {0} /\ claimedBy[z] \in Nat
  BY DEF TypeOK
<1>1. /\ matched[z] \subseteq 1..job
      /\ claimedBy[z] # 0 <=> matched[z] # {}
      /\ claimedBy[z] # 0 => claimedBy[z] \in matched[z]
      /\ \A j \in matched[z] : claimedBy[z] <= j
  BY DEF OwnerInv
<1>2. ASSUME NEW w \in Workers, Claim(w)
      PROVE  /\ matched'[z] \subseteq 1..job'
             /\ claimedBy'[z] # 0 <=> matched'[z] # {}
             /\ claimedBy'[z] # 0 => claimedBy'[z] \in matched'[z]
             /\ \A j \in matched'[z] : claimedBy'[z] <= j
  <2>1. /\ claimedBy'[z] = IF z \in Scope(w) /\ claimedBy[z] = 0
                           THEN job ELSE claimedBy[z]
        /\ matched'[z] = IF z \in Scope(w) THEN matched[z] \cup {job} ELSE matched[z]
    BY <1>2, ClaimEffect
  <2>2. job' = job /\ claimedBy[z] <= job
    BY <1>2 DEF Claim, ClaimInv
  <2>3. CASE z \notin Scope(w)
    BY <1>1, <2>1, <2>2, <2>3
  <2>4. CASE z \in Scope(w) /\ claimedBy[z] = 0
    <3>1. claimedBy'[z] = job /\ matched'[z] = {job}
      BY <1>1, <2>1, <2>4
    <3> QED
      BY <2>2, <3>1
  <2>5. CASE z \in Scope(w) /\ claimedBy[z] # 0
    <3>1. claimedBy'[z] = claimedBy[z] /\ matched'[z] = matched[z] \cup {job}
      BY <2>1, <2>5
    <3> QED
      BY <1>1, <2>2, <2>5, <3>1
  <2> QED
    BY <2>3, <2>4, <2>5
<1>3. CASE matched' = matched /\ claimedBy' = claimedBy
  <2>1. job' = job \/ job' = job + 1
    BY ResultFrame DEF Report
  <2>2. 1..job \subseteq 1..job'
    BY <2>1
  <2> QED
    BY <1>1, <1>3, <2>2
<1> QED
  BY <1>2, <1>3, OwnerFrame

\* The failures of a name are finitely many.
LEMMA FailuresFinite ==
    ASSUME NEW n
    PROVE  IsFiniteSet(Failures(n)) /\ Cardinality(Failures(n)) \in Nat
<1>1. IsFiniteSet(Jobs)
  BY FS_Interval, JobsAssumption DEF Jobs
<1> QED
  BY <1>1, FS_Subset, FS_CardinalityType DEF Failures

\* Every step keeps what the counters say of the jobs reported so far.
LEMMA ResultStep == IInv /\ ResultInv /\ [Next]_vars => ResultInv'
<1> SUFFICES ASSUME TypeOK, PhaseInv, ResultInv, [Next]_vars
             PROVE  ResultInv'
  BY DEF IInv
<1>1. CASE UNCHANGED <<job, scrapeErrors, jobSuccess, outcome>>
  BY <1>1 DEF ResultInv, Failures, LastFailed
<1>2. CASE Report
  <2> DEFINE name == JobName[job]
             result == IF jobErr THEN "error" ELSE "ok"
  <2>1. job \in Jobs /\ job' = job + 1
    BY <1>2, CurrentJob DEF Report
  <2>2. name \in Names
    BY <2>1 DEF Names
  <2>3. \A j \in Jobs : outcome'[j] = IF j = job THEN result ELSE outcome[j]
    BY <1>2 DEF TypeOK, Report
  <2>4. /\ jobErr => /\ scrapeErrors' = [scrapeErrors EXCEPT ![name] = @ + 1]
                     /\ jobSuccess' = [jobSuccess EXCEPT ![name] = "0"]
        /\ ~jobErr => /\ jobSuccess' = [jobSuccess EXCEPT ![name] = "1"]
                      /\ scrapeErrors' = scrapeErrors
    BY <1>2 DEF Report
  <2>5. \A n \in Names :
          /\ scrapeErrors'[n] = IF n = name /\ jobErr THEN scrapeErrors[n] + 1
                                                     ELSE scrapeErrors[n]
          /\ n = name => jobSuccess'[n] = IF jobErr THEN "0" ELSE "1"
          /\ n # name => jobSuccess'[n] = jobSuccess[n]
    BY <2>2, <2>4 DEF TypeOK
  <2>6. result \in {"ok", "error"} /\ (result = "error" <=> jobErr)
    BY DEF TypeOK
  <2> HIDE DEF name, result
  <2>7. \A j \in Jobs : j \in Nat
    BY DEF Jobs
  <2>8. \A j \in Jobs : outcome[j] = "pending" <=> j >= job
    BY DEF ResultInv
  <2>9. \A j \in Jobs : outcome'[j] = "pending" <=> j >= job'
    BY <2>1, <2>3, <2>6, <2>7, <2>8
  <2>10. outcome[job] = "pending"
    BY <2>1, <2>7, <2>8
  <2>11. ASSUME NEW n \in Names
         PROVE  scrapeErrors'[n] = Cardinality(Failures(n)')
    <3>1. scrapeErrors[n] = Cardinality(Failures(n))
      BY DEF ResultInv
    <3>2. job \notin Failures(n)
      BY <2>10 DEF Failures
    <3>3. CASE n = name /\ jobErr
      <4>1. Failures(n)' = Failures(n) \cup {job}
        BY <2>1, <2>3, <2>6, <3>3 DEF Failures, name
      <4>2. Cardinality(Failures(n) \cup {job}) = Cardinality(Failures(n)) + 1
        BY <3>2, FailuresFinite, FS_AddElement
      <4>3. scrapeErrors'[n] = scrapeErrors[n] + 1
        BY <2>5, <3>3
      <4> QED
        BY <3>1, <4>1, <4>2, <4>3
    <3>4. CASE ~(n = name /\ jobErr)
      <4>1. Failures(n)' = Failures(n)
        BY <2>1, <2>3, <2>6, <2>10, <3>4 DEF Failures, name
      <4> QED
        BY <2>5, <3>1, <3>4, <4>1
    <3> QED
      BY <3>3, <3>4
  <2>12. ASSUME NEW n \in Names
         PROVE  jobSuccess'[n] = "0" <=> LastFailed(n)'
    <3>1. CASE n = name
      <4>1. jobSuccess'[n] = "0" <=> jobErr
        BY <2>5, <3>1 DEF TypeOK
      <4>2. \A k \in Jobs : k > job => outcome'[k] = "pending"
        BY <2>1, <2>3, <2>7, <2>8
      <4>3. jobErr => LastFailed(n)'
        BY <2>1, <2>3, <2>6, <3>1, <4>2 DEF LastFailed, Failures, name
      <4>4. ASSUME LastFailed(n)'
            PROVE  jobErr
        <5>1. PICK j \in Failures(n)' :
                \A k \in Jobs : k > j /\ JobName[k] = n => outcome'[k] = "pending"
          BY <4>4 DEF LastFailed
        <5>2. j \in Jobs /\ outcome'[j] = "error"
          BY <5>1 DEF Failures
        <5>3. ~(j < job)
          BY <2>1, <2>3, <2>6, <3>1, <5>1, <5>2 DEF name
        <5>4. j = job
          BY <2>1, <2>7, <2>9, <5>2, <5>3
        <5> QED
          BY <2>3, <2>6, <5>2, <5>4
      <4> QED
        BY <4>1, <4>3, <4>4
    <3>2. CASE n # name
      <4>1. \A k \in Jobs : JobName[k] = n => outcome'[k] = outcome[k]
        BY <2>3, <3>2 DEF name
      <4>2. LastFailed(n)' <=> LastFailed(n)
        BY <4>1 DEF LastFailed, Failures
      <4> QED
        BY <2>5, <3>2, <4>2 DEF ResultInv
    <3> QED
      BY <3>1, <3>2
  <2> QED
    BY <2>9, <2>11, <2>12 DEF ResultInv
<1> QED
  BY <1>1, <1>2, ResultFrame

\* A worker's step never takes back an error.
LEMMA ErrorStays ==
    ASSUME NEW w \in Workers, Call(w) \/ Step(w), jobErr
    PROVE  jobErr'
BY DEF Call, Step, ListZones, ListZonesFails, ZoneTags, ZoneTagsFails, FetchOK,
       FetchFails, DnsAnswered, Lookup, Claim, Announce, DnsMerge, Join,
       RecordFailure, Release, Exit

\* A zone once claimed keeps its owner.
LEMMA ClaimStays ==
    ASSUME IInv, [Next]_vars, NEW z \in Zones, claimedBy[z] # 0
    PROVE  claimedBy'[z] = claimedBy[z]
BY ClaimEffect, OwnerFrame DEF IInv

\* Every step keeps a worker for each account the loop has gone past.
LEMMA AdmittedStep ==
    ASSUME IInv, CoverInv, [Next]_vars
    PROVE  /\ dpc' = "resolve" => next' = 1
           /\ \A i \in 1..(next' - 1) :
                 \E w \in Workers : wpc'[w] # "idle" /\ ids'[w] = ids'[i]
           /\ dpc' \in {"wait", "report"} /\ ~jobErr' => next' > Len(ids')
<1> TypeOK /\ PhaseInv /\ DispatchInv
  BY DEF IInv
<1> USE DEF CoverInv
<1>1. CASE ResolveConfigured \/ ListAccounts
  BY <1>1 DEF ResolveConfigured, ListAccounts, StartJob
<1>2. CASE ListAccountsFails
  BY <1>2 DEF ListAccountsFails
<1>3. CASE SkipSeen
  <2>1. PICK k \in 1..(next - 1) : ids[k] = ids[next]
    BY <1>3 DEF SkipSeen, Seen
  <2>2. PICK w \in Workers : wpc[w] # "idle" /\ ids[w] = ids[next]
    BY <2>1
  <2>3. next' = next + 1 /\ next \in Nat /\ UNCHANGED <<wpc, ids, jobErr, dpc>>
        /\ dpc = "loop"
    BY <1>3 DEF SkipSeen, TypeOK
  <2>4. ASSUME NEW i \in 1..(next' - 1)
        PROVE  \E v \in Workers : wpc'[v] # "idle" /\ ids'[v] = ids'[i]
    <3>1. i = next \/ i \in 1..(next - 1)
      BY <2>3
    <3> QED
      BY <2>2, <2>3, <3>1
  <2> QED
    BY <2>3, <2>4
<1>4. CASE Admit
  <2>1. next \in Nat /\ next <= Len(ids) /\ Len(ids) <= MaxAccounts /\ next >= 1
    BY <1>4 DEF TypeOK, PhaseInv, Admit
  <2>2. next \in Workers /\ MaxAccounts \in Nat
    BY <2>1, JobsAssumption DEF Workers, TypeOK
  <2>3. next' = next + 1 /\ UNCHANGED <<ids, jobErr>> /\ dpc' = "loop"
    BY <1>4 DEF Admit
  <2>4. \A v \in Workers : wpc'[v] = IF v = next THEN "lookup" ELSE wpc[v]
    BY <1>4 DEF Admit, TypeOK
  <2>5. ASSUME NEW i \in 1..(next' - 1)
        PROVE  \E v \in Workers : wpc'[v] # "idle" /\ ids'[v] = ids'[i]
    <3>1. i = next \/ i \in 1..(next - 1)
      BY <2>1, <2>3
    <3> QED
      BY <2>2, <2>3, <2>4, <3>1
  <2> QED
    BY <2>3, <2>5
<1>5. CASE Acquire \/ EmitGauges \/ Deadline \/ Done \/ UNCHANGED vars
  BY <1>5 DEF Acquire, EmitGauges, Deadline, Done
<1>6. CASE StopAdmitting
  BY <1>6 DEF StopAdmitting, PhaseInv
<1>7. CASE AllAdmitted \/ Wait
  BY <1>7 DEF AllAdmitted, Wait
<1>8. CASE Report
  BY <1>8 DEF Report
<1>9. ASSUME NEW w \in Workers, Call(w) \/ Step(w)
      PROVE  /\ dpc' = "resolve" => next' = 1
             /\ \A i \in 1..(next' - 1) :
                   \E v \in Workers : wpc'[v] # "idle" /\ ids'[v] = ids'[i]
             /\ dpc' \in {"wait", "report"} /\ ~jobErr' => next' > Len(ids')
  <2>1. UNCHANGED <<dpc, ids, next>> /\ \A v \in Workers : wpc[v] # "idle" => wpc'[v] # "idle"
    BY <1>9, WorkerFrame DEF Holding
  <2> QED
    BY <1>9, <2>1, ErrorStays
<1> QED
  BY <1>1, <1>2, <1>3, <1>4, <1>5, <1>6, <1>7, <1>8, <1>9 DEF Next, CallAccounts, Dispatch

\* What covers an account stays when its worker does not move.
LEMMA CoveredFrame ==
    ASSUME IInv, [Next]_vars, NEW v \in Workers, Covered(v), wpc[v] # "idle",
           UNCHANGED <<job, ids>>, wpc'[v] = wpc[v], zones'[v] = zones[v],
           jobErr => jobErr'
    PROVE  Covered(v)'
<1>1. TypeOK /\ CacheInv
  BY DEF IInv
<1>2. LeftWell(v)' => LeftWell(v)
  BY DEF LeftWell
<1>3. ASSUME Listed(v)
      PROVE  Listed(v)'
    <3>1. Account(v)' = Account(v)
      BY DEF Account
    <3>2. CASE cached' = cached /\ zonesByAccount' = zonesByAccount
      BY <1>3, <3>1, <3>2 DEF Listed
    <3>3. ASSUME NEW w \in Workers, ListZones(w)
          PROVE  Listed(v)'
      <4>1. Account(w) # Account(v)
        BY <1>1, <1>3, <3>3 DEF CacheInv, ListZones, Listed
      <4>2. Account(v) \in cached' /\ zonesByAccount'[Account(v)] = zonesByAccount[Account(v)]
        BY <1>1, <1>3, <3>3, <4>1 DEF ListZones, Listed, TypeOK
      <4> QED
        BY <1>3, <3>1, <4>2 DEF Listed
    <3> QED
      BY <3>2, <3>3, CacheFrame
<1>4. ASSUME AllClaimed(v)
      PROVE  AllClaimed(v)'
  <2>1. ASSUME NEW k \in DOMAIN zones[v]
        PROVE  claimedBy'[zones[v][k]] \in 1..job
    <3>1. zones[v][k] \in Zones /\ claimedBy[zones[v][k]] \in 1..job
      BY <1>1, <1>4 DEF TypeOK, AllClaimed
    <3>2. claimedBy[zones[v][k]] # 0
      BY <3>1
    <3> QED
      BY <3>1, <3>2, ClaimStays
  <2> QED
    BY <2>1 DEF AllClaimed
<1> QED
  BY <1>2, <1>3, <1>4 DEF Covered

\* Every step of a worker keeps its own account covered.
LEMMA CoveredMove ==
    ASSUME IInv, CoverInv, NEW w \in Workers, Call(w) \/ Step(w)
    PROVE  Covered(w)'
<1>1. TypeOK /\ ClaimInv /\ Covered(w) /\ DispatchInv /\ PhaseInv
  BY DEF IInv, CoverInv
<1>2. Account(w)' = Account(w) /\ job' = job /\ (jobErr => jobErr') /\ [Next]_vars
  BY <1>1, WorkerFrame, ErrorStays DEF Account, Next
<1>3. wpc[w] # "idle" /\ Account(w) \in Accounts /\ job \in Jobs
  BY <1>1, WorkerFrame, ActiveWorker DEF Holding
<1>4. CASE Lookup(w)
  BY <1>1, <1>2, <1>4 DEF TypeOK, Lookup, Goto, Covered, Listed, LeftWell
<1>5. CASE ListZones(w)
  <2>1. wpc'[w] = "tags"
    BY <1>1, <1>5 DEF TypeOK, ListZones, Goto
  <2>2. Account(w) \in cached' /\ zones'[w] = zonesByAccount'[Account(w)]
    BY <1>1, <1>3, <1>5 DEF TypeOK, ListZones
  <2> QED
    BY <1>2, <2>1, <2>2 DEF Covered, Listed, LeftWell
<1>6. CASE ListZonesFails(w)
  BY <1>1, <1>6 DEF TypeOK, ListZonesFails, Goto, Covered, LeftWell
<1>7. CASE ZoneTags(w) \/ ZoneTagsFails(w)
  <2>1. /\ wpc[w] = "tags" /\ wpc'[w] \in {"claim", "fail"}
        /\ UNCHANGED <<zones, cached, zonesByAccount>>
    BY <1>1, <1>7 DEF TypeOK, ZoneTags, ZoneTagsFails, Goto
  <2> QED
    BY <1>1, <1>2, <2>1 DEF Covered, Listed, LeftWell
<1>8. CASE Claim(w)
  <2>1. /\ wpc[w] = "claim" /\ wpc'[w] \in {"release", "announce"}
        /\ UNCHANGED <<zones, cached, zonesByAccount, jobErr>>
    BY <1>1, <1>8 DEF TypeOK, Claim, Goto
  <2>2. Listed(w)'
    BY <1>1, <1>2, <2>1 DEF Covered, Listed
  <2>3. ASSUME ~Filtered[job], NEW k \in DOMAIN zones[w]
        PROVE  claimedBy'[zones[w][k]] \in 1..job
    <3>1. zones[w][k] \in Zones /\ zones[w][k] \in Scope(w)
      BY <1>1, <2>3 DEF TypeOK, Scope, InScope
    <3>2. claimedBy[zones[w][k]] \in 0..job /\ job \in Nat \ {0}
      BY <1>1, <3>1 DEF TypeOK, ClaimInv
    <3>3. claimedBy'[zones[w][k]] = IF claimedBy[zones[w][k]] = 0
                                    THEN job ELSE claimedBy[zones[w][k]]
      BY <1>1, <1>8, <3>1, ClaimEffect
    <3> QED
      BY <3>2, <3>3
  <2>4. Filtered[job] \/ AllClaimed(w)'
    BY <1>2, <2>1, <2>3 DEF AllClaimed
  <2> QED
    BY <1>2, <2>2, <2>4 DEF Covered
<1>9. ASSUME wpc[w] \in {"announce", "fetch", "release", "exit"},
             wpc'[w] \in {"announce", "fetch"} \/ LeftWell(w)' =>
                wpc[w] \in {"announce", "fetch"} \/ LeftWell(w),
             wpc'[w] \notin {"tags", "claim"},
             UNCHANGED <<zones, cached, zonesByAccount, claimedBy>>
      PROVE  Covered(w)'
  BY <1>1, <1>2, <1>9 DEF Covered, Listed, AllClaimed
<1>10. CASE \E api \in Apis : FetchOK(w, api) \/ FetchFails(w, api)
  BY <1>9, <1>10 DEF FetchOK, FetchFails, LeftWell
<1>11. CASE DnsAnswered(w) \/ DnsMerge(w)
  BY <1>9, <1>11 DEF DnsAnswered, DnsMerge, LeftWell
<1>12. CASE Announce(w) \/ Join(w)
  <2>1. wpc[w] \in {"announce", "fetch"} /\ wpc'[w] \in {"fetch", "fail", "release"}
        /\ UNCHANGED <<zones, cached, zonesByAccount, claimedBy>>
    BY <1>1, <1>12 DEF TypeOK, Announce, Join, Goto
  <2> QED
    BY <1>9, <2>1
<1>13. CASE RecordFailure(w)
  BY <1>1, <1>13 DEF TypeOK, RecordFailure, Goto, Covered, LeftWell
<1>14. CASE Release(w) \/ Exit(w)
  <2>1. wpc[w] \in {"release", "exit"} /\ wpc'[w] \in {"exit", "gone"}
        /\ UNCHANGED <<zones, cached, zonesByAccount, claimedBy, jobErr>>
    BY <1>1, <1>14 DEF TypeOK, Release, Exit, Goto
  <2> QED
    BY <1>9, <2>1 DEF LeftWell
<1> QED
  BY <1>4, <1>5, <1>6, <1>7, <1>8, <1>10, <1>11, <1>12, <1>13, <1>14 DEF Call, Step

\* Every step keeps each account the loop has gone past covered.
LEMMA CoverStep == IInv /\ CoverInv /\ [Next]_vars => CoverInv'
<1> SUFFICES ASSUME IInv, CoverInv, [Next]_vars, NEW v \in Workers
             PROVE  Covered(v)'
  BY AdmittedStep DEF CoverInv
<1>1. TypeOK /\ PhaseInv /\ DispatchInv /\ Covered(v)
  BY DEF IInv, CoverInv
<1>2. CASE wpc'[v] \in {"idle", "lookup"}
  BY <1>2 DEF Covered, LeftWell
<1>3. ASSUME NEW w \in Workers, Call(w) \/ Step(w), w # v, wpc'[v] # "idle"
      PROVE  Covered(v)'
  <2>1. UNCHANGED <<job, ids>> /\ wpc'[v] = wpc[v]
    BY <1>1, <1>3, WorkerFrame
  <2>2. zones'[v] = zones[v]
    BY <1>1, <1>3 DEF TypeOK, Call, Step, ListZones, ListZonesFails, ZoneTags,
         ZoneTagsFails, FetchOK, FetchFails, DnsAnswered, Lookup, Claim, Announce,
         DnsMerge, Join, RecordFailure, Release, Exit
  <2> QED
    BY <1>1, <1>3, <2>1, <2>2, CoveredFrame, ErrorStays
<1>4. CASE ResolveConfigured \/ CallAccounts
  BY <1>1, <1>2, <1>4 DEF PhaseInv, ResolveConfigured, CallAccounts, ListAccounts,
                          ListAccountsFails
<1>5. CASE \/ SkipSeen \/ Acquire \/ StopAdmitting \/ AllAdmitted \/ Wait
           \/ EmitGauges \/ Deadline \/ Done \/ UNCHANGED vars
  <2>1. UNCHANGED <<job, ids, wpc, zones, jobErr>>
    BY <1>5 DEF SkipSeen, Acquire, StopAdmitting, AllAdmitted, Wait, EmitGauges,
                Deadline, Done
  <2> QED
    BY <1>1, <1>2, <2>1, CoveredFrame
<1>6. CASE Admit
  <2>1. UNCHANGED <<job, ids, zones, jobErr>>
        /\ (wpc'[v] = wpc[v] \/ wpc'[v] = "lookup")
    BY <1>1, <1>6 DEF TypeOK, Admit
  <2> QED
    BY <1>1, <1>2, <2>1, CoveredFrame
<1>7. CASE Report
  BY <1>2, <1>7 DEF Report
<1> QED
  BY <1>2, <1>3, <1>4, <1>5, <1>6, <1>7, CoveredMove DEF Next, Dispatch

\* Every step only adds series.
LEMMA SeriesGrow ==
    ASSUME IInv, [Next]_vars, NEW f \in Families, NEW z \in Zones, series[f][z] = 1
    PROVE  series'[f][z] = 1
<1> TypeOK /\ ClaimInv /\ series[f][z] \in Nat
  BY DEF IInv, TypeOK
<1>1. series'[f][z] \in {0, 1}
  <2>1. SeriesInv'
    BY SeriesStep
  <2> QED
    BY <2>1 DEF SeriesInv
<1>3. ASSUME NEW w \in Workers, Announce(w)
      PROVE  series'[f][z] >= series[f][z]
  <2>1. Count(w, z) \in Nat
    BY CountOne
  <2>2. series'[f][z] \in {series[f][z], series[f][z] + Count(w, z)}
    BY <1>3 DEF TypeOK, Announce, Families
  <2> QED
    BY <2>1, <2>2
<1>4. ASSUME NEW w \in Workers, NEW api \in Apis, NEW reported, Emit(w, api, reported)
      PROVE  series'[f][z] >= series[f][z]
  BY <1>4 DEF TypeOK, Emit, Families
<1>5. \/ \E w \in Workers : \/ Announce(w)
                            \/ \E api \in Apis : FetchOK(w, api)
                            \/ DnsMerge(w)
      \/ series' = series
  <2>1. CASE CallAccounts \/ Dispatch \/ Deadline \/ Done \/ UNCHANGED vars
    BY <2>1 DEF CallAccounts, Dispatch, ListAccounts, ListAccountsFails,
                ResolveConfigured, SkipSeen, Acquire, StopAdmitting, Admit, AllAdmitted,
                Wait, Report, EmitGauges, Deadline, Done
  <2>2. ASSUME NEW w \in Workers, Call(w) \/ Step(w)
        PROVE  \/ Announce(w) \/ DnsMerge(w) \/ \E api \in Apis : FetchOK(w, api)
               \/ series' = series
    BY <2>2 DEF Call, Step, ListZones, ListZonesFails, ZoneTags, ZoneTagsFails,
                FetchFails, DnsAnswered, Lookup, Claim, Join, RecordFailure, Release, Exit
  <2>3. \/ CallAccounts \/ Dispatch \/ Deadline \/ Done \/ UNCHANGED vars
        \/ \E w \in Workers : Call(w) \/ Step(w)
    BY DEF Next
  <2> QED
    BY <2>1, <2>2, <2>3
<1>6. ASSUME NEW w \in Workers, NEW api \in Apis, FetchOK(w, api)
      PROVE  series'[f][z] >= series[f][z]
  BY <1>4, <1>6 DEF FetchOK
<1>7. ASSUME NEW w \in Workers, DnsMerge(w)
      PROVE  series'[f][z] >= series[f][z]
  <2>1. "dns_analytics" \in Apis
    BY DEF Apis
  <2> QED
    BY <1>4, <1>7, <2>1 DEF DnsMerge
<1>8. series' = series \/ series'[f][z] >= series[f][z]
  BY <1>3, <1>5, <1>6, <1>7
<1> QED
  BY <1>1, <1>8

\* Every step keeps the failures that were counted and the cuts that were seen.
LEMMA LossStays ==
    ASSUME IInv, [Next]_vars, DnsLoss
    PROVE  DnsLoss'
<1> TypeOK /\ PhaseInv /\ DispatchInv
  BY DEF IInv
<1> "dns_analytics" \in CountedApis /\ "resource_tagging" \in CountedApis
  BY DEF CountedApis
<1>1. PICK a \in Accounts : apiErrors["dns_analytics"][a] > 0 \/ dns[a].truncated
  BY DEF DnsLoss
<1>2. dns[a].truncated => dns'[a].truncated
  BY DnsGrowth DEF DnsGrows
<1>3. apiErrors["dns_analytics"][a] > 0 => apiErrors'["dns_analytics"][a] > 0
  <2>1. CASE apiErrors' = apiErrors
    BY <2>1
  <2>2. ASSUME NEW b \in Accounts, NEW api \in CountedApis,
               apiErrors' = [apiErrors EXCEPT ![api][b] = @ + 1]
        PROVE  apiErrors["dns_analytics"][a] > 0 => apiErrors'["dns_analytics"][a] > 0
    <3>1. apiErrors \in [CountedApis -> [Accounts -> Nat]]
      BY DEF TypeOK
    <3> HIDE DEF TypeOK
    <3>2. apiErrors'["dns_analytics"][a] \in
             {apiErrors["dns_analytics"][a], apiErrors["dns_analytics"][a] + 1}
      BY <2>2, <3>1
    <3>3. apiErrors["dns_analytics"][a] \in Nat
      BY <3>1
    <3> QED
      BY <3>2, <3>3
  <2>3. ASSUME NEW w \in Workers, ZoneTagsFails(w)
        PROVE  apiErrors["dns_analytics"][a] > 0 => apiErrors'["dns_analytics"][a] > 0
    <3>1. Account(w) \in Accounts
      BY <2>3, ActiveWorker DEF ZoneTagsFails
    <3> QED
      BY <2>1, <2>2, <2>3, <3>1 DEF ZoneTagsFails
  <2>4. ASSUME NEW w \in Workers, NEW api \in Apis, FetchFails(w, api)
        PROVE  apiErrors["dns_analytics"][a] > 0 => apiErrors'["dns_analytics"][a] > 0
    <3>1. Account(w) \in Accounts
      BY <2>4, ActiveWorker DEF FetchFails
    <3> QED
      BY <2>1, <2>2, <2>4, <3>1 DEF FetchFails
  <2>5. CASE CallAccounts \/ Dispatch \/ Deadline \/ Done \/ UNCHANGED vars
    BY <2>5 DEF CallAccounts, Dispatch, ListAccounts, ListAccountsFails,
                ResolveConfigured, SkipSeen, Acquire, StopAdmitting, Admit, AllAdmitted,
                Wait, Report, EmitGauges, Deadline, Done
  <2>6. ASSUME NEW w \in Workers, Call(w) \/ Step(w), ~ZoneTagsFails(w),
               ~ \E api \in Apis : FetchFails(w, api)
        PROVE  apiErrors' = apiErrors
    BY <2>6 DEF Call, Step, ListZones, ListZonesFails, ZoneTags, FetchOK, DnsAnswered,
                Lookup, Claim, Announce, DnsMerge, Join, RecordFailure, Release, Exit
  <2> QED
    BY <2>1, <2>3, <2>4, <2>5, <2>6 DEF Next
<1> QED
  BY <1>1, <1>2, <1>3 DEF DnsLoss

\* What is shown, or accounted for, stays so.
LEMMA ShownStays ==
    ASSUME IInv, [Next]_vars, NEW api \in Apis, NEW z \in Zones, Shown(api, z)
    PROVE  Shown(api, z)'
<1>1. HasData(api)' = HasData(api)
  BY DEF HasData
<1>2. api \in Families
  BY DEF Families
<1> QED
  BY <1>1, <1>2, SeriesGrow, LossStays DEF Shown

LEMMA PublishedStays ==
    ASSUME IInv, [Next]_vars, NEW j \in Jobs, NEW z \in Zones, Published(j, z)
    PROVE  Published(j, z)'
<1>1. \A api \in Enabled[j] : api \in Apis
  BY JobsAssumption
<1>2. "zone_info" \in Families
  BY DEF Families
<1> QED
  BY <1>1, <1>2, SeriesGrow, ShownStays DEF Published

\* Between Claim and Report no worker's zones change.
LEMMA MineFrame ==
    ASSUME IInv, [Next]_vars, ~Report, NEW v \in Workers, ~Claim(v)
    PROVE  Mine(v)' = Mine(v)
<1>1. TypeOK /\ ClaimInv
  BY DEF IInv
<1>2. CASE picked'[v] = picked[v] /\ zones'[v] = zones[v]
  BY <1>2 DEF Mine
<1>3. CASE picked'[v] = {} /\ picked[v] = {}
  BY <1>3 DEF Mine
<1>4. CASE CallAccounts \/ Dispatch \/ Deadline \/ Done \/ UNCHANGED vars
  BY <1>2, <1>4 DEF CallAccounts, Dispatch, ListAccounts, ListAccountsFails,
              ResolveConfigured, SkipSeen, Acquire, StopAdmitting, Admit, AllAdmitted,
              Wait, EmitGauges, Deadline, Done
<1>5. ASSUME NEW w \in Workers, Claim(w)
      PROVE  Mine(v)' = Mine(v)
  <2>1. v # w
    BY <1>5
  <2>2. picked'[v] = picked[v] /\ zones'[v] = zones[v]
    BY <1>1, <1>5, <2>1 DEF TypeOK, Claim
  <2> QED
    BY <1>2, <2>2
<1>6. ASSUME NEW w \in Workers, Lookup(w) \/ ListZones(w)
      PROVE  Mine(v)' = Mine(v)
  <2>1. picked' = picked /\ (v # w => zones'[v] = zones[v]) /\ picked[w] = {}
    BY <1>1, <1>6 DEF TypeOK, Lookup, ListZones, ClaimInv
  <2> QED
    BY <1>2, <1>3, <2>1
<1>7. ASSUME NEW w \in Workers, Call(w) \/ Step(w), ~Claim(w), ~Lookup(w), ~ListZones(w)
      PROVE  picked' = picked /\ zones' = zones
  BY <1>7 DEF Call, Step, ListZonesFails, ZoneTags, ZoneTagsFails, FetchOK, FetchFails,
              DnsAnswered, Announce, DnsMerge, Join, RecordFailure, Release, Exit
<1> QED
  BY <1>2, <1>4, <1>5, <1>6, <1>7 DEF Next

\* A DNS answer that was not cut holds a row of every zone asked for that has one.
LEMMA MergedShown ==
    ASSUME IInv, [Next]_vars, QueryLimit > 0, NEW w \in Workers, DnsMerge(w),
           rows[w] \in DnsAnswers(w), NEW z \in Mine(w)
    PROVE  Shown("dns_analytics", z)'
<1> DEFINE cut == rows[w] # {} /\ Cardinality(rows[w]) >= QueryLimit
<1>1. TypeOK /\ ClaimInv /\ SeriesInv /\ DispatchInv /\ PhaseInv
  BY DEF IInv
<1>2. Account(w) \in Accounts /\ z \in Zones
  BY <1>1, ActiveWorker, MineZones DEF DnsMerge
<1>3. CASE cut
  <2>1. dns'[Account(w)].truncated
    <3> DEFINE out == {r \in rows[w] : r.zone \notin Mine(w)}
    <3>1. dns \in [Accounts -> DnsStates]
      BY <1>1 DEF TypeOK
    <3>2. dns' = [dns EXCEPT ![Account(w)].truncated = @ \/ cut,
                             ![Account(w)].unmatched = @ \cup out]
      BY DEF DnsMerge
    <3> HIDE DEF cut, out
    <3> QED
      BY <1>2, <1>3, <3>1, <3>2 DEF DnsStates
  <2> QED
    BY <1>2, <2>1 DEF Shown, DnsLoss
<1>4. CASE ~cut
  <2>1. QueryLimit \in Int
    BY LimitsAssumption
  <2>2. Cardinality(rows[w]) # QueryLimit
    <3>1. rows[w] = {} => Cardinality(rows[w]) = 0
      BY FS_EmptySet
    <3> QED
      BY <1>4, <2>1, <3>1
  <2>3. \A r \in Selected(w) : \E q \in rows[w] : SameRow(r, q)
    BY <2>2 DEF DnsAnswers
  <2>4. ASSUME z \in HasData("dns_analytics")
        PROVE  series'["dns_analytics"][z] = 1
    <3>1. PICK r \in DNSRows : r.zone = z
      BY <2>4 DEF HasData
    <3>2. z \in {q.zone : q \in rows[w]}
      BY <2>3, <3>1 DEF Selected, SameRow
    <3>3. series["dns_analytics"][z] = 0
      BY <1>1 DEF SeriesInv, DnsMerge, Apis
    <3>4. series'["dns_analytics"][z] = series["dns_analytics"][z] + 1
      BY <1>1, <1>2, <3>2 DEF TypeOK, DnsMerge, Emit, Families, Apis
    <3> QED
      BY <3>3, <3>4
  <2>5. HasData("dns_analytics")' = HasData("dns_analytics")
    BY DEF HasData
  <2> QED
    BY <2>4, <2>5 DEF Shown
<1> QED
  BY <1>3, <1>4

\* An answered call that can fail the account shows all it is asked for.
LEMMA FetchedShown ==
    ASSUME IInv, [Next]_vars, NEW w \in Workers, NEW api \in Apis, FetchOK(w, api),
           NEW z \in Mine(w)
    PROVE  Shown(api, z)'
<1>1. TypeOK /\ ClaimInv /\ SeriesInv
  BY DEF IInv
<1>2. z \in Zones /\ api \in Families /\ api \in FatalApis
  BY <1>1, MineZones DEF Families, FetchOK
<1>3. z \in HasData(api) => z \in Reported(w, api)
  BY <1>2 DEF HasData, Reported, FatalApis
<1>4. series[api][z] = 0
  BY <1>1 DEF SeriesInv, FetchOK
<1>5. z \in Reported(w, api) => series'[api][z] = 1
  <2>1. Emit(w, api, Reported(w, api))
    BY DEF FetchOK
  <2> QED
    BY <1>1, <1>2, <1>4, <2>1 DEF TypeOK, Emit
<1> QED
  BY <1>3, <1>5 DEF Shown, HasData

\* What a worker's finished calls delivered stays delivered while it stands still.
LEMMA DeliveredFrame ==
    ASSUME IInv, [Next]_vars, NEW v \in Workers, Delivered(v), job' = job,
           Mine(v)' = Mine(v), fetch'[v] = fetch[v], rows'[v] = rows[v]
    PROVE  Delivered(v)'
<1>1. \A z \in Mine(v) : z \in Zones
  BY MineZones DEF IInv
<1>2. DnsAnswers(v)' = DnsAnswers(v)
  BY DEF DnsAnswers, Selected
<1> QED
  BY <1>1, <1>2, LossStays, ShownStays DEF Delivered

\* The same for the worker one of whose calls ends.
LEMMA DeliveredMove ==
    ASSUME IInv, PublishInv, QueryLimit > 0, NEW w \in Workers, Call(w) \/ Step(w),
           wpc'[w] = "fetch"
    PROVE  Delivered(w)'
<1>1. TypeOK /\ ClaimInv /\ DispatchInv /\ PhaseInv
  BY DEF IInv
<1>2. wpc[w] = "fetch" => Delivered(w)
  BY DEF PublishInv
<1>3. job' = job /\ [Next]_vars /\ Account(w) \in Accounts /\ job \in Jobs
  BY <1>1, WorkerFrame, ActiveWorker DEF Next, Holding
<1>4. ~Claim(w) /\ ~Report
  BY <1>1, <1>3 DEF TypeOK, Claim, Goto, Report
<1>5. Mine(w)' = Mine(w) /\ DnsAnswers(w)' = DnsAnswers(w)
      /\ \A z \in Mine(w) : z \in Zones
  <2>1. Mine(w)' = Mine(w)
    BY <1>3, <1>4, MineFrame
  <2> QED
    BY <1>1, <2>1, MineZones DEF DnsAnswers, Selected
<1>6. CASE Announce(w)
  <2>1. \A api \in Apis : fetch'[w][api] = IF api \in Enabled[job] THEN "running" ELSE "off"
    BY <1>1, <1>6 DEF TypeOK, Announce
  <2>2. Enabled[job] \subseteq Apis /\ "dns_analytics" \in Apis
    BY <1>3, JobsAssumption DEF Apis
  <2> QED
    BY <1>3, <2>1, <2>2 DEF Delivered
<1>7. ASSUME NEW api \in Apis, FetchOK(w, api)
      PROVE  Delivered(w)'
  <2>1. /\ fetch'[w][api] = "ok" /\ rows' = rows /\ api # "dns_analytics"
        /\ \A b \in Apis : b # api => fetch'[w][b] = fetch[w][b]
    BY <1>1, <1>7 DEF TypeOK, FetchOK, FatalApis
  <2>2. Delivered(w)
    BY <1>2, <1>7 DEF FetchOK
  <2>3. "dns_analytics" \in Apis /\ Enabled[job] \subseteq Apis
    BY <1>3, JobsAssumption DEF Apis
  <2>4. \A b \in Apis, z \in Mine(w) : fetch'[w][b] = "ok" => Shown(b, z)'
    BY <1>3, <1>5, <1>7, <2>1, <2>2, FetchedShown, ShownStays DEF Delivered
  <2>5. fetch'[w]["dns_analytics"] = "err" => DnsLoss'
    BY <1>3, <2>1, <2>2, <2>3, LossStays DEF Delivered
  <2> QED
    BY <1>3, <1>5, <2>1, <2>2, <2>3, <2>4, <2>5 DEF Delivered
<1>8. ASSUME NEW api \in Apis, FetchFails(w, api)
      PROVE  Delivered(w)'
  <2>1. /\ fetch'[w][api] = "err" /\ rows' = rows
        /\ \A b \in Apis : b # api => fetch'[w][b] = fetch[w][b]
    BY <1>1, <1>8 DEF TypeOK, FetchFails
  <2>2. Delivered(w)
    BY <1>2, <1>8 DEF FetchFails
  <2>3. "dns_analytics" \in Apis /\ Enabled[job] \subseteq Apis
    BY <1>3, JobsAssumption DEF Apis
  <2>4. api = "dns_analytics" => DnsLoss'
    <3>1. ASSUME api = "dns_analytics"
          PROVE  apiErrors'["dns_analytics"][Account(w)] > 0
      <4>1. apiErrors \in [CountedApis -> [Accounts -> Nat]] /\ "dns_analytics" \in CountedApis
        BY <1>1 DEF TypeOK, CountedApis
      <4>2. apiErrors' = [apiErrors EXCEPT !["dns_analytics"][Account(w)] = @ + 1]
        BY <1>8, <3>1 DEF FetchFails
      <4>3. apiErrors'["dns_analytics"][Account(w)]
              = apiErrors["dns_analytics"][Account(w)] + 1
        BY <1>3, <4>1, <4>2
      <4> QED
        BY <1>3, <4>1, <4>3
    <3> QED
      BY <1>3, <3>1 DEF DnsLoss
  <2>5. fetch'[w]["dns_analytics"] = "err" => DnsLoss'
    BY <1>3, <2>1, <2>2, <2>3, <2>4, LossStays DEF Delivered
  <2>6. \A b \in Apis, z \in Mine(w) : fetch'[w][b] = "ok" => Shown(b, z)'
    BY <1>3, <1>5, <2>1, <2>2, ShownStays DEF Delivered
  <2> QED
    BY <1>3, <1>5, <2>1, <2>2, <2>3, <2>5, <2>6 DEF Delivered
<1>9. CASE DnsAnswered(w)
  <2>1. /\ fetch'[w]["dns_analytics"] = "merging" /\ rows'[w] \in DnsAnswers(w)
        /\ \A b \in Apis : b # "dns_analytics" => fetch'[w][b] = fetch[w][b]
    BY <1>1, <1>9 DEF TypeOK, DnsAnswered, Apis
  <2>2. Delivered(w)
    BY <1>2, <1>9 DEF DnsAnswered
  <2>3. Enabled[job] \subseteq Apis
    BY <1>3, JobsAssumption
  <2>4. \A b \in Apis, z \in Mine(w) : fetch'[w][b] = "ok" => Shown(b, z)'
    BY <1>3, <1>5, <2>1, <2>2, ShownStays DEF Delivered
  <2> QED
    BY <1>3, <1>5, <2>1, <2>2, <2>3, <2>4 DEF Delivered
<1>10. CASE DnsMerge(w)
  <2>1. /\ fetch'[w]["dns_analytics"] = "ok" /\ rows' = rows
        /\ \A b \in Apis : b # "dns_analytics" => fetch'[w][b] = fetch[w][b]
    BY <1>1, <1>10 DEF TypeOK, DnsMerge, Apis
  <2>2. Delivered(w) /\ rows[w] \in DnsAnswers(w)
    BY <1>2, <1>10 DEF DnsMerge, Delivered
  <2>3. Enabled[job] \subseteq Apis
    BY <1>3, JobsAssumption
  <2>4. \A b \in Apis, z \in Mine(w) : fetch'[w][b] = "ok" => Shown(b, z)'
    <3>1. ASSUME NEW b \in Apis, NEW z \in Mine(w), fetch'[w][b] = "ok"
          PROVE  Shown(b, z)'
      <4>1. CASE b = "dns_analytics"
        BY <1>3, <1>10, <2>2, <4>1, MergedShown
      <4>2. CASE b # "dns_analytics"
        BY <1>3, <1>5, <2>1, <2>2, <3>1, <4>2, ShownStays DEF Delivered
      <4> QED
        BY <4>1, <4>2
    <3> QED
      BY <3>1
  <2> QED
    BY <1>3, <1>5, <2>1, <2>2, <2>3, <2>4 DEF Delivered
<1>11. ~(\/ Lookup(w) \/ ListZones(w) \/ ListZonesFails(w) \/ ZoneTags(w)
         \/ ZoneTagsFails(w) \/ Join(w) \/ RecordFailure(w) \/ Release(w) \/ Exit(w))
  BY <1>1 DEF TypeOK, Lookup, ListZones, ListZonesFails, ZoneTags, ZoneTagsFails, Join,
              RecordFailure, Release, Exit, Goto
<1> QED
  BY <1>4, <1>6, <1>7, <1>8, <1>9, <1>10, <1>11 DEF Call, Step

\* A worker that ends its fetch without an error has published all of its zones.
LEMMA JoinedPublished ==
    ASSUME IInv, PublishInv, NEW w \in Workers, Join(w), wpc'[w] = "release",
           NEW z \in Mine(w)
    PROVE  Published(job, z)
<1>1. TypeOK /\ ClaimInv /\ SeriesInv /\ DispatchInv /\ PhaseInv
  BY DEF IInv
<1>2. /\ wpc[w] = "fetch" /\ Delivered(w) /\ job \in Jobs
      /\ \A api \in Apis : fetch[w][api] \notin {"running", "merging"}
      /\ \A api \in FatalApis : fetch[w][api] # "err"
  BY <1>1, ActiveWorker DEF Join, PublishInv, TypeOK, Goto
<1>3. ASSUME NEW api \in Enabled[job]
      PROVE  Shown(api, z)
  <2>1. api \in Apis /\ fetch[w][api] \in {"ok", "err"}
    <3>1. api \in Apis
      BY <1>2, JobsAssumption
    <3>2. fetch[w][api] \in {"off", "running", "merging", "ok", "err"}
      BY <1>1, <3>1 DEF TypeOK
    <3> QED
      BY <1>2, <3>1, <3>2 DEF Delivered
  <2>2. CASE fetch[w][api] = "ok"
    BY <1>2, <2>1, <2>2 DEF Delivered
  <2>3. CASE fetch[w][api] = "err"
    <3>1. api = "dns_analytics"
      BY <1>2, <2>1, <2>3 DEF Apis
    <3> QED
      BY <1>2, <2>3, <3>1 DEF Delivered, Shown
  <2> QED
    BY <2>1, <2>2, <2>3
<1>4. series["zone_info"][z] = 1
  <2>1. z \in Zones /\ claimedBy[z] = job
    BY <1>1, MineZones
  <2>2. ASSUME series["zone_info"][z] = 0
        PROVE  FALSE
    <3>1. PICK v \in Workers : wpc[v] = "announce" /\ z \in Mine(v)
      BY <1>1, <2>1, <2>2 DEF SeriesInv
    <3> QED
      BY <1>1, <1>2, <3>1 DEF ClaimInv
  <2> QED
    BY <1>1, <2>1, <2>2 DEF SeriesInv, Families
<1> QED
  BY <1>3, <1>4 DEF Published

\* Every step keeps the zones of a worker that left well published.
LEMMA LeftStep ==
    ASSUME IInv, PublishInv, [Next]_vars, NEW v \in Workers, LeftWell(v)',
           NEW z \in Mine(v)'
    PROVE  Published(job, z)'
<1>1. TypeOK /\ ClaimInv /\ DispatchInv /\ PhaseInv
  BY DEF IInv
<1>2. ~Report
  BY <1>1 DEF LeftWell, Report
<1>3. wpc'[v] \in {"release", "exit", "gone"} /\ ~jobErr' /\ job' = job
  BY <1>2, ResultFrame DEF LeftWell
<1>4. CASE Claim(v)
  <2> DEFINE mine == {zones[v][i] : i \in Claimable(v)}
  <2>1. wpc'[v] = IF mine = {} THEN "release" ELSE "announce"
    BY <1>1, <1>4 DEF TypeOK, Claim, Goto
  <2>2. Mine(v)' = mine
    BY <1>1, <1>4 DEF TypeOK, Claim, Mine
  <2>3. mine = {}
    BY <1>3, <2>1
  <2> QED
    BY <2>2, <2>3
<1>5. CASE ~Claim(v)
  <2>1. Mine(v)' = Mine(v)
    BY <1>2, <1>5, MineFrame
  <2>2. z \in Zones
    BY <1>1, <2>1, MineZones
  <2>3. ASSUME Published(job, z), job \in Jobs
        PROVE  Published(job, z)'
    BY <1>3, <2>2, <2>3, PublishedStays DEF Published
  <2>4. ASSUME LeftWell(v)
        PROVE  Published(job, z)'
    <3>1. job \in Jobs
      BY <1>1, <2>4, ActiveWorker DEF LeftWell
    <3> QED
      BY <2>1, <2>3, <2>4, <3>1 DEF PublishInv
  <2>5. ASSUME NEW w \in Workers, Call(w) \/ Step(w), w # v
        PROVE  LeftWell(v)
    BY <1>1, <1>3, <2>5, WorkerFrame, ErrorStays DEF LeftWell
  <2>6. CASE Join(v)
    <3>1. job \in Jobs
      BY <1>1, <2>6, ActiveWorker DEF Join
    <3>2. wpc'[v] = "release"
      BY <1>1, <1>3, <2>6 DEF TypeOK, Join, Goto
    <3> QED
      BY <2>1, <2>3, <2>6, <3>1, <3>2, JoinedPublished
  <2>7. CASE Release(v) \/ Exit(v)
    BY <1>3, <2>4, <2>7 DEF Release, Exit, LeftWell
  <2>8. ASSUME Call(v) \/ Step(v)
        PROVE  Join(v) \/ Release(v) \/ Exit(v)
    <3>1. ~RecordFailure(v)
      BY <1>3 DEF RecordFailure
    <3>2. ~(Lookup(v) \/ Announce(v) \/ DnsMerge(v))
      BY <1>1, <1>3 DEF TypeOK, Lookup, Announce, DnsMerge, Goto
    <3>3. ~Call(v)
      BY <1>1, <1>3 DEF TypeOK, Call, ListZones, ListZonesFails, ZoneTags, ZoneTagsFails,
                        FetchOK, FetchFails, DnsAnswered, Goto
    <3> QED
      BY <1>5, <2>8, <3>1, <3>2, <3>3 DEF Step
  <2>9. ASSUME (CallAccounts \/ Dispatch \/ Deadline \/ Done \/ UNCHANGED vars)
        PROVE  LeftWell(v)
    <3>1. CASE CallAccounts \/ ResolveConfigured
      BY <1>1, <1>3, <3>1 DEF PhaseInv, CallAccounts, ListAccounts, ListAccountsFails,
                              ResolveConfigured
    <3>2. CASE Admit
      BY <1>1, <1>3, <3>2 DEF TypeOK, Admit, LeftWell
    <3>3. CASE \/ SkipSeen \/ Acquire \/ StopAdmitting \/ AllAdmitted \/ Wait
               \/ EmitGauges \/ Deadline \/ Done \/ UNCHANGED vars
      BY <1>3, <3>3 DEF LeftWell, SkipSeen, Acquire, StopAdmitting, AllAdmitted, Wait,
                        EmitGauges, Deadline, Done
    <3> QED
      BY <1>2, <2>9, <3>1, <3>2, <3>3 DEF Dispatch
  <2> QED
    BY <2>4, <2>5, <2>6, <2>7, <2>8, <2>9 DEF Next
<1> QED
  BY <1>4, <1>5

\* Every step keeps a worker for each zone the current job has claimed.
LEMMA CarrierStep ==
    ASSUME IInv, PublishInv, [Next]_vars, NEW z \in Zones, claimedBy'[z] = job'
    PROVE  \E w \in Workers : z \in Mine(w)'
<1>1. TypeOK /\ ClaimInv
  BY DEF IInv
<1>2. CASE Report
  BY <1>1, <1>2 DEF Report, ClaimInv, TypeOK
<1>3. ASSUME ~Report, claimedBy[z] = job
      PROVE  \E w \in Workers : z \in Mine(w)'
  <2>1. PICK w \in Workers : z \in Mine(w)
    BY <1>3 DEF PublishInv
  <2>2. ~Claim(w)
    BY <1>1, <2>1 DEF Claim, ClaimInv, Mine
  <2> QED
    BY <1>3, <2>1, <2>2, MineFrame
<1>4. ASSUME ~Report, claimedBy[z] # job
      PROVE  \E w \in Workers : z \in Mine(w)'
  <2>1. job' = job
    BY <1>4, ResultFrame
  <2>2. PICK w \in Workers : Claim(w)
    BY <1>4, <2>1, OwnerFrame
  <2>3. z \in {zones[w][i] : i \in Claimable(w)}
    BY <1>4, <2>1, <2>2 DEF Claim
  <2>4. Mine(w)' = {zones[w][i] : i \in Claimable(w)}
    BY <1>1, <2>2 DEF TypeOK, Claim, Mine
  <2> QED
    BY <2>3, <2>4
<1> QED
  BY <1>2, <1>3, <1>4

\* Every step keeps the zones of the jobs reported successful published.
LEMMA OwnedStep ==
    ASSUME IInv, ResultInv, PublishInv, [Next]_vars, NEW z \in Zones,
           NEW j \in Jobs, claimedBy'[z] = j, outcome'[j] = "ok"
    PROVE  Published(j, z)'
<1>1. TypeOK /\ ClaimInv /\ PhaseInv /\ DispatchInv
  BY DEF IInv
<1>2. ASSUME claimedBy[z] = j, outcome[j] = "ok"
      PROVE  Published(j, z)'
  BY <1>2, PublishedStays DEF PublishInv
<1>3. CASE Report
  <2>1. /\ claimedBy' = claimedBy /\ dpc = "report" /\ job \in Jobs
        /\ \A k \in Jobs : outcome'[k] = IF k = job THEN IF jobErr THEN "error" ELSE "ok"
                                         ELSE outcome[k]
    BY <1>1, <1>3, CurrentJob DEF Report, TypeOK
  <2>2. CASE j # job
    BY <1>2, <2>1, <2>2
  <2>3. CASE j = job
    <3>1. ~jobErr
      BY <2>1, <2>3
    <3>2. PICK w \in Workers : z \in Mine(w)
      BY <2>1, <2>3 DEF PublishInv
    <3>3. wpc[w] = "gone"
      BY <1>1, <2>1, <3>2 DEF PhaseInv, ClaimInv, Mine
    <3>4. Published(j, z)
      BY <2>3, <3>1, <3>2, <3>3 DEF PublishInv, LeftWell
    <3> QED
      BY <3>4, PublishedStays
  <2> QED
    BY <2>2, <2>3
<1>4. CASE ~Report
  <2>1. outcome' = outcome /\ job' = job
    BY <1>4, ResultFrame
  <2>2. claimedBy[z] = j
    <3>1. ASSUME NEW w \in Workers, Claim(w), claimedBy[z] # j
          PROVE  FALSE
      <4>1. j = job
        BY <1>1, <3>1, ClaimEffect
      <4>2. outcome[job] = "pending"
        BY <4>1 DEF ResultInv, Jobs
      <4> QED
        BY <2>1, <4>1, <4>2
    <3> QED
      BY <3>1, OwnerFrame
  <2> QED
    BY <1>2, <2>1, <2>2
<1> QED
  BY <1>3, <1>4

\* Every step keeps the series of the claimed zones where PublishInv puts them.
LEMMA PublishStep ==
    QueryLimit > 0 /\ IInv /\ ResultInv /\ PublishInv /\ [Next]_vars => PublishInv'
<1> SUFFICES ASSUME QueryLimit > 0, IInv, ResultInv, PublishInv, [Next]_vars
             PROVE  PublishInv'
  OBVIOUS
<1>1. TypeOK /\ ClaimInv /\ PhaseInv /\ DispatchInv
  BY DEF IInv
<1>2. dpc' = "done" => dnsGauge' = dns'
  <2>1. ASSUME NEW w \in Workers, Call(w) \/ Step(w)
        PROVE  dpc' # "done"
    BY <1>1, <2>1, WorkerFrame, ActiveWorker DEF Holding
  <2>2. CASE CallAccounts \/ Dispatch \/ Deadline \/ Done \/ UNCHANGED vars
    BY <2>2 DEF PublishInv, CallAccounts, Dispatch, ListAccounts, ListAccountsFails,
                StartJob, ResolveConfigured, SkipSeen, Acquire, StopAdmitting, Admit,
                AllAdmitted, Wait, Report, EmitGauges, Deadline, Done
  <2> QED
    BY <2>1, <2>2 DEF Next
<1>3. ASSUME NEW v \in Workers, wpc'[v] = "fetch"
      PROVE  Delivered(v)'
  <2>1. ASSUME wpc[v] = "fetch", ~Report, ~Claim(v), fetch'[v] = fetch[v], rows'[v] = rows[v]
        PROVE  Delivered(v)'
    BY <2>1, DeliveredFrame, MineFrame, ResultFrame DEF PublishInv
  <2>2. CASE Call(v) \/ Step(v)
    BY <1>3, <2>2, DeliveredMove
  <2>3. ASSUME NEW w \in Workers, Call(w) \/ Step(w), w # v
        PROVE  Delivered(v)'
    <3>1. wpc[v] = "fetch" /\ ~Claim(v)
      BY <1>1, <1>3, <2>3, WorkerFrame DEF Claim
    <3>2. ~Report
      BY <1>1, <2>3, WorkerFrame DEF Report, TypeOK
    <3>3. fetch'[v] = fetch[v] /\ rows'[v] = rows[v]
      BY <1>1, <2>3 DEF TypeOK, Call, Step, ListZones, ListZonesFails, ZoneTags,
           ZoneTagsFails, FetchOK, FetchFails, DnsAnswered, Lookup, Claim, Announce,
           DnsMerge, Join, RecordFailure, Release, Exit
    <3> QED
      BY <2>1, <3>1, <3>2, <3>3
  <2>4. CASE CallAccounts \/ Dispatch \/ Deadline \/ Done \/ UNCHANGED vars
    <3>1. ~Report
      BY <1>3 DEF Report
    <3>2. wpc[v] = "fetch" /\ fetch' = fetch /\ rows' = rows
      BY <1>1, <1>3, <2>4, <3>1 DEF TypeOK, CallAccounts, Dispatch, ListAccounts,
           ListAccountsFails, StartJob, ResolveConfigured, SkipSeen, Acquire,
           StopAdmitting, Admit, AllAdmitted, Wait, EmitGauges, Deadline, Done
    <3>3. ~Claim(v)
      BY <3>2 DEF Claim
    <3> QED
      BY <2>1, <3>1, <3>2, <3>3
  <2> QED
    BY <2>2, <2>3, <2>4 DEF Next
<1>4. ASSUME NEW z \in Zones, claimedBy'[z] \in Jobs, outcome'[claimedBy'[z]] = "ok"
      PROVE  Published(claimedBy[z], z)'
  <2>1. PICK j \in Jobs : claimedBy'[z] = j
    BY <1>4
  <2>2. Published(j, z)'
    BY <1>4, <2>1, OwnedStep
  <2> QED
    BY <2>1, <2>2 DEF Published
<1> QED
  BY <1>2, <1>3, <1>4, LeftStep, CarrierStep DEF PublishInv

-----------------------------------------------------------------------------
(* The theorems *)

\* What the strengthening says holds when Collect starts.
LEMMA InitOutcome == Init => OwnerInv /\ ResultInv /\ CoverInv /\ PublishInv
<1> SUFFICES ASSUME Init
             PROVE  OwnerInv /\ ResultInv /\ CoverInv /\ PublishInv
  OBVIOUS
<1> USE DEF Init, InitWorkers
<1>1. OwnerInv
  BY DEF OwnerInv
<1>2. ResultInv
  <2>1. \A n : Failures(n) = {}
    BY DEF Failures
  <2>2. \A j \in Jobs : j >= 1
    BY DEF Jobs
  <2> QED
    BY <2>1, <2>2, FS_EmptySet DEF ResultInv, LastFailed
<1>3. CoverInv
  BY DEF CoverInv, Covered, LeftWell
<1>4. PublishInv
  <2>1. \A j \in Jobs : outcome[j] # "ok"
    OBVIOUS
  <2> QED
    BY <2>1 DEF PublishInv, LeftWell
<1> QED
  BY <1>1, <1>2, <1>3, <1>4

\* Owners, results and coverage, for every limit.
LEMMA Outcomes == Spec => [](IInv /\ OwnerInv /\ ResultInv /\ CoverInv)
<1>1. Init => IInv /\ OwnerInv /\ ResultInv /\ CoverInv
  BY InitInv, InitOutcome
<1>2. IInv /\ [Next]_vars => IInv'
  BY TypeStep, PhaseStep, DispatchStep, SemStep, ClaimStep, SeriesStep,
     CacheStep DEF IInv
<1>3. IInv /\ OwnerInv /\ ResultInv /\ CoverInv /\ [Next]_vars
        => (IInv /\ OwnerInv /\ ResultInv /\ CoverInv)'
  BY <1>2, OwnerStep, ResultStep, CoverStep
<1> QED
  BY <1>1, <1>3, PTL DEF Spec

\* The strengthened invariant holds of every reachable state of a scrape whose
\* query limit is positive, as main requires (cmd/exporter/main.go:60).
THEOREM FullInvariance ==
    ASSUME QueryLimit > 0
    PROVE  Spec => []FullInv
<1>1. Init => FullInv
  BY InitInv, InitOutcome DEF FullInv
<1>2. IInv /\ [Next]_vars => IInv'
  BY TypeStep, PhaseStep, DispatchStep, SemStep, ClaimStep, SeriesStep,
     CacheStep DEF IInv
<1>3. FullInv /\ [Next]_vars => FullInv'
  BY <1>2, OwnerStep, ResultStep, CoverStep, PublishStep DEF FullInv
<1> QED
  BY <1>1, <1>3, PTL DEF Spec

\* A zone belongs to the first job in config order that selects it in this
\* scrape, however the accounts of the jobs interleave.
THEOREM FirstOwner == Spec => []FirstJobWins
<1>1. OwnerInv => FirstJobWins
  BY DEF OwnerInv, FirstJobWins
<1> QED
  BY Outcomes, <1>1, PTL

\* A job that ends without an error has listed all its accounts, and without
\* search tags every zone of theirs is claimed.
THEOREM Coverage == Spec => []SuccessMeansCovered
<1>1. ASSUME IInv, CoverInv, dpc = "report", ~jobErr, NEW i \in DOMAIN ids
      PROVE  /\ ids[i] \in cached
             /\ ~Filtered[job] => \A k \in DOMAIN zonesByAccount[ids[i]] :
                   claimedBy[zonesByAccount[ids[i]][k]] \in 1..job
  <2>1. i \in 1..(next - 1)
    BY <1>1 DEF IInv, TypeOK, CoverInv
  <2>2. PICK w \in Workers : wpc[w] # "idle" /\ ids[w] = ids[i]
    BY <1>1, <2>1 DEF CoverInv
  <2>3. LeftWell(w)
    BY <1>1, <2>2 DEF IInv, PhaseInv, LeftWell
  <2>4. Listed(w) /\ (Filtered[job] \/ AllClaimed(w))
    BY <1>1, <2>3 DEF CoverInv, Covered
  <2> QED
    BY <2>2, <2>4 DEF Listed, AllClaimed, Account
<1>2. IInv /\ CoverInv => SuccessMeansCovered
  BY <1>1 DEF SuccessMeansCovered
<1> QED
  BY Outcomes, <1>2, PTL

\* A successful job's zones have every series of its groups when Collect is
\* over, unless a DNS loss is reported.
THEOREM Publication ==
    ASSUME QueryLimit > 0
    PROVE  Spec => []SuccessMeansPublished
<1>1. ASSUME FullInv, dpc = "done", NEW z \in Zones, claimedBy[z] # 0,
             outcome[claimedBy[z]] = "ok"
      PROVE  /\ series["zone_info"][z] = 1
             /\ \A api \in Enabled[claimedBy[z]] : z \in HasData(api) =>
                  \/ series[api][z] = 1
                  \/ /\ api = "dns_analytics"
                     /\ \E a \in Accounts : apiErrors[api][a] > 0 \/ dnsGauge[a].truncated
  <2>1. claimedBy[z] \in Jobs
    BY <1>1 DEF FullInv, IInv, TypeOK, Jobs
  <2>2. Published(claimedBy[z], z) /\ dnsGauge = dns
    BY <1>1, <2>1 DEF FullInv, PublishInv
  <2> QED
    BY <2>2 DEF Published, Shown, DnsLoss
<1>2. FullInv => SuccessMeansPublished
  BY <1>1 DEF SuccessMeansPublished
<1> QED
  BY FullInvariance, <1>2, PTL

\* For every configuration, duplicate job names included: scrape_errors_total
\* counts the failed jobs of a name, and job_success is 0 exactly when the last
\* job reported under that name failed.
THEOREM ResultsCounted == Spec => []ResultInv
BY Outcomes, PTL

\* Where no two jobs share a name, the two metrics tell the truth about each.
THEOREM ResultsTruthful ==
    ASSUME \A i, j \in Jobs : JobName[i] = JobName[j] => i = j
    PROVE  Spec => []JobSuccessTruthful
<1>1. ASSUME ResultInv, NEW n \in Names
      PROVE  (jobSuccess[n] = "0") <=> (Failures(n) # {})
  <2>1. ASSUME NEW j \in Failures(n)
        PROVE  LastFailed(n)
    <3>1. \A k \in Jobs : k > j => JobName[k] # n
      BY <2>1 DEF Failures, Jobs
    <3> QED
      BY <3>1 DEF LastFailed
  <2> QED
    BY <1>1, <2>1 DEF ResultInv, LastFailed
<1>2. ResultInv => JobSuccessTruthful
  BY <1>1 DEF ResultInv, JobSuccessTruthful, Failures
<1> QED
  BY Outcomes, <1>2, PTL

-----------------------------------------------------------------------------
(* Collector implements ScrapeLedger: job for turn, claimedBy for owner,   *)
(* series for itself.  Claim is a Take, the steps that send series are     *)
(* Publish, Report is EndTurn, every other step stutters.                  *)

\* The steps that leave the ledger alone.
LEMMA LedgerFrame ==
    ASSUME [Next]_vars
    PROVE  \/ \E w \in Workers : \/ Claim(w) \/ Announce(w) \/ DnsMerge(w)
                                 \/ \E api \in Apis : FetchOK(w, api)
           \/ Report
           \/ UNCHANGED <<job, claimedBy, series>>
<1>1. CASE CallAccounts \/ (Dispatch /\ ~Report) \/ Deadline \/ Done \/ UNCHANGED vars
  BY <1>1 DEF CallAccounts, Dispatch, ListAccounts, ListAccountsFails, StartJob,
              ResolveConfigured, SkipSeen, Acquire, StopAdmitting, Admit, AllAdmitted,
              Wait, EmitGauges, Deadline, Done
<1>2. ASSUME NEW w \in Workers, Call(w), ~ \E api \in Apis : FetchOK(w, api)
      PROVE  UNCHANGED <<job, claimedBy, series>>
  BY <1>2 DEF Call, ListZones, ListZonesFails, ZoneTags, ZoneTagsFails, FetchFails,
              DnsAnswered
<1>3. ASSUME NEW w \in Workers, Step(w), ~Claim(w), ~Announce(w), ~DnsMerge(w)
      PROVE  UNCHANGED <<job, claimedBy, series>>
  BY <1>3 DEF Step, Lookup, Join, RecordFailure, Release, Exit
<1> QED
  BY <1>1, <1>2, <1>3 DEF Next

\* The ledger and the collector speak of the same families of series.
LEMMA LedgerFamilies == Ledger!Families = Families
BY DEF Ledger!Families, Families

\* The part of IInv that speaks of the values the ledger may take.
LEMMA LedgerValues ==
    ASSUME IInv
    PROVE  /\ claimedBy \in [Zones -> 0..NumJobs]
           /\ series \in [Families -> [Zones -> {0, 1}]]
BY DEF IInv, TypeOK, SeriesInv

\* claimZones takes zones nobody owns for the job whose turn it is.
LEMMA ClaimTakes ==
    ASSUME IInv, IInv', NEW w \in Workers, Claim(w)
    PROVE  job <= NumJobs /\ Ledger!Take
<1>1. job <= NumJobs
  BY ActiveWorker DEF IInv, Claim
<1>2. claimedBy' \in [Zones -> 0..NumJobs]
  BY DEF IInv, TypeOK
<1>3. ASSUME NEW z \in Zones, claimedBy'[z] # claimedBy[z]
      PROVE  claimedBy[z] = 0 /\ claimedBy'[z] = job
  BY <1>3 DEF Claim, Claimable
<1> QED
  BY <1>1, <1>2, <1>3 DEF Claim, Ledger!Take

\* A step that adds to the series of its own zones publishes.
LEMMA GrowthPublishes ==
    ASSUME IInv, IInv', NEW w \in Workers, wpc[w] # "idle", UNCHANGED <<job, claimedBy>>,
           \A f \in Families, z \in Zones :
              series'[f][z] # series[f][z] =>
                 /\ series'[f][z] = series[f][z] + 1
                 /\ z \in Mine(w)
                 /\ f \in Apis => f \in Enabled[job]
    PROVE  job <= NumJobs /\ Ledger!Publish
<1>1. job <= NumJobs
  BY ActiveWorker DEF IInv
<1>2. /\ series \in [Families -> [Zones -> {0, 1}]]
      /\ series' \in [Families -> [Zones -> {0, 1}]]
  <2>1. \A f \in Families, z \in Zones : series'[f][z] \in {0, 1}
    BY DEF IInv, SeriesInv
  <2>2. series' \in [Families -> [Zones -> Nat]]
    BY DEF IInv, TypeOK
  <2> QED
    BY <2>1, <2>2, LedgerValues
<1>3. ASSUME NEW f \in Families, NEW z \in Zones, series'[f][z] # series[f][z]
      PROVE  /\ series[f][z] = 0
             /\ claimedBy[z] = job
             /\ f \in Apis => f \in Enabled[job]
  <2>1. series[f][z] \in {0, 1} /\ series'[f][z] \in {0, 1}
    BY <1>2
  <2>2. claimedBy[z] = job
    BY <1>3, MineZones DEF IInv
  <2> QED
    BY <1>3, <2>1, <2>2
<1> QED
  BY <1>1, <1>2, <1>3, LedgerFamilies DEF Ledger!Publish

\* zone_info and zone_tags_info are published for zones of the job.
LEMMA AnnouncePublishes ==
    ASSUME IInv, IInv', NEW w \in Workers, Announce(w)
    PROVE  job <= NumJobs /\ Ledger!Publish
<1>1. wpc[w] # "idle" /\ UNCHANGED <<job, claimedBy>>
  BY DEF Announce
<1>2. ASSUME NEW f \in Families, NEW z \in Zones, series'[f][z] # series[f][z]
      PROVE  /\ series'[f][z] = series[f][z] + 1
             /\ z \in Mine(w)
             /\ f \in Apis => f \in Enabled[job]
  <2>1. f \in {"zone_info", "zone_tags_info"} /\ series'[f][z] = series[f][z] + Count(w, z)
    BY <1>2 DEF IInv, TypeOK, Announce, Families, Apis, FatalApis
  <2>2. Count(w, z) = IF z \in Mine(w) THEN 1 ELSE 0
    BY CountOne DEF IInv
  <2>3. series[f][z] \in Nat
    BY DEF IInv, TypeOK
  <2> QED
    BY <1>2, <2>1, <2>2, <2>3 DEF Apis, FatalApis
<1> QED
  BY <1>1, <1>2, GrowthPublishes

\* An answered call publishes series of its own zones and groups.
LEMMA EmitPublishes ==
    ASSUME IInv, IInv', NEW w \in Workers, NEW api \in Apis, NEW reported,
           wpc[w] = "fetch", fetch[w][api] \in {"running", "merging"},
           Emit(w, api, reported), UNCHANGED <<job, claimedBy>>
    PROVE  job <= NumJobs /\ Ledger!Publish
<1>1. ASSUME NEW f \in Families, NEW z \in Zones, series'[f][z] # series[f][z]
      PROVE  /\ series'[f][z] = series[f][z] + 1
             /\ z \in Mine(w)
             /\ f \in Apis => f \in Enabled[job]
  <2>1. f = api /\ z \in Mine(w) /\ series'[f][z] = series[f][z] + 1
    BY <1>1 DEF IInv, TypeOK, Emit, Families
  <2> QED
    BY <2>1 DEF IInv, SeriesInv
<1> QED
  BY <1>1, GrowthPublishes

\* A job's turn ends with a zone_info for each zone it took.
LEMMA ReportEndsTurn ==
    ASSUME IInv, Report
    PROVE  Ledger!EndTurn
<1>1. dpc = "report" /\ job' = job + 1 /\ UNCHANGED <<claimedBy, series>>
  BY DEF Report
<1>2. job <= NumJobs
  BY <1>1, CurrentJob DEF IInv
<1>3. ASSUME NEW z \in Zones, claimedBy[z] = job
      PROVE  series["zone_info"][z] = 1
  <2>1. \A w \in Workers : wpc[w] # "announce"
    BY <1>1 DEF IInv, PhaseInv
  <2>2. series["zone_info"][z] # 0
    BY <1>3, <2>1 DEF IInv, SeriesInv
  <2> QED
    BY <2>2, LedgerValues DEF Families
<1> QED
  BY <1>1, <1>2, <1>3 DEF Ledger!EndTurn

\* Every scrape keeps the ledger's promise: zones owned by one job, series
\* published once and in their owner's turn, no turn ended with a silent zone.
THEOREM Refinement == Spec => LedgerSpec
<1>1. Init => Ledger!Init
  BY LedgerFamilies DEF Init, Ledger!Init
<1>2. IInv /\ IInv' /\ [Next]_vars => [Ledger!Next]_(Ledger!ledger)
  <2> SUFFICES ASSUME IInv, IInv', [Next]_vars
               PROVE  [Ledger!Next]_(Ledger!ledger)
    OBVIOUS
  <2>1. ASSUME NEW w \in Workers, Claim(w)
        PROVE  Ledger!Next
    BY <2>1, ClaimTakes DEF Ledger!Next
  <2>2. ASSUME NEW w \in Workers, Announce(w)
        PROVE  Ledger!Next
    BY <2>2, AnnouncePublishes DEF Ledger!Next
  <2>3. ASSUME NEW w \in Workers, NEW api \in Apis, FetchOK(w, api)
        PROVE  Ledger!Next
    BY <2>3, EmitPublishes DEF FetchOK, Ledger!Next
  <2>4. ASSUME NEW w \in Workers, DnsMerge(w)
        PROVE  Ledger!Next
    <3>1. "dns_analytics" \in Apis
      BY DEF Apis
    <3> QED
      BY <2>4, <3>1, EmitPublishes DEF DnsMerge, Ledger!Next
  <2>5. CASE Report
    BY <2>5, ReportEndsTurn DEF Ledger!Next
  <2>6. CASE UNCHANGED <<job, claimedBy, series>>
    BY <2>6 DEF Ledger!ledger
  <2> QED
    BY <2>1, <2>2, <2>3, <2>4, <2>5, <2>6, LedgerFrame
<1> QED
  BY Invariance, <1>1, <1>2, PTL DEF Spec, LedgerSpec, Ledger!Spec
=============================================================================
