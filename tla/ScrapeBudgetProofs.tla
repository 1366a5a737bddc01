------------------------ MODULE ScrapeBudgetProofs ------------------------
(***************************************************************************)
(* Proofs about ScrapeBudget for every number of jobs and accounts, every  *)
(* choice of timeouts that Load accepts, and every set of slow calls.      *)
(***************************************************************************)
EXTENDS ScrapeBudget, SumTheorems, TLAPS, FiniteSetTheorems

USE DEF vars

-----------------------------------------------------------------------------
(* When calls end *)

\* The least of two or of three numbers is one of them and not above any.
LEMMA MinOfTwo ==
    ASSUME NEW a \in Int, NEW b \in Int
    PROVE  Min({a, b}) \in {a, b} /\ Min({a, b}) <= a /\ Min({a, b}) <= b
<1>1. \E x \in {a, b} : \A y \in {a, b} : x <= y
  BY a <= b \/ b <= a
<1> QED
  BY <1>1 DEF Min

LEMMA MinOfThree ==
    ASSUME NEW a \in Int, NEW b \in Int, NEW c \in Int
    PROVE  /\ Min({a, b, c}) \in {a, b, c}
           /\ Min({a, b, c}) <= a /\ Min({a, b, c}) <= b /\ Min({a, b, c}) <= c
<1>1. \E x \in {a, b, c} : \A y \in {a, b, c} : x <= y
  <2>1. CASE a <= b /\ a <= c
    BY <2>1
  <2>2. CASE b <= a /\ b <= c
    BY <2>2
  <2>3. CASE c <= a /\ c <= b
    BY <2>3
  <2> QED
    BY <2>1, <2>2, <2>3
<1> QED
  BY <1>1 DEF Min

\* What Load has accepted.
LEMMA OptsTyped ==
    ASSUME TypeOK
    PROVE  /\ opts.scrapeTimeout \in Nat \ {0} /\ opts.accountConcurrency \in Nat \ {0}
           /\ opts.requestTimeout \in 1..opts.scrapeTimeout
           /\ opts.dnsRequestTimeout \in 1..opts.scrapeTimeout
           /\ \A api \in Apis : Own(api) \in Nat
BY BudgetAssumption DEF TypeOK, Own

\* No call outlasts the scrape's deadline, nor an analytics call its own timeout.
LEMMA RestCallsEnd ==
    ASSUME TypeOK, NEW t \in Nat
    PROVE  /\ RestGivesUp(t) \in Int
           /\ RestGivesUp(t) <= opts.scrapeTimeout /\ RestGivesUp(t) <= t + RestTimeout
           /\ RestGivesUp(t) \in {opts.scrapeTimeout, t + RestTimeout}
<1> DEFINE T == opts.scrapeTimeout
           U == t + RestTimeout
<1>1. T \in Int /\ U \in Int
  BY OptsTyped, BudgetAssumption
<1>2. RestGivesUp(t) = Min({T, U})
  BY DEF RestGivesUp
<1> HIDE DEF T, U
<1>3. Min({T, U}) \in {T, U} /\ Min({T, U}) <= T /\ Min({T, U}) <= U
  BY <1>1, MinOfTwo
<1> QED
  BY <1>1, <1>2, <1>3 DEF T, U

LEMMA CallsEnd ==
    ASSUME TypeOK, NEW a \in Accounts, NEW api \in Apis
    PROVE  /\ EndsAt(a, api) \in Int
           /\ EndsAt(a, api) <= opts.scrapeTimeout
           /\ EndsAt(a, api) <= began[a] + Own(api)
           /\ EndsAt(a, api) \in {opts.scrapeTimeout, began[a] + Own(api), began[a] + ClientTimeout}
<1> DEFINE X == began[a] + Own(api)
           Y == opts.scrapeTimeout
           Z == began[a] + ClientTimeout
<1>1. X \in Int /\ Y \in Int /\ Z \in Int
  BY OptsTyped, BudgetAssumption DEF TypeOK
<1>2. EndsAt(a, api) = Min({X, Y, Z})
  BY DEF EndsAt, GivesUp
<1> HIDE DEF X, Y, Z
<1>3. Min({X, Y, Z}) \in {X, Y, Z} /\ Min({X, Y, Z}) <= X /\ Min({X, Y, Z}) <= Y
  BY <1>1, MinOfThree
<1> QED
  BY <1>1, <1>2, <1>3 DEF X, Y, Z

-----------------------------------------------------------------------------
(* Something is due when the deadline has passed *)

\* Past the scrape's deadline a scrape that is not over has a step to take.
LEMMA DueAtDeadline ==
    ASSUME TypeOK, job \in Jobs, now >= opts.scrapeTimeout
    PROVE  Due
<1>0. now \in Nat /\ opts.scrapeTimeout \in Nat /\ asked \in Nat /\ Quick \in Nat
  BY OptsTyped, BudgetAssumption DEF TypeOK
<1>r. \A t \in Nat : RestGivesUp(t) \in Int /\ RestGivesUp(t) <= now
  BY <1>0, RestCallsEnd
<1>1. CASE listing
  <2> DEFINE U == RestGivesUp(asked)
             Q == asked + Quick
  <2>1. U \in Int /\ U <= now /\ Q \in Int
    BY <1>0, <1>r
  <2> HIDE DEF U, Q
  <2>2. Min({U, Q}) \in Int /\ Min({U, Q}) <= U
    BY <2>1, MinOfTwo
  <2>3. now >= Min({U, Q})
    BY <1>0, <2>1, <2>2
  <2> QED
    BY <1>1, <2>3 DEF Due, U, Q
<1>2. ASSUME NEW a \in Accounts, Working(a)
      PROVE  Due
  <2>0. began[a] \in Nat
    BY DEF TypeOK
  <2>1. CASE stage[a] \in {"zones", "tags"}
    <3>1. now >= RestGivesUp(began[a])
      BY <1>0, <1>r, <2>0
    <3>2. RestOverdue(a)
      BY <2>1, <3>1 DEF RestOverdue, Overdue
    <3> QED
      BY <3>2 DEF Due
  <2>2. CASE stage[a] = "fetch"
    <3>1. CASE \E api \in Apis : call[a][api] = "running"
      <4>1. PICK api \in Apis : call[a][api] = "running"
        BY <3>1
      <4>2. EndsAt(a, api) \in Int /\ EndsAt(a, api) <= opts.scrapeTimeout
        BY CallsEnd
      <4>3. now >= EndsAt(a, api)
        BY <1>0, <4>2
      <4>4. Running(a, api) /\ Overdue(a, api, began[a], EndsAt(a, api))
        BY <2>2, <4>1, <4>3 DEF Running, Overdue
      <4> QED
        BY <4>4 DEF Due
    <3>2. CASE \A api \in Apis : call[a][api] # "running"
      BY <2>2, <3>2 DEF Due, AllFetched
    <3> QED
      BY <3>1, <3>2
  <2> QED
    BY <1>2, <2>1, <2>2 DEF Working, TypeOK
<1>3. CASE ~listing /\ \A a \in Accounts : ~Working(a)
  <2>1. {a \in Accounts : Working(a)} = {}
    BY <1>3
  <2>2. SlotFree
    BY <2>1, FS_EmptySet, OptsTyped DEF SlotFree
  <2> QED
    BY <1>3, <2>2 DEF Due, CanAdmit, CanEndJob
<1> QED
  BY <1>1, <1>2, <1>3

-----------------------------------------------------------------------------
(* Types, and the bound on the accounts at work *)

AtWork == {a \in Accounts : Working(a)}

\* The accounts at work are finitely many, and a smaller set has no more.
LEMMA FewerAtWork ==
    ASSUME TypeOK, NEW S, S \subseteq AtWork
    PROVE  Cardinality(S) <= opts.accountConcurrency
<1>1. IsFiniteSet(AtWork)
  BY BudgetAssumption, FS_Subset DEF AtWork
<1>2. Cardinality(S) \in Nat /\ Cardinality(AtWork) \in Nat /\ Cardinality(S) <= Cardinality(AtWork)
  BY <1>1, FS_Subset, FS_CardinalityType
<1>3. Cardinality(AtWork) <= opts.accountConcurrency
  BY DEF TypeOK, AtWork
<1> QED
  BY <1>2, <1>3, OptsTyped

\* With a free slot there is room for one more.
LEMMA OneMoreAtWork ==
    ASSUME TypeOK, SlotFree, NEW a \in Accounts, NEW S, S \subseteq AtWork \cup {a}
    PROVE  Cardinality(S) <= opts.accountConcurrency
<1>1. IsFiniteSet(AtWork)
  BY BudgetAssumption, FS_Subset DEF AtWork
<1>2. IsFiniteSet(AtWork \cup {a}) /\ Cardinality(AtWork \cup {a}) <= Cardinality(AtWork) + 1
  BY <1>1, FS_AddElement, FS_CardinalityType
<1>3. /\ Cardinality(S) \in Nat /\ Cardinality(AtWork) \in Nat
      /\ Cardinality(AtWork \cup {a}) \in Nat
      /\ Cardinality(S) <= Cardinality(AtWork \cup {a})
  BY <1>1, <1>2, FS_Subset, FS_CardinalityType
<1>4. Cardinality(AtWork) < opts.accountConcurrency
  BY DEF SlotFree, AtWork
<1> QED
  BY <1>2, <1>3, <1>4, OptsTyped

\* The types without the bound.
Types ==
    /\ opts \in Settings /\ slow \in SlowCalls
    /\ now \in Nat /\ job \in Nat /\ asked \in Nat
    /\ ids \in Seq(Accounts)
    /\ listing \in BOOLEAN /\ failed \in BOOLEAN
    /\ stage \in [Accounts -> {"idle", "zones", "tags", "fetch", "gone"}]
    /\ began \in [Accounts -> Nat]
    /\ call \in [Accounts -> [Apis -> {"off", "running", "ok", "err"}]]
    /\ cached \subseteq Accounts
    /\ outcome \in [Jobs -> {"pending", "ok", "error"}]

\* The steps of one account.
AccountStep(a) ==
    \/ ZonesKnown(a) \/ ListZonesFails(a) \/ ZoneTags(a) \/ ZoneTagsFails(a) \/ Join(a)
    \/ \E api \in Apis : Fetched(a, api) \/ FetchFails(a, api)

\* A step of an account that is at work starts no other account.
LEMMA AccountTypes ==
    ASSUME TypeOK, NEW a \in Accounts, AccountStep(a)
    PROVE  Types' /\ AtWork' \subseteq AtWork /\ opts' = opts
<1> USE DEF TypeOK, Types
<1>w. ASSUME NEW s \in {"tags", "fetch", "gone"}, Goto(a, s), Working(a)
      PROVE  /\ AtWork' \subseteq AtWork
             /\ stage' \in [Accounts -> {"idle", "zones", "tags", "fetch", "gone"}]
             /\ began' \in [Accounts -> Nat]
  BY <1>w DEF Goto, AtWork, Working
<1>s. ASSUME Select(a), Working(a)
      PROVE  /\ AtWork' \subseteq AtWork
             /\ stage' \in [Accounts -> {"idle", "zones", "tags", "fetch", "gone"}]
             /\ began' \in [Accounts -> Nat]
             /\ call' \in [Accounts -> [Apis -> {"off", "running", "ok", "err"}]]
  <2>1. CASE Goto(a, "gone") /\ UNCHANGED call
    BY <2>1, <1>w, <1>s
  <2>2. CASE /\ Goto(a, "fetch")
             /\ call' = [call EXCEPT ![a] =
                     [api \in Apis |-> IF api \in Enabled[job] THEN "running" ELSE "off"]]
    BY <2>2, <1>w, <1>s
  <2> QED
    BY <1>s, <2>1, <2>2 DEF Select
<1>1. CASE ZonesKnown(a)
  BY <1>1, <1>w DEF ZonesKnown, Quiet, Working
<1>2. CASE ListZonesFails(a)
  BY <1>2, <1>w DEF ListZonesFails, Quiet, Working
<1>3. CASE ZoneTags(a)
  BY <1>3, <1>s DEF ZoneTags, Quiet, Working
<1>4. CASE ZoneTagsFails(a)
  BY <1>4, <1>s, <1>w DEF ZoneTagsFails, Quiet, Working
<1>5. CASE Join(a)
  BY <1>5, <1>w DEF Join, AllFetched, Quiet, Working
<1>6. CASE \E api \in Apis : Fetched(a, api) \/ FetchFails(a, api)
  <2>1. PICK api \in Apis : Fetched(a, api) \/ FetchFails(a, api)
    BY <1>6
  <2>2. call' \in [Accounts -> [Apis -> {"off", "running", "ok", "err"}]]
    <3>1. call \in [Accounts -> [Apis -> {"off", "running", "ok", "err"}]]
      OBVIOUS
    <3>2. PICK r \in {"ok", "err"} : call' = [call EXCEPT ![a][api] = r]
      BY <2>1 DEF Fetched, FetchFails
    <3> HIDE DEF TypeOK, Types
    <3> QED
      BY <3>1, <3>2
  <2> QED
    BY <2>1, <2>2 DEF Fetched, FetchFails, Quiet, AtWork, Working
<1> QED
  BY <1>1, <1>2, <1>3, <1>4, <1>5, <1>6 DEF AccountStep

LEMMA TypeInit == Init => TypeOK
<1> SUFFICES ASSUME Init PROVE TypeOK
  OBVIOUS
<1>1. JobAccounts[1] \in Seq(Accounts)
  BY BudgetAssumption
<1>2. AtWork = {}
  BY DEF Init, AtWork, Working
<1>3. Cardinality({}) = 0
  BY FS_EmptySet
<1>4. opts.accountConcurrency \in Nat
  BY BudgetAssumption DEF Init
<1>5. Cardinality(AtWork) <= opts.accountConcurrency
  BY <1>2, <1>3, <1>4
<1> QED
  BY <1>1, <1>5 DEF Init, TypeOK, AtWork

LEMMA TypeStep == TypeOK /\ [Next]_vars => TypeOK'
<1> SUFFICES ASSUME TypeOK, [Next]_vars PROVE TypeOK'
  OBVIOUS
<1>0. SUFFICES Types' /\ Cardinality(AtWork)' <= opts'.accountConcurrency
  BY DEF Types, TypeOK, AtWork
<1>1. CASE ListAccounts
  <2>1. Types' /\ AtWork' \subseteq AtWork /\ opts' = opts
    BY <1>1, BudgetAssumption DEF ListAccounts, Types, TypeOK, AtWork, Working
  <2> QED
    BY <2>1, FewerAtWork
<1>2. CASE ListAccountsFails \/ Tick \/ Done \/ UNCHANGED vars
  <2>1. Types' /\ AtWork' \subseteq AtWork /\ opts' = opts
    <3>1. /\ now' \in Nat /\ failed' \in BOOLEAN /\ listing' \in BOOLEAN
          /\ UNCHANGED <<opts, slow, job, ids, asked, stage, began, call, cached, outcome>>
      <4>0. now \in Nat /\ failed \in BOOLEAN /\ listing \in BOOLEAN
        BY DEF TypeOK
      <4>1. CASE ListAccountsFails
        BY <4>0, <4>1 DEF ListAccountsFails
      <4>2. CASE Tick
        BY <4>0, <4>2 DEF Tick
      <4>3. CASE Done \/ UNCHANGED vars
        BY <4>0, <4>3 DEF Done
      <4> QED
        BY <1>2, <4>1, <4>2, <4>3
    <3> QED
      BY <3>1 DEF Types, TypeOK, AtWork, Working
  <2> QED
    BY <2>1, FewerAtWork
<1>3. CASE Admit
  <2> DEFINE a == Head(ids)
  <2>1. ids # << >> /\ a \in Accounts /\ Tail(ids) \in Seq(Accounts) /\ << >> \in Seq(Accounts)
    BY <1>3 DEF Admit, CanAdmit, TypeOK
  <2>2. CASE UNCHANGED <<stage, began>>
    <3>1. Types' /\ AtWork' \subseteq AtWork /\ opts' = opts
      BY <1>3, <2>1, <2>2 DEF Admit, Types, TypeOK, AtWork, Working
    <3> QED
      BY <3>1, FewerAtWork
  <2>3. CASE /\ ids' = Tail(ids) /\ SlotFree
             /\ stage' = [stage EXCEPT ![a] = "zones"]
             /\ began' = [began EXCEPT ![a] = now]
    <3> HIDE DEF a
    <3>1. Types' /\ AtWork' \subseteq AtWork \cup {a} /\ opts' = opts
      BY <1>3, <2>1, <2>3 DEF Admit, Types, TypeOK, AtWork, Working
    <3> QED
      BY <2>1, <2>3, <3>1, OneMoreAtWork
  <2> QED
    BY <1>3, <2>2, <2>3 DEF Admit, CanAdmit
<1>4. CASE EndJob
  <2>1. Types' /\ AtWork' = {} /\ opts' = opts
    <3>1. job + 1 \in Jobs => JobAccounts[job + 1] \in Seq(Accounts)
      BY BudgetAssumption DEF Jobs
    <3>2. ids' \in Seq(Accounts)
      BY <1>4, <3>1 DEF EndJob
    <3>3. outcome' \in [Jobs -> {"pending", "ok", "error"}]
      BY <1>4 DEF EndJob, TypeOK
    <3>4. /\ stage' = [a \in Accounts |-> "idle"]
          /\ began' = [a \in Accounts |-> 0]
          /\ call' = [a \in Accounts |-> [api \in Apis |-> "off"]]
          /\ UNCHANGED <<opts, slow, now, cached>>
          /\ asked' = now /\ failed' = FALSE /\ job' = job + 1
          /\ listing' \in BOOLEAN
      BY <1>4 DEF EndJob, Idle
    <3>5. AtWork' = {}
      BY <3>4 DEF AtWork, Working
    <3>6. call' \in [Accounts -> [Apis -> {"off", "running", "ok", "err"}]]
      BY <3>4
    <3>7. /\ stage' \in [Accounts -> {"idle", "zones", "tags", "fetch", "gone"}]
          /\ began' \in [Accounts -> Nat]
      BY <3>4
    <3>8. /\ opts' \in Settings /\ slow' \in SlowCalls /\ cached' \subseteq Accounts
          /\ now' \in Nat /\ job' \in Nat /\ asked' \in Nat
      BY <3>4 DEF TypeOK
    <3>9. listing' \in BOOLEAN /\ failed' \in BOOLEAN /\ opts' = opts
      BY <3>4
    <3> QED
      BY <3>2, <3>3, <3>5, <3>6, <3>7, <3>8, <3>9 DEF Types
  <2> QED
    BY <2>1, FewerAtWork
<1>5. ASSUME NEW a \in Accounts, AccountStep(a)
      PROVE  Types' /\ Cardinality(AtWork)' <= opts'.accountConcurrency
  BY <1>5, AccountTypes, FewerAtWork
<1> QED
  BY <1>1, <1>2, <1>3, <1>4, <1>5 DEF Next, AccountStep

\* Every state has its variables typed, and no more accounts are at work than
\* accountConcurrency, the semaphore of collectJob.
THEOREM BudgetTypeCorrect == Spec => []TypeOK
BY TypeInit, TypeStep, PTL DEF Spec

-----------------------------------------------------------------------------
(* The deadline *)

\* Time passes only while nothing is due, and past the deadline something is.
LEMMA BoundedStep == TypeOK /\ ScrapeBounded /\ [Next]_vars => ScrapeBounded'
<1> SUFFICES ASSUME TypeOK, ScrapeBounded, [Next]_vars PROVE ScrapeBounded'
  OBVIOUS
<1>0. now \in Nat /\ opts.scrapeTimeout \in Nat
  BY OptsTyped DEF TypeOK
<1>1. CASE Tick
  <2>1. now < opts.scrapeTimeout
    BY <1>0, <1>1, DueAtDeadline DEF Tick
  <2> QED
    BY <1>0, <1>1, <2>1 DEF Tick, ScrapeBounded
<1>2. CASE now' = now /\ opts' = opts
  BY <1>2 DEF ScrapeBounded
<1>3. ASSUME NEW a \in Accounts, AccountStep(a)
      PROVE  now' = now /\ opts' = opts
  BY <1>3 DEF AccountStep, ZonesKnown, ListZonesFails, ZoneTags, ZoneTagsFails, Join,
     Fetched, FetchFails, Quiet
<1> QED
  BY <1>1, <1>2, <1>3 DEF Next, AccountStep, ListAccounts, ListAccountsFails, Admit, EndJob, Done

\* Collect is over by the scrape's deadline, whatever jobs and accounts are
\* queued and whichever calls never answer: the response is always begun in
\* time (Collect and collectJob hand the one context to every call).
THEOREM ScrapeEndsInTime == Spec => []ScrapeBounded
<1>1. Init => ScrapeBounded
  BY BudgetAssumption DEF Init, ScrapeBounded
<1> QED
  BY <1>1, BoundedStep, BudgetTypeCorrect, PTL DEF Spec

-----------------------------------------------------------------------------
(* Analytics calls overlap *)

\* The longest of the enabled calls' timeouts is no shorter than any of them.
LEMMA LongestOfEnabled ==
    ASSUME TypeOK, job \in Jobs, NEW api \in Enabled[job]
    PROVE  /\ MaxOf({Own(p) : p \in Enabled[job]}) \in Nat
           /\ Own(api) <= MaxOf({Own(p) : p \in Enabled[job]})
<1> DEFINE r == opts.requestTimeout
           d == opts.dnsRequestTimeout
           S == {Own(p) : p \in Enabled[job]} \cup {0}
<1>1. r \in Nat /\ d \in Nat
  BY OptsTyped
<1>2. S \subseteq {0, r, d} /\ 0 \in S /\ Own(api) \in S
  BY DEF Own
<1>3. MaxOf({Own(p) : p \in Enabled[job]}) = Max(S)
  BY DEF MaxOf
<1> HIDE DEF r, d, S
<1>4. \E m \in S : \A x \in S : m >= x
  <2>1. CASE r \in S /\ (d \in S => d <= r)
    BY <1>1, <1>2, <2>1
  <2>2. CASE d \in S /\ (r \in S => r <= d)
    BY <1>1, <1>2, <2>2
  <2>3. CASE r \notin S /\ d \notin S
    BY <1>1, <1>2, <2>3
  <2> QED
    BY <1>1, <2>1, <2>2, <2>3
<1>5. Max(S) \in S /\ \A x \in S : Max(S) >= x
  BY <1>4 DEF Max
<1>6. Max(S) \in Nat /\ Own(api) \in Nat /\ Own(api) <= Max(S)
  <2>1. \A x \in S : x \in Nat
    BY <1>1, <1>2
  <2>2. Max(S) >= Own(api)
    BY <1>2, <1>5
  <2>3. Max(S) \in Nat /\ Own(api) \in Nat
    BY <1>2, <1>5, <2>1
  <2> QED
    BY <2>2, <2>3
<1> QED
  BY <1>3, <1>6

\* Only calls the job has enabled are under way.
OnlyEnabled ==
    \A a \in Accounts : \A api \in Apis :
       call[a][api] = "running" => job \in Jobs /\ api \in Enabled[job]

\* After the last job nothing is left to do.
OverAfterLast ==
    job \notin Jobs => ids = << >> /\ ~listing /\ \A a \in Accounts : ~Working(a)

OverlapInv == OnlyEnabled /\ OverAfterLast /\ SlowCallOverlaps

\* The time an account's analytics may take.
Longest == MaxOf({Own(p) : p \in Enabled[job]})

LEMMA LongestTyped ==
    ASSUME TypeOK, job \in Jobs
    PROVE  Longest \in Nat
<1>1. CASE Enabled[job] = {}
  <2>1. MaxOf({Own(p) : p \in Enabled[job]}) = Max({0})
    BY <1>1 DEF MaxOf
  <2> QED
    BY <2>1 DEF Max, Longest
<1>2. CASE \E api \in Enabled[job] : TRUE
  BY <1>2, LongestOfEnabled DEF Longest
<1> QED
  BY <1>1, <1>2

\* While an account waits for its analytics, one of its calls is not yet due.
LEMMA TickOverlap == TypeOK /\ OverlapInv /\ Tick => OverlapInv'
<1> SUFFICES ASSUME TypeOK, OverlapInv, Tick PROVE OverlapInv'
  OBVIOUS
<1>1. OnlyEnabled' /\ OverAfterLast'
  BY DEF OverlapInv, OnlyEnabled, OverAfterLast, Tick, Working
<1>2. SUFFICES ASSUME NEW a \in Accounts, stage[a] = "fetch"
               PROVE  now' - began[a] <= Longest
  BY <1>1 DEF OverlapInv, SlowCallOverlaps, Tick, Longest, Own
<1>3. PICK api \in Apis : call[a][api] = "running"
  BY <1>2 DEF Tick, Due, AllFetched
<1>4. ~ (now >= EndsAt(a, api))
  BY <1>2, <1>3 DEF Tick, Due, Running, Overdue
<1>5. job \in Jobs /\ api \in Enabled[job]
  BY <1>3 DEF OverlapInv, OnlyEnabled
<1>6. Longest \in Nat /\ Own(api) <= Longest
  BY <1>5, LongestOfEnabled DEF Longest
<1>7. EndsAt(a, api) \in Int /\ EndsAt(a, api) <= began[a] + Own(api)
  BY CallsEnd
<1>8. now \in Nat /\ began[a] \in Nat /\ Own(api) \in Nat /\ now' = now + 1
  BY OptsTyped DEF TypeOK, Tick
<1> QED
  BY <1>4, <1>6, <1>7, <1>8

\* A step of an account leaves the others' calls alone; its own begin now.
LEMMA AccountOverlap ==
    ASSUME TypeOK, OverlapInv, NEW a \in Accounts, AccountStep(a)
    PROVE  OverlapInv'
<1>0. /\ job' = job /\ ids' = ids /\ listing' = listing /\ now' = now /\ opts' = opts
      /\ Working(a)
      /\ \A b \in Accounts \ {a} :
            stage'[b] = stage[b] /\ began'[b] = began[b] /\ call'[b] = call[b]
  BY DEF AccountStep, ZonesKnown, ListZonesFails, ZoneTags, ZoneTagsFails, Join, AllFetched,
     Fetched, FetchFails, Running, Quiet, Goto, Select, Working, TypeOK
<1>1. job \in Jobs
  BY <1>0 DEF OverlapInv, OverAfterLast
<1>2. \/ call'[a] = call[a]
      \/ \A api \in Apis : call'[a][api] = "running" => api \in Enabled[job]
  BY DEF AccountStep, ZonesKnown, ListZonesFails, ZoneTags, ZoneTagsFails, Join,
     Fetched, FetchFails, Running, Select, TypeOK, OverlapInv, OnlyEnabled
<1>3. stage'[a] = "fetch" => (began'[a] = now \/ (stage[a] = "fetch" /\ began'[a] = began[a]))
  BY DEF AccountStep, ZonesKnown, ListZonesFails, ZoneTags, ZoneTagsFails, Join,
     Fetched, FetchFails, Running, Select, Goto, TypeOK
<1>4. Longest' = Longest
  BY <1>0 DEF Longest, Own
<1>5. OnlyEnabled' /\ OverAfterLast'
  BY <1>0, <1>1, <1>2 DEF OverlapInv, OnlyEnabled, OverAfterLast
<1>6. ASSUME NEW b \in Accounts, stage'[b] = "fetch"
      PROVE  now' - began'[b] <= Longest'
  <2>1. now \in Nat /\ Longest \in Nat
    BY <1>1, LongestTyped DEF TypeOK
  <2>2. CASE began'[b] = now
    BY <1>0, <1>4, <2>1, <2>2
  <2>3. CASE stage[b] = "fetch" /\ began'[b] = began[b]
    BY <1>0, <1>4, <2>3 DEF OverlapInv, SlowCallOverlaps, Longest
  <2> QED
    BY <1>0, <1>3, <1>6, <2>2, <2>3
<1> QED
  BY <1>5, <1>6 DEF OverlapInv, SlowCallOverlaps, Longest

LEMMA OverlapInit == Init => OverlapInv
BY BudgetAssumption DEF Init, OverlapInv, OnlyEnabled, OverAfterLast, SlowCallOverlaps, Jobs, Working

LEMMA OverlapStep == TypeOK /\ OverlapInv /\ [Next]_vars => OverlapInv'
<1> SUFFICES ASSUME TypeOK, OverlapInv, [Next]_vars PROVE OverlapInv'
  OBVIOUS
<1> USE DEF OverlapInv, OnlyEnabled, OverAfterLast, SlowCallOverlaps
<1>1. CASE ListAccounts \/ ListAccountsFails
  <2>1. job \in Jobs
    BY <1>1 DEF ListAccounts, ListAccountsFails
  <2> QED
    BY <1>1, <2>1 DEF ListAccounts, ListAccountsFails, Own
<1>2. CASE Admit
  <2>1. job \in Jobs
    BY <1>2 DEF Admit, CanAdmit
  <2>2. /\ UNCHANGED <<opts, now, job, call>>
        /\ \A a \in Accounts : stage'[a] = "fetch" => stage[a] = "fetch" /\ began'[a] = began[a]
    BY <1>2 DEF Admit, CanAdmit, Seen, TypeOK
  <2> QED
    BY <2>1, <2>2 DEF Own
<1>3. CASE EndJob
  <2>1. /\ job' = job + 1
        /\ job' \notin Jobs => ids' = << >> /\ ~listing'
        /\ \A a \in Accounts : stage'[a] = "idle"
        /\ \A a \in Accounts : \A api \in Apis : call'[a][api] = "off"
    BY <1>3 DEF EndJob, Idle
  <2> QED
    BY <2>1 DEF Working
<1>4. CASE Tick
  BY <1>4, TickOverlap
<1>5. CASE Done \/ UNCHANGED vars
  BY <1>5 DEF Done, Working, Own
<1>6. ASSUME NEW a \in Accounts, AccountStep(a)
      PROVE  OverlapInv'
  BY <1>6, AccountOverlap
<1> QED
  BY <1>1, <1>2, <1>3, <1>4, <1>5, <1>6 DEF Next, AccountStep

\* An account's analytics take no longer than the longest of the timeouts of
\* its enabled calls: they run at once, so a slow one adds nothing to another
\* (the sync.WaitGroup of collectAccount).
THEOREM SlowCallsOverlap == Spec => []SlowCallOverlaps
<1>1. OverlapInv => SlowCallOverlaps
  BY DEF OverlapInv
<1> QED
  BY <1>1, OverlapInit, OverlapStep, BudgetTypeCorrect, PTL DEF Spec

-----------------------------------------------------------------------------
(* What calls, accounts and jobs may take *)

\* The largest of a bounded set of numbers, 0 if there is none.
LEMMA MaxOfBounded ==
    ASSUME NEW S \in SUBSET Nat, NEW b \in Nat, \A x \in S : x <= b
    PROVE  /\ MaxOf(S) \in Nat /\ MaxOf(S) <= b
           /\ \A x \in S : x <= MaxOf(S)
<1> DEFINE Z == S \cup {0}
           B == {n \in Nat : \A x \in Z : x <= n}
<1>1. B \in SUBSET Nat /\ B # {}
  BY b \in B
<1>2. PICK m \in B : \A k \in B : m <= k
  BY <1>1, LeastPosition
<1>3. m \in Z
  <2> SUFFICES ASSUME m \notin Z PROVE FALSE
    OBVIOUS
  <2>1. \A x \in Z : x \in Nat /\ x <= m /\ x # m
    BY <1>2
  <2>2. m - 1 \in B
    BY <1>2, <2>1
  <2> QED
    BY <1>2, <2>2
<1>4. \A x \in Z : m >= x
  BY <1>2
<1>5. Max(Z) = m
  <2>1. Max(Z) \in Z /\ \A x \in Z : Max(Z) >= x
    BY <1>3, <1>4 DEF Max
  <2>0. m \in Nat /\ \A x \in Z : x \in Nat
    BY <1>2
  <2> HIDE DEF Z, B
  <2>2. Max(Z) >= m /\ m >= Max(Z)
    BY <1>3, <1>4, <2>1
  <2>3. Max(Z) \in Nat /\ m \in Nat
    BY <2>0, <2>1
  <2> QED
    BY <2>2, <2>3
<1> QED
  BY <1>2, <1>3, <1>4, <1>5 DEF MaxOf

\* An account's analytics take as long as the longest of the enabled calls.
LEMMA AnalyticsCostIs ==
    ASSUME TypeOK, NEW j \in Jobs, NEW a
    PROVE  /\ AnalyticsCost(j, a) \in Nat /\ AnalyticsCost(j, a) <= Quick + opts.scrapeTimeout
           /\ \A api \in Enabled[j] : /\ Cost(a, api, Own(api)) \in Nat
                                      /\ Cost(a, api, Own(api)) <= AnalyticsCost(j, a)
<1> DEFINE S == {Cost(a, api, Own(api)) : api \in Enabled[j]}
           b == Quick + opts.scrapeTimeout
<1>1. Quick \in Nat /\ opts.scrapeTimeout \in Nat
  BY BudgetAssumption, OptsTyped
<1>2. \A api \in Apis : Own(api) \in Nat /\ Own(api) <= opts.scrapeTimeout
  BY OptsTyped DEF Own
<1>3. \A api \in Apis : Cost(a, api, Own(api)) \in Nat /\ Cost(a, api, Own(api)) <= b
  BY <1>1, <1>2 DEF Cost
<1>4. Enabled[j] \subseteq Apis
  BY BudgetAssumption
<1>5. S \in SUBSET Nat /\ b \in Nat /\ \A x \in S : x <= b
  BY <1>1, <1>3, <1>4
<1>6. MaxOf(S) \in Nat /\ MaxOf(S) <= b /\ \A x \in S : x <= MaxOf(S)
  BY <1>5, MaxOfBounded
<1> QED
  BY <1>5, <1>6 DEF AnalyticsCost

\* An account takes no longer than a round of its job.
LEMMA RoundCostIs ==
    ASSUME TypeOK, NEW j \in Jobs
    PROVE  /\ RoundCost(j) \in Nat
           /\ \A a \in AccountsOf(j) : AccountCost(j, a) \in Nat /\ AccountCost(j, a) <= RoundCost(j)
<1> DEFINE S == {AccountCost(j, a) : a \in AccountsOf(j)}
           q == Quick + RestTimeout
           b == q + q + Quick + opts.scrapeTimeout
<1>1. Quick \in Nat /\ RestTimeout \in Nat /\ opts.scrapeTimeout \in Nat
  BY BudgetAssumption, OptsTyped
<1>2. \A a, c : Cost(a, c, RestTimeout) \in Nat /\ Cost(a, c, RestTimeout) <= q
  BY <1>1 DEF Cost
<1>3. \A a : AccountCost(j, a) \in Nat /\ AccountCost(j, a) <= b
  BY <1>1, <1>2, AnalyticsCostIs DEF AccountCost
<1>4. S \in SUBSET Nat /\ b \in Nat /\ \A x \in S : x <= b
  BY <1>1, <1>3
<1> HIDE DEF b
<1>5. MaxOf(S) \in Nat /\ \A x \in S : x <= MaxOf(S)
  BY <1>4, MaxOfBounded
<1> QED
  BY <1>3, <1>5 DEF RoundCost

\* The accounts of a job are finitely many.
LEMMA AccountsOfFinite ==
    ASSUME NEW j \in Jobs
    PROVE  /\ AccountsOf(j) \subseteq Accounts /\ IsFiniteSet(AccountsOf(j))
           /\ Cardinality(AccountsOf(j)) \in Nat
<1>1. AllAccounts \in Seq(Accounts) /\ JobAccounts[j] \in Seq(Accounts)
  BY BudgetAssumption DEF Jobs
<1>2. AccountsOf(j) \subseteq Accounts
  BY <1>1 DEF AccountsOf
<1> QED
  BY <1>2, BudgetAssumption, FS_Subset, FS_CardinalityType

\* Dividing with the remainder rounded up leaves nothing over.
LEMMA RoundedUp ==
    ASSUME NEW n \in Nat, NEW c \in Nat \ {0}
    PROVE  /\ (n + c - 1) \div c \in Nat
           /\ n <= ((n + c - 1) \div c) * c
           /\ n > 0 => (n + c - 1) \div c > 0
OBVIOUS

\* The rounds have room for all accounts of the job.
LEMMA RoundsSuffice ==
    ASSUME TypeOK, NEW j \in Jobs
    PROVE  /\ Rounds(j) \in Nat
           /\ Cardinality(AccountsOf(j)) <= Rounds(j) * opts.accountConcurrency
           /\ AccountsOf(j) # {} => Rounds(j) > 0
<1>1. opts.accountConcurrency \in Nat \ {0} /\ Cardinality(AccountsOf(j)) \in Nat
  BY OptsTyped, AccountsOfFinite
<1>2. AccountsOf(j) # {} => Cardinality(AccountsOf(j)) # 0
  BY AccountsOfFinite, FS_EmptySet
<1> QED
  BY <1>1, <1>2, RoundedUp DEF Rounds

\* The product of natural numbers is one, and is distributed over a sum.
LEMMA Times ==
    ASSUME NEW m \in Nat, NEW n \in Nat
    PROVE  m * n \in Nat /\ (m + 1) * n = m * n + n
OBVIOUS

LEMMA JobCostIs ==
    ASSUME TypeOK, NEW j \in Jobs
    PROVE  JobCost(j) \in Nat /\ ListCost(j) \in Nat /\ ListCost(j) <= JobCost(j)
<1>1. ListCost(j) \in Nat
  BY BudgetAssumption DEF ListCost
<1>2. Rounds(j) * RoundCost(j) \in Nat
  BY RoundsSuffice, RoundCostIs, Times
<1> QED
  BY <1>1, <1>2 DEF JobCost

\* The jobs' costs add up.
LEMMA JobsCostIs ==
    ASSUME TypeOK
    PROVE  /\ JobsCost(0) = 0
           /\ \A j \in Jobs : /\ JobsCost(j - 1) \in Int
                             /\ JobsCost(j) = JobsCost(j - 1) + JobCost(j)
                             /\ JobsCost(j) <= JobsCost(Len(JobAccounts))
<1> DEFINE f == [j \in Jobs |-> JobCost(j)]
           n == Len(JobAccounts)
<1>1. n \in Nat /\ Jobs = 1..n
  BY BudgetAssumption DEF Jobs
<1>2. \A k \in 1..n : f[k] \in Int /\ f[k] \in Nat /\ f[k] = JobCost(k)
  BY <1>1, JobCostIs
<1>3. \A k : JobsCost(k) = SumTo(f, k)
  BY DEF JobsCost
<1> HIDE DEF f, n
<1>4. /\ SumTo(f, 0) = 0
      /\ \A k \in 0..n : SumTo(f, k) \in Int
      /\ \A k \in 1..n : SumTo(f, k) = SumTo(f, k - 1) + f[k]
  BY <1>1, <1>2, SumSteps
<1>5. \A j \in Jobs : JobsCost(j) <= JobsCost(n)
  <2> DEFINE S == {k \in 0..n : SumTo(f, n - k) <= SumTo(f, n)}
  <2>1. 0 \in S
    BY <1>1, <1>4
  <2>2. ASSUME NEW k \in 1..n, k - 1 \in S
        PROVE  k \in S
    <3>1. n - (k - 1) \in 1..n /\ n - k \in 0..n /\ (n - (k - 1)) - 1 = n - k
      BY <1>1
    <3>2. SumTo(f, n - (k - 1)) = SumTo(f, n - k) + f[n - (k - 1)]
      BY <1>4, <3>1
    <3>3. SumTo(f, n - (k - 1)) <= SumTo(f, n)
      BY <2>2
    <3>4. SumTo(f, n - k) \in Int /\ SumTo(f, n) \in Int /\ f[n - (k - 1)] \in Nat
      BY <1>1, <1>2, <1>4, <3>1
    <3> QED
      BY <3>1, <3>2, <3>3, <3>4
  <2> HIDE DEF S
  <2>3. \A k \in 0..n : k \in S
    BY <1>1, <2>1, <2>2, LengthInduction
  <2>4. ASSUME NEW j \in Jobs
        PROVE  SumTo(f, j) <= SumTo(f, n)
    <3>1. n - j \in 0..n /\ n - (n - j) = j
      BY <1>1
    <3> QED
      BY <2>3, <3>1 DEF S
  <2> QED
    BY <1>3, <2>4
<1>6. \A j \in Jobs : j - 1 \in 0..n /\ j \in 1..n
  BY <1>1
<1> QED
  BY <1>2, <1>3, <1>4, <1>5, <1>6 DEF n

-----------------------------------------------------------------------------
(* Calls keep to their times *)

ZonesCost(a) == Cost(a, "zones", RestTimeout)
TagsCost(a) == Cost(a, "tags", RestTimeout)
CallCost(a, api) == Cost(a, api, Own(api))

\* The costs depend on the settings and on the slow calls only.
LEMMA SameCosts ==
    ASSUME opts' = opts, slow' = slow
    PROVE  /\ \A a : ZonesCost(a)' = ZonesCost(a) /\ TagsCost(a)' = TagsCost(a)
           /\ \A a, api : CallCost(a, api)' = CallCost(a, api)
           /\ \A j, a : AnalyticsCost(j, a)' = AnalyticsCost(j, a)
           /\ \A j : RoundCost(j)' = RoundCost(j) /\ JobCost(j)' = JobCost(j)
           /\ \A n : JobsCost(n)' = JobsCost(n)
           /\ Fits' = Fits
           /\ \A j : Culprit(j)' = Culprit(j)
BY DEF ZonesCost, TagsCost, CallCost, AnalyticsCost, AccountCost, RoundCost, JobCost, JobsCost,
   Rounds, Cost, Own, Fits, Culprit

LEMMA CostsTyped ==
    ASSUME TypeOK
    PROVE  /\ \A a : ZonesCost(a) \in Nat /\ TagsCost(a) \in Nat
           /\ \A a : \A api \in Apis : CallCost(a, api) \in Nat
BY OptsTyped, BudgetAssumption DEF ZonesCost, TagsCost, CallCost, Cost

\* No call under way has taken more than its cost, nor an account's analytics
\* more than the longest of their calls.
InTime ==
    /\ listing => now <= asked + Quick
    /\ \A a \in Accounts :
          /\ stage[a] = "zones" => now <= began[a] + ZonesCost(a)
          /\ stage[a] = "tags" => now <= began[a] + TagsCost(a)
          /\ stage[a] = "fetch" => now <= began[a] + AnalyticsCost(job, a)
          /\ \A api \in Apis : Running(a, api) => now <= began[a] + CallCost(a, api)

\* Time passes only while no call is overdue.
LEMMA TickInTime == TypeOK /\ OverlapInv /\ Tick => InTime'
<1> SUFFICES ASSUME TypeOK, OverlapInv, Tick PROVE InTime'
  OBVIOUS
<1>0. /\ now \in Nat /\ now' = now + 1 /\ asked \in Nat /\ Quick \in Nat
      /\ \A a \in Accounts : began[a] \in Nat
      /\ UNCHANGED <<opts, slow, job, listing, asked, stage, began, call>>
  BY BudgetAssumption DEF TypeOK, Tick
<1>1. ~Due
  BY DEF Tick
<1>2. ASSUME listing PROVE now' <= asked + Quick
  <2> DEFINE U == RestGivesUp(asked)
             Q == asked + Quick
  <2>1. U \in Int /\ Q \in Int
    BY <1>0, RestCallsEnd
  <2>2. ~(now >= Min({U, Q}))
    BY <1>1, <1>2 DEF Due
  <2> HIDE DEF U, Q
  <2>3. Min({U, Q}) \in {U, Q} /\ Min({U, Q}) <= Q
    BY <2>1, MinOfTwo
  <2>4. now < Q
    BY <1>0, <2>1, <2>2, <2>3
  <2> QED
    BY <1>0, <2>1, <2>4 DEF Q
<1>3. ASSUME NEW a \in Accounts, NEW c, ~Overdue(a, c, began[a], RestGivesUp(began[a]))
      PROVE  now' <= began[a] + Cost(a, c, RestTimeout)
  <2>1. ~(now >= RestGivesUp(began[a])) /\ (<<a, c>> \notin slow => ~(now >= began[a] + Quick))
    BY <1>3 DEF Overdue
  <2>2. /\ RestGivesUp(began[a]) \in Int
        /\ RestGivesUp(began[a]) <= began[a] + RestTimeout
    BY <1>0, RestCallsEnd
  <2> QED
    BY <1>0, <2>1, <2>2, BudgetAssumption DEF Cost
<1>4. ASSUME NEW a \in Accounts, stage[a] = "zones"
      PROVE  now' <= began[a] + ZonesCost(a)
  BY <1>1, <1>3, <1>4 DEF Due, RestOverdue, ZonesCost
<1>5. ASSUME NEW a \in Accounts, stage[a] = "tags"
      PROVE  now' <= began[a] + TagsCost(a)
  BY <1>1, <1>3, <1>5 DEF Due, RestOverdue, TagsCost
<1>6. ASSUME NEW a \in Accounts, NEW api \in Apis, Running(a, api)
      PROVE  now' <= began[a] + CallCost(a, api)
  <2>1. ~Overdue(a, api, began[a], EndsAt(a, api))
    BY <1>1, <1>6 DEF Due
  <2>2. ~(now >= EndsAt(a, api)) /\ (<<a, api>> \notin slow => ~(now >= began[a] + Quick))
    BY <2>1 DEF Overdue
  <2>3. EndsAt(a, api) \in Int /\ EndsAt(a, api) <= began[a] + Own(api) /\ Own(api) \in Nat
    BY CallsEnd, OptsTyped
  <2> QED
    BY <1>0, <2>2, <2>3 DEF CallCost, Cost
<1>7. ASSUME NEW a \in Accounts, stage[a] = "fetch"
      PROVE  now' <= began[a] + AnalyticsCost(job, a)
  <2>1. PICK api \in Apis : call[a][api] = "running"
    BY <1>1, <1>7 DEF Due, AllFetched
  <2>2. job \in Jobs /\ api \in Enabled[job]
    BY <2>1 DEF OverlapInv, OnlyEnabled
  <2>3. now' <= began[a] + CallCost(a, api)
    BY <1>6, <1>7, <2>1 DEF Running
  <2>4. /\ CallCost(a, api) \in Nat /\ AnalyticsCost(job, a) \in Nat
        /\ CallCost(a, api) <= AnalyticsCost(job, a)
    BY <2>2, AnalyticsCostIs DEF CallCost
  <2> QED
    BY <1>0, <2>3, <2>4
<1> QED
  BY <1>0, <1>2, <1>4, <1>5, <1>6, <1>7, SameCosts DEF InTime, Running

\* What a step of an account leaves alone.
LEMMA AccountFrame ==
    ASSUME TypeOK, NEW a \in Accounts, AccountStep(a)
    PROVE  /\ UNCHANGED <<opts, slow, now, job, ids, listing, asked, outcome>>
           /\ Working(a)
           /\ \A b \in Accounts \ {a} :
                 stage'[b] = stage[b] /\ began'[b] = began[b] /\ call'[b] = call[b]
BY DEF AccountStep, ZonesKnown, ListZonesFails, ZoneTags, ZoneTagsFails, Join, AllFetched,
   Fetched, FetchFails, Running, Quiet, Goto, Select, Working, TypeOK

\* An account that goes on to its next stage begins it now.
LEMMA AccountBegins ==
    ASSUME TypeOK, NEW a \in Accounts, AccountStep(a)
    PROVE  \/ /\ stage'[a] = stage[a] /\ began'[a] = began[a] /\ stage[a] = "fetch"
              /\ \A api \in Apis : call'[a][api] = "running" => call[a][api] = "running"
           \/ /\ began'[a] = now
              /\ \/ stage[a] = "zones" /\ stage'[a] = "tags"
                 \/ stage[a] = "tags" /\ stage'[a] = "fetch"
                 \/ stage'[a] = "gone"
BY DEF AccountStep, ZonesKnown, ListZonesFails, ZoneTags, ZoneTagsFails, Join, AllFetched,
   Fetched, FetchFails, Running, Goto, Select, TypeOK

LEMMA AccountInTime ==
    ASSUME TypeOK, OverlapInv, InTime, NEW a \in Accounts, AccountStep(a)
    PROVE  InTime'
<1>0. /\ UNCHANGED <<opts, slow, now, job, listing, asked>> /\ Working(a)
      /\ \A b \in Accounts \ {a} :
            stage'[b] = stage[b] /\ began'[b] = began[b] /\ call'[b] = call[b]
  BY AccountFrame
<1>1. now \in Nat /\ job \in Jobs
  BY <1>0 DEF TypeOK, OverlapInv, OverAfterLast
<1>2. /\ ZonesCost(a) \in Nat /\ TagsCost(a) \in Nat /\ AnalyticsCost(job, a) \in Nat
      /\ \A api \in Apis : CallCost(a, api) \in Nat
  BY <1>1, CostsTyped, AnalyticsCostIs
<1>3. /\ stage'[a] = "zones" => now <= began'[a] + ZonesCost(a)
      /\ stage'[a] = "tags" => now <= began'[a] + TagsCost(a)
      /\ stage'[a] = "fetch" => now <= began'[a] + AnalyticsCost(job, a)
      /\ \A api \in Apis : Running(a, api)' => now <= began'[a] + CallCost(a, api)
  BY <1>1, <1>2, AccountBegins DEF InTime, Running
<1> QED
  BY <1>0, <1>3, SameCosts DEF InTime, Running

LEMMA InTimeStep == TypeOK /\ OverlapInv /\ InTime /\ [Next]_vars => InTime'
<1> SUFFICES ASSUME TypeOK, OverlapInv, InTime, [Next]_vars PROVE InTime'
  OBVIOUS
<1>1. CASE ListAccounts \/ ListAccountsFails \/ Done \/ UNCHANGED vars
  <2>1. /\ UNCHANGED <<opts, slow, now, job, asked, stage, began, call>>
        /\ listing' => listing
    BY <1>1 DEF ListAccounts, ListAccountsFails, Done
  <2> QED
    BY <2>1, SameCosts DEF InTime, Running
<1>2. CASE Admit
  <2>1. /\ UNCHANGED <<opts, slow, now, job, asked, listing, call>>
        /\ \A a \in Accounts : \/ stage'[a] = stage[a] /\ began'[a] = began[a]
                               \/ stage'[a] = "zones" /\ began'[a] = now
    BY <1>2 DEF Admit, CanAdmit, TypeOK
  <2>2. now \in Nat /\ \A a : ZonesCost(a) \in Nat
    BY CostsTyped DEF TypeOK
  <2> QED
    BY <2>1, <2>2, SameCosts DEF InTime, Running
<1>3. CASE EndJob
  <2>1. /\ now' = now /\ asked' = now
        /\ \A a \in Accounts : stage'[a] = "idle"
    BY <1>3 DEF EndJob, Idle
  <2>2. now \in Nat /\ Quick \in Nat
    BY BudgetAssumption DEF TypeOK
  <2> QED
    BY <2>1, <2>2 DEF InTime, Running
<1>4. CASE Tick
  BY <1>4, TickInTime
<1>5. ASSUME NEW a \in Accounts, AccountStep(a)
      PROVE  InTime'
  BY <1>5, AccountInTime
<1> QED
  BY <1>1, <1>2, <1>3, <1>4, <1>5 DEF Next, AccountStep

-----------------------------------------------------------------------------
(* A job's accounts *)

\* Only accounts of the job are admitted, and none before they are known.
Members ==
    /\ listing => job \in Jobs /\ JobAccounts[job] = << >> /\ \A a \in Accounts : ~Seen(a)
    /\ \A a \in Accounts : Seen(a) => job \in Jobs /\ a \in AccountsOf(job)
    /\ \A i \in DOMAIN ids : job \in Jobs /\ ids[i] \in AccountsOf(job)

LEMMA MembersInit == Init => Members
<1> SUFFICES ASSUME Init PROVE Members
  OBVIOUS
<1>1. job = 1 /\ 1 \in Jobs /\ ids = JobAccounts[1] /\ listing = (JobAccounts[1] = << >>)
  BY BudgetAssumption DEF Init, Jobs
<1>2. \A a \in Accounts : ~Seen(a)
  BY DEF Init, Seen
<1>3. \A i \in DOMAIN ids : ids[i] \in AccountsOf(1)
  <2>1. CASE JobAccounts[1] = << >>
    BY <1>1, <2>1
  <2>2. CASE JobAccounts[1] # << >>
    BY <1>1, <2>2 DEF AccountsOf
  <2> QED
    BY <2>1, <2>2
<1> QED
  BY <1>1, <1>2, <1>3 DEF Members

LEMMA MembersStep == TypeOK /\ OverlapInv /\ Members /\ [Next]_vars => Members'
<1> SUFFICES ASSUME TypeOK, OverlapInv, Members, [Next]_vars PROVE Members'
  OBVIOUS
<1>0. \A j : AccountsOf(j)' = AccountsOf(j)
  BY DEF AccountsOf
<1>1. CASE ListAccounts
  <2>1. /\ UNCHANGED <<job, stage>> /\ listing /\ ~listing' /\ ids' = AllAccounts
    BY <1>1 DEF ListAccounts
  <2>2. \A i \in DOMAIN AllAccounts : AllAccounts[i] \in AccountsOf(job)
    BY <2>1 DEF Members, AccountsOf
  <2> QED
    BY <1>0, <2>1, <2>2 DEF Members, Seen
<1>2. CASE ListAccountsFails \/ Tick \/ Done \/ UNCHANGED vars
  <2>1. UNCHANGED <<job, stage, ids>> /\ (listing' => listing)
    BY <1>2 DEF ListAccountsFails, Tick, Done
  <2> QED
    BY <1>0, <2>1 DEF Members, Seen
<1>3. CASE Admit
  <2>0. /\ ids # << >> /\ ids \in Seq(Accounts) /\ ~listing /\ ~listing' /\ job' = job
        /\ Head(ids) \in Accounts /\ Head(ids) = ids[1] /\ 1 \in DOMAIN ids
    BY <1>3 DEF Admit, CanAdmit, TypeOK
  <2>1. \A i \in DOMAIN ids' : \E k \in DOMAIN ids : ids'[i] = ids[k]
    <3>1. \A i \in DOMAIN Tail(ids) : Tail(ids)[i] = ids[i + 1] /\ i + 1 \in DOMAIN ids
      BY <2>0
    <3>2. CASE ids' = Tail(ids)
      BY <3>1, <3>2
    <3>3. CASE ids' = << >>
      BY <3>3
    <3> QED
      BY <1>3, <3>2, <3>3 DEF Admit
  <2>2. job \in Jobs /\ Head(ids) \in AccountsOf(job)
    BY <2>0 DEF Members
  <2>3. \A a \in Accounts : Seen(a)' => Seen(a) \/ a = Head(ids)
    BY <1>3 DEF Admit, Seen, TypeOK
  <2> QED
    BY <1>0, <2>0, <2>1, <2>2, <2>3 DEF Members
<1>4. CASE EndJob
  <2>1. /\ job' = job + 1 /\ \A a \in Accounts : ~Seen(a)'
        /\ ids' = (IF job + 1 \in Jobs THEN JobAccounts[job + 1] ELSE << >>)
        /\ listing' = (job + 1 \in Jobs /\ JobAccounts[job + 1] = << >>)
    BY <1>4 DEF EndJob, Idle, Seen
  <2>2. ASSUME NEW i \in DOMAIN ids' PROVE job' \in Jobs /\ ids'[i] \in AccountsOf(job')
    BY <2>1, <2>2 DEF AccountsOf
  <2> QED
    BY <1>0, <2>1, <2>2 DEF Members
<1>5. ASSUME NEW a \in Accounts, AccountStep(a)
      PROVE  Members'
  <2>1. UNCHANGED <<job, ids, listing>> /\ \A b \in Accounts : Seen(b)' => Seen(b)
    BY <1>5, AccountFrame DEF Seen, Working
  <2> QED
    BY <1>0, <2>1 DEF Members
<1> QED
  BY <1>1, <1>2, <1>3, <1>4, <1>5 DEF Next, AccountStep

-----------------------------------------------------------------------------
(* Rounds of accounts *)

\* When the accounts of round r, counted from 0, have begun at the latest.
RoundStart(r) == asked + ListCost(job) + r * RoundCost(job)

\* Given when each account was admitted: those admitted by then.
Early(admitted, r) == {a \in Accounts : Seen(a) /\ admitted[a] <= RoundStart(r)}

\* Rounds 0 to r had all their accounts in time.
Full(admitted, r) == (r + 1) * opts.accountConcurrency <= Cardinality(Early(admitted, r))

\* An account is still to be admitted.
Waiting == ~listing /\ \E i \in DOMAIN ids : ~Seen(ids[i])

\* How long ago an account may have been admitted that is at its stage.
Behind(a) ==
    CASE stage[a] = "zones" -> 0
      [] stage[a] = "tags"  -> ZonesCost(a)
      [] OTHER              -> ZonesCost(a) + TagsCost(a)

\* No account is admitted late, or kept waiting, unless the rounds were full.
Paced(admitted) ==
    /\ \A a \in Accounts : Seen(a) => admitted[a] <= now
    /\ \A a \in Accounts : Working(a) => began[a] <= admitted[a] + Behind(a)
    /\ \A r \in Nat : job \in Jobs =>
          /\ \A a \in Accounts : Seen(a) /\ admitted[a] > RoundStart(r) => Full(admitted, r)
          /\ now > RoundStart(r) /\ Waiting => Full(admitted, r)

InRounds == \E admitted \in [Accounts -> Nat] : Paced(admitted)

\* The job began when the jobs before it had spent their costs, and has not
\* spent more than its own.
OnTime ==
    job \in Jobs => asked <= JobsCost(job - 1) /\ now <= asked + JobCost(job)

LEMMA RoundStartIs ==
    ASSUME TypeOK, job \in Jobs
    PROVE  /\ \A r \in Nat : /\ RoundStart(r) \in Nat
                             /\ RoundStart(r + 1) = RoundStart(r) + RoundCost(job)
           /\ RoundStart(0) = asked + ListCost(job)
           /\ RoundStart(Rounds(job)) = asked + JobCost(job)
<1>1. /\ asked \in Nat /\ ListCost(job) \in Nat /\ RoundCost(job) \in Nat /\ Rounds(job) \in Nat
  BY JobCostIs, RoundCostIs, RoundsSuffice DEF TypeOK
<1>2. ASSUME NEW r \in Nat
      PROVE  /\ RoundStart(r) \in Nat
             /\ RoundStart(r + 1) = RoundStart(r) + RoundCost(job)
  <2>1. /\ r * RoundCost(job) \in Nat
        /\ (r + 1) * RoundCost(job) = r * RoundCost(job) + RoundCost(job)
    BY <1>1, Times
  <2> QED
    BY <1>1, <2>1 DEF RoundStart
<1> QED
  BY <1>1, <1>2 DEF RoundStart, JobCost

\* Rounds that were full stay so while the accounts seen are kept.
LEMMA FullStays ==
    ASSUME TypeOK, NEW f, NEW g, NEW r \in Nat, Full(f, r), opts' = opts,
           Early(f, r) \subseteq Early(g, r)'
    PROVE  Full(g, r)'
<1>1. IsFiniteSet(Early(g, r)')
  BY BudgetAssumption, FS_Subset DEF Early
<1>2. /\ Cardinality(Early(f, r)) <= Cardinality(Early(g, r)')
      /\ Cardinality(Early(f, r)) \in Nat /\ Cardinality(Early(g, r)') \in Nat
  BY <1>1, FS_Subset, FS_CardinalityType
<1>3. (r + 1) * opts.accountConcurrency \in Nat
  BY OptsTyped, Times
<1> QED
  BY <1>2, <1>3 DEF Full

\* An account at work is not past the cost of one round since it was admitted.
LEMMA WorkerInTime ==
    ASSUME TypeOK, OverlapInv, Members, Tick,
           NEW admitted \in [Accounts -> Nat], Paced(admitted),
           NEW a \in Accounts, Working(a)
    PROVE  now + 1 <= admitted[a] + RoundCost(job)
<1>0. /\ now' = now + 1 /\ stage' = stage /\ began' = began
      /\ opts' = opts /\ slow' = slow /\ job' = job
  BY DEF Tick
<1>1. /\ now' <= began[a] + IF stage[a] = "zones" THEN ZonesCost(a)
                            ELSE IF stage[a] = "tags" THEN TagsCost(a) ELSE AnalyticsCost(job, a)
  <2>1. stage[a] \in {"zones", "tags", "fetch"}
    BY DEF TypeOK, Working
  <2>2. InTime'
    BY TickInTime
  <2> QED
    BY <1>0, <2>1, <2>2, SameCosts DEF InTime
<1>2. began[a] <= admitted[a] + Behind(a)
  BY DEF Paced
<1>3. job \in Jobs /\ a \in AccountsOf(job)
  BY DEF Members, Seen, Working
<1>4. /\ ZonesCost(a) \in Nat /\ TagsCost(a) \in Nat /\ AnalyticsCost(job, a) \in Nat
      /\ ZonesCost(a) + TagsCost(a) + AnalyticsCost(job, a) <= RoundCost(job)
      /\ RoundCost(job) \in Nat
  BY <1>3, CostsTyped, AnalyticsCostIs, RoundCostIs DEF AccountCost, ZonesCost, TagsCost
<1>5. now \in Nat /\ began[a] \in Nat /\ admitted[a] \in Nat
  BY DEF TypeOK
<1> QED
  BY <1>0, <1>1, <1>2, <1>4, <1>5 DEF Behind

\* If an account waits at the end of a round, all slots are taken by accounts
\* that the round before did not have.
LEMMA RoundIsFull ==
    ASSUME TypeOK, OverlapInv, Members, Tick,
           NEW admitted \in [Accounts -> Nat], Paced(admitted),
           NEW r \in Nat, now = RoundStart(r), job \in Jobs, Waiting
    PROVE  Full(admitted, r)
<1> DEFINE c == opts.accountConcurrency
<1>1. c \in Nat \ {0} /\ now \in Nat
  BY OptsTyped DEF TypeOK
<1>2. IsFiniteSet(AtWork) /\ \A k : IsFiniteSet(Early(admitted, k))
  BY BudgetAssumption, FS_Subset DEF AtWork, Early
<1>3. Cardinality(AtWork) \in Nat /\ \A k : Cardinality(Early(admitted, k)) \in Nat
  BY <1>2, FS_CardinalityType
<1>4. c <= Cardinality(AtWork)
  <2>1. ids # << >> /\ ~listing
    BY DEF Waiting, TypeOK
  <2>2. ~SlotFree
    BY <2>1 DEF Tick, Due, CanAdmit
  <2> QED
    BY <1>1, <1>3, <2>2 DEF SlotFree, AtWork
<1>5. AtWork \subseteq Early(admitted, r)
  BY DEF AtWork, Early, Paced, Working, Seen
<1>6. CASE r = 0
  <2>1. Cardinality(AtWork) <= Cardinality(Early(admitted, 0))
    BY <1>2, <1>5, <1>6, FS_Subset
  <2> QED
    BY <1>1, <1>3, <1>4, <1>6, <2>1 DEF Full
<1>7. CASE r # 0
  <2> DEFINE q == r - 1
             E == Early(admitted, q)
  <2>0. q \in Nat /\ q + 1 = r
    BY <1>7
  <2>1. RoundStart(q) \in Nat /\ RoundStart(r) = RoundStart(q) + RoundCost(job)
    BY <2>0, RoundStartIs
  <2> HIDE DEF q
  <2>2. RoundCost(job) \in Nat
    BY RoundCostIs
  <2>3. \A a \in AtWork : admitted[a] > RoundStart(q)
    BY <1>1, <2>1, <2>2, WorkerInTime DEF AtWork
  <2>4. AtWork \cap E = {}
    <3> SUFFICES ASSUME NEW a \in AtWork, a \in E PROVE FALSE
      OBVIOUS
    <3>1. admitted[a] \in Nat /\ admitted[a] <= RoundStart(q)
      BY DEF AtWork, Early
    <3> QED
      BY <2>1, <2>3, <3>1
  <2>5. r * c <= Cardinality(E)
    <3>1. AtWork # {}
      BY <1>1, <1>4, FS_EmptySet
    <3>2. PICK a \in AtWork : TRUE
      BY <3>1
    <3>3. Seen(a) /\ a \in Accounts
      BY DEF AtWork, Working, Seen
    <3> QED
      BY <2>0, <2>3, <3>3 DEF Paced, Full
  <2>6. E \cup AtWork \subseteq Early(admitted, r)
    <3>1. ASSUME NEW a \in E PROVE a \in Early(admitted, r)
      <4>1. a \in Accounts /\ Seen(a) /\ admitted[a] \in Nat /\ admitted[a] <= RoundStart(q)
        BY DEF Early
      <4>2. admitted[a] <= RoundStart(r)
        BY <2>1, <2>2, <4>1
      <4> QED
        BY <4>1, <4>2 DEF Early
    <3> QED
      BY <1>5, <3>1
  <2>e. IsFiniteSet(E) /\ Cardinality(E) \in Nat
    BY <1>2, <1>3
  <2> HIDE DEF E
  <2>7. /\ IsFiniteSet(E \cup AtWork) /\ Cardinality(E \cup AtWork) \in Nat
        /\ Cardinality(E \cup AtWork) = Cardinality(E) + Cardinality(AtWork)
    <3>1. E \cap AtWork = {} /\ Cardinality({}) = 0
      BY <2>4, FS_EmptySet
    <3>2. IsFiniteSet(E \cup AtWork)
          /\ Cardinality(E \cup AtWork)
               = Cardinality(E) + Cardinality(AtWork) - Cardinality(E \cap AtWork)
      BY <1>2, <2>e, FS_Union
    <3>3. Cardinality(E \cap AtWork) = 0
      BY <3>1, Zenon
    <3>4. Cardinality(E) \in Nat /\ Cardinality(AtWork) \in Nat
      BY <1>3, <2>e
    <3>5. Cardinality(E \cup AtWork) = Cardinality(E) + Cardinality(AtWork)
      BY <3>2, <3>3, <3>4
    <3> QED
      BY <3>2, <3>4, <3>5
  <2>8. Cardinality(E \cup AtWork) <= Cardinality(Early(admitted, r))
    BY <1>2, <2>6, FS_Subset
  <2>9. r * c \in Nat /\ (r + 1) * c = r * c + c
    BY <1>1, Times
  <2> QED
    BY <1>1, <1>3, <1>4, <2>e, <2>5, <2>7, <2>8, <2>9 DEF Full
<1> QED
  BY <1>6, <1>7

\* Time passes: an account that is kept waiting finds the rounds full.
LEMMA TickPaced ==
    ASSUME TypeOK, OverlapInv, Members, Tick,
           NEW admitted \in [Accounts -> Nat], Paced(admitted)
    PROVE  Paced(admitted)'
<1>0. /\ now' = now + 1 /\ now \in Nat
      /\ UNCHANGED <<opts, slow, job, ids, listing, asked, stage, began>>
  BY DEF Tick, TypeOK
<1>1. \A r : RoundStart(r)' = RoundStart(r)
  BY <1>0, SameCosts DEF RoundStart, ListCost
<1>2. \A r : Early(admitted, r)' = Early(admitted, r)
  BY <1>0, <1>1 DEF Early, Seen
<1>3. \A r : Full(admitted, r)' <=> Full(admitted, r)
  BY <1>0, <1>2 DEF Full
<1>4. Waiting' <=> Waiting
  BY <1>0 DEF Waiting, Seen
<1>5. \A a \in Accounts : Behind(a)' = Behind(a)
  BY <1>0, SameCosts DEF Behind
<1>6. ASSUME NEW r \in Nat, job \in Jobs
      PROVE  /\ \A a \in Accounts : Seen(a) /\ admitted[a] > RoundStart(r) => Full(admitted, r)
             /\ now' > RoundStart(r) /\ Waiting => Full(admitted, r)
  <2>1. RoundStart(r) \in Nat
    BY <1>6, RoundStartIs
  <2>2. now' > RoundStart(r) => now > RoundStart(r) \/ now = RoundStart(r)
    BY <1>0, <2>1
  <2> QED
    BY <1>6, <2>2, RoundIsFull DEF Paced
<1>7. \A a \in Accounts : Seen(a) => admitted[a] <= now'
  BY <1>0 DEF Paced
<1>8. \A a \in Accounts : Working(a) => began[a] <= admitted[a] + Behind(a)
  BY DEF Paced
<1> QED
  BY <1>0, <1>1, <1>3, <1>4, <1>5, <1>6, <1>7, <1>8 DEF Paced, Seen, Working

\* The job is still within its cost: an account at work belongs to one of the
\* rounds, since these have room for all accounts of the job.
LEMMA TickOnTime ==
    ASSUME TypeOK, OverlapInv, InTime, Members, OnTime, Tick,
           NEW admitted \in [Accounts -> Nat], Paced(admitted)
    PROVE  OnTime'
<1>0. /\ now' = now + 1 /\ now \in Nat /\ asked \in Nat /\ job \in Jobs
      /\ UNCHANGED <<opts, slow, job, listing, asked>>
  BY DEF Tick, TypeOK
<1>1. JobCost(job) \in Nat /\ ListCost(job) \in Nat /\ ListCost(job) <= JobCost(job)
  BY <1>0, JobCostIs
<1>2. CASE listing
  <2>1. now' <= asked + Quick
    BY <1>0, <1>2, TickInTime DEF InTime
  <2>2. ListCost(job) = Quick
    BY <1>2 DEF Members, ListCost
  <2>3. now' <= asked + JobCost(job)
    BY <1>0, <1>1, <2>1, <2>2
  <2> QED
    BY <1>0, <2>3, SameCosts DEF OnTime
<1>3. CASE ~listing
  <2>1. PICK b \in Accounts : Working(b)
    <3> SUFFICES ASSUME \A a \in Accounts : ~Working(a) PROVE FALSE
      OBVIOUS
    <3>1. {a \in Accounts : Working(a)} = {}
      OBVIOUS
    <3>2. SlotFree
      BY <3>1, FS_EmptySet, OptsTyped DEF SlotFree
    <3> QED
      BY <1>0, <1>3, <3>2 DEF Tick, Due, CanAdmit, CanEndJob
  <2>2. b \in AccountsOf(job) /\ Seen(b)
    BY <2>1 DEF Members, Seen, Working
  <2> DEFINE A == AccountsOf(job)
             R == Rounds(job)
             q == R - 1
             E == Early(admitted, q)
             c == opts.accountConcurrency
  <2>3. R \in Nat /\ R > 0 /\ Cardinality(A) <= R * c
    BY <1>0, <2>2, RoundsSuffice
  <2>4. q \in Nat /\ q + 1 = R
    BY <2>3
  <2>5. E \subseteq A
    BY DEF Members, Early
  <2>6. IsFiniteSet(A) /\ Cardinality(A) \in Nat
    BY <1>0, AccountsOfFinite
  <2>7. /\ RoundStart(q) \in Nat
        /\ RoundStart(q) + RoundCost(job) = asked + JobCost(job)
    BY <1>0, <2>4, RoundStartIs
  <2>c. c \in Nat /\ R * c \in Nat /\ RoundCost(job) \in Nat
    BY <1>0, <2>3, OptsTyped, Times, RoundCostIs
  <2>p. admitted[b] > RoundStart(q) => (q + 1) * c <= Cardinality(E)
    BY <1>0, <2>2, <2>4 DEF Paced, Full
  <2>i. ~(admitted[b] > RoundStart(q)) \/ b \notin E
    <3>1. admitted[b] \in Nat
      OBVIOUS
    <3> QED
      BY <2>7, <3>1 DEF Early
  <2>w. now + 1 <= admitted[b] + RoundCost(job)
    BY <2>1, WorkerInTime
  <2>a. admitted[b] \in Nat
    OBVIOUS
  <2>b. b \in A
    BY <2>2
  <2> HIDE DEF A, R, q, E, c
  <2>8. ~(admitted[b] > RoundStart(q))
    <3> SUFFICES ASSUME admitted[b] > RoundStart(q) PROVE FALSE
      OBVIOUS
    <3>1. R * c <= Cardinality(E) /\ b \notin E
      BY <2>4, <2>p, <2>i
    <3>2. E \subseteq A \ {b}
      BY <2>5, <3>1
    <3>3. /\ IsFiniteSet(A \ {b}) /\ Cardinality(A \ {b}) = Cardinality(A) - 1
      BY <2>6, <2>b, FS_RemoveElement
    <3>4. IsFiniteSet(E) /\ Cardinality(E) <= Cardinality(A \ {b}) /\ Cardinality(E) \in Nat
      BY <3>2, <3>3, FS_Subset, FS_CardinalityType
    <3> QED
      BY <2>3, <2>6, <2>c, <3>1, <3>3, <3>4
  <2>9. now' <= asked + JobCost(job)
    BY <1>0, <1>1, <2>7, <2>8, <2>a, <2>c, <2>w
  <2> QED
    BY <1>0, <2>9, SameCosts DEF OnTime
<1> QED
  BY <1>2, <1>3

\* An account at work goes on: it has kept to the cost of its stage.
LEMMA AccountPaced ==
    ASSUME TypeOK, OverlapInv, InTime,
           NEW admitted \in [Accounts -> Nat], Paced(admitted),
           NEW a \in Accounts, AccountStep(a)
    PROVE  Paced(admitted)'
<1>0. /\ UNCHANGED <<opts, slow, now, job, ids, listing, asked>> /\ Working(a)
      /\ \A b \in Accounts \ {a} : stage'[b] = stage[b] /\ began'[b] = began[b]
  BY AccountFrame
<1>1. \A b \in Accounts : Seen(b)' <=> Seen(b)
  <2>1. Seen(a) /\ Seen(a)'
    BY <1>0, AccountBegins DEF Seen, Working
  <2> QED
    BY <1>0, <2>1 DEF Seen
<1>2. \A r : RoundStart(r)' = RoundStart(r)
  BY <1>0, SameCosts DEF RoundStart, ListCost
<1>3. \A r : Early(admitted, r)' = Early(admitted, r)
  BY <1>1, <1>2 DEF Early
<1>4. \A r : Full(admitted, r)' <=> Full(admitted, r)
  BY <1>0, <1>3 DEF Full
<1>5. Waiting' <=> Waiting
  <2>1. \A i \in DOMAIN ids : ids[i] \in Accounts
    BY DEF TypeOK
  <2> QED
    BY <1>0, <1>1, <2>1 DEF Waiting
<1>6. ASSUME NEW b \in Accounts, Working(b)'
      PROVE  began'[b] <= admitted[b] + Behind(b)'
  <2>1. CASE b # a
    BY <1>0, <1>6, <2>1, SameCosts DEF Paced, Behind, Working
  <2>2. CASE b = a
    <3>0. /\ began[a] <= admitted[a] + Behind(a)
          /\ ZonesCost(a)' = ZonesCost(a) /\ TagsCost(a)' = TagsCost(a)
      BY <1>0, SameCosts DEF Paced
    <3>1. /\ ZonesCost(a) \in Nat /\ TagsCost(a) \in Nat /\ now \in Nat
          /\ began[a] \in Nat /\ admitted[a] \in Nat
      BY CostsTyped DEF TypeOK
    <3>2. CASE stage'[a] = stage[a] /\ began'[a] = began[a]
      BY <2>2, <3>0, <3>2 DEF Behind
    <3>3. CASE began'[a] = now /\ stage[a] = "zones" /\ stage'[a] = "tags"
      <4>1. now <= began[a] + ZonesCost(a)
        BY <3>3 DEF InTime
      <4> QED
        BY <2>2, <3>0, <3>1, <3>3, <4>1 DEF Behind
    <3>4. CASE began'[a] = now /\ stage[a] = "tags" /\ stage'[a] = "fetch"
      <4>1. now <= began[a] + TagsCost(a)
        BY <3>4 DEF InTime
      <4> QED
        BY <2>2, <3>0, <3>1, <3>4, <4>1 DEF Behind
    <3>5. stage'[a] # "gone"
      BY <1>6, <2>2 DEF Working
    <3> QED
      BY <3>2, <3>3, <3>4, <3>5, AccountBegins
  <2> QED
    BY <2>1, <2>2
<1> QED
  BY <1>0, <1>1, <1>2, <1>4, <1>5, <1>6 DEF Paced

\* An account is admitted: it is late only if the rounds before were full.
LEMMA AdmitPaced ==
    ASSUME TypeOK, Admit, NEW admitted \in [Accounts -> Nat], Paced(admitted)
    PROVE  InRounds'
<1>h. ids # << >> /\ ids \in Seq(Accounts) /\ Head(ids) \in Accounts /\ Head(ids) = ids[1]
  BY DEF Admit, CanAdmit, TypeOK
<1>e. PICK h \in Accounts : h = Head(ids)
  BY <1>h
<1>0. /\ ids # << >> /\ ids \in Seq(Accounts) /\ h = ids[1] /\ ~listing
      /\ UNCHANGED <<opts, slow, now, job, listing, asked>> /\ now \in Nat
  BY <1>h, <1>e DEF Admit, CanAdmit, TypeOK
<1>1. \A r : RoundStart(r)' = RoundStart(r)
  BY <1>0, SameCosts DEF RoundStart, ListCost
<1>2. \A i \in DOMAIN ids' : \E k \in DOMAIN ids : ids'[i] = ids[k]
  <2>1. \A i \in DOMAIN Tail(ids) : Tail(ids)[i] = ids[i + 1] /\ i + 1 \in DOMAIN ids
    BY <1>0
  <2>2. CASE ids' = Tail(ids)
    BY <2>1, <2>2
  <2>3. CASE ids' = << >>
    BY <2>3
  <2> QED
    BY <2>2, <2>3 DEF Admit
<1>3. CASE UNCHANGED <<stage, began>>
  <2>1. \A b \in Accounts : (Seen(b)' <=> Seen(b)) /\ (Working(b)' <=> Working(b))
    BY <1>3 DEF Seen, Working
  <2>2. \A r : Early(admitted, r)' = Early(admitted, r)
    BY <1>1, <2>1 DEF Early
  <2>3. \A r : Full(admitted, r)' <=> Full(admitted, r)
    BY <1>0, <2>2 DEF Full
  <2>4. Waiting' => Waiting
    BY <1>0, <1>2, <1>3 DEF Waiting, Seen
  <2>5. \A b \in Accounts : Behind(b)' = Behind(b)
    BY <1>0, <1>3, SameCosts DEF Behind
  <2>6. Paced(admitted)'
    BY <1>0, <1>1, <1>3, <2>1, <2>3, <2>4, <2>5 DEF Paced
  <2> QED
    BY <2>6 DEF InRounds
<1>4. CASE /\ ~Seen(h)
           /\ stage' = [stage EXCEPT ![h] = "zones"]
           /\ began' = [began EXCEPT ![h] = now]
  <2>g. [admitted EXCEPT ![h] = now] \in [Accounts -> Nat]
    BY <1>0
  <2>h. PICK g \in [Accounts -> Nat] : g = [admitted EXCEPT ![h] = now]
    BY <2>g
  <2>0. g[h] = now /\ \A b \in Accounts \ {h} : g[b] = admitted[b]
    BY <2>h
  <2>1. /\ Seen(h)' /\ Working(h)' /\ stage'[h] = "zones" /\ began'[h] = now
        /\ \A b \in Accounts \ {h} : /\ (Seen(b)' <=> Seen(b)) /\ (Working(b)' <=> Working(b))
                                     /\ began'[b] = began[b] /\ stage'[b] = stage[b]
    BY <1>0, <1>4 DEF TypeOK, Seen, Working
  <2>2. \A r : Early(admitted, r) \subseteq Early(g, r)'
    BY <1>1, <1>4, <2>0, <2>1 DEF Early
  <2>3. \A r \in Nat : Full(admitted, r) => Full(g, r)'
    BY <1>0, <2>2, FullStays
  <2>4. Waiting /\ (Waiting' => Waiting)
    BY <1>0, <1>4 DEF Waiting
  <2>5. \A b \in Accounts \ {h} : Behind(b)' = Behind(b)
    BY <1>0, <2>1, SameCosts DEF Behind
  <2>6. Behind(h)' = 0
    BY <2>1 DEF Behind
  <2>7. \A b \in Accounts : Seen(b)' => g[b] <= now'
    BY <1>0, <2>0, <2>1 DEF Paced
  <2>8. \A b \in Accounts : Working(b)' => began'[b] <= g[b] + Behind(b)'
    <3>1. began'[h] <= g[h] + Behind(h)'
      BY <1>0, <2>0, <2>1, <2>6
    <3>2. ASSUME NEW b \in Accounts \ {h}, Working(b)'
          PROVE  began'[b] <= g[b] + Behind(b)'
      BY <2>0, <2>1, <2>5, <3>2 DEF Paced
    <3> QED
      BY <3>1, <3>2
  <2>9. ASSUME NEW r \in Nat, job' \in Jobs
        PROVE  /\ \A b \in Accounts : Seen(b)' /\ g[b] > RoundStart(r)' => Full(g, r)'
               /\ now' > RoundStart(r)' /\ Waiting' => Full(g, r)'
    <3>1. now > RoundStart(r) => Full(g, r)'
      BY <1>0, <2>3, <2>4, <2>9 DEF Paced
    <3>2. ASSUME NEW b \in Accounts, Seen(b)', g[b] > RoundStart(r)'
          PROVE  Full(g, r)'
      <4>1. CASE b = h
        BY <1>1, <2>0, <3>1, <3>2, <4>1
      <4>2. CASE b # h
        BY <1>0, <1>1, <2>0, <2>1, <2>3, <2>9, <3>2, <4>2 DEF Paced
      <4> QED
        BY <4>1, <4>2
    <3> QED
      BY <1>0, <1>1, <3>1, <3>2
  <2>10. Paced(g)'
    BY <2>7, <2>8, <2>9 DEF Paced
  <2> QED
    BY <2>0, <2>10 DEF InRounds
<1> QED
  BY <1>e, <1>3, <1>4 DEF Admit, Seen

\* While no account has been admitted and the time of ListAccounts is not over,
\* there is nothing to keep pace with.
LEMMA NobodyPaced ==
    ASSUME NEW admitted, \A a \in Accounts : ~Seen(a)',
           job' \in Jobs => now' <= asked' + ListCost(job)',
           job' \in Jobs => RoundCost(job)' \in Nat, now' \in Nat, asked' \in Nat
    PROVE  Paced(admitted)'
<1>1. ASSUME NEW r \in Nat, job' \in Jobs PROVE ~(now' > RoundStart(r)')
  <2>1. r * RoundCost(job)' \in Nat
    BY <1>1, Times
  <2>2. RoundStart(r)' = asked' + ListCost(job)' + r * RoundCost(job)'
    BY DEF RoundStart, ListCost
  <2>3. ListCost(job)' \in Nat
    BY BudgetAssumption DEF ListCost
  <2> QED
    BY <1>1, <2>1, <2>2, <2>3
<1>2. \A a \in Accounts : ~Working(a)'
  BY DEF Seen, Working
<1> QED
  BY <1>1, <1>2 DEF Paced

\* The rounds of the jobs, and what the invariants above add up to.
PaceInv == InTime /\ Members /\ InRounds /\ OnTime

LEMMA PaceInit == Init => PaceInv
<1> SUFFICES ASSUME Init PROVE PaceInv
  OBVIOUS
<1>0. TypeOK
  BY TypeInit
<1>1. /\ job = 1 /\ 1 \in Jobs /\ now = 0 /\ asked = 0
      /\ \A a \in Accounts : stage[a] = "idle"
  BY BudgetAssumption DEF Init, Jobs
<1>2. InTime
  BY <1>1, BudgetAssumption DEF InTime, Running
<1>3. OnTime
  BY <1>0, <1>1, JobsCostIs, JobCostIs DEF OnTime
<1>4. \A r \in Nat : RoundStart(r) \in Nat
  BY <1>0, <1>1, RoundStartIs
<1>5. Paced([a \in Accounts |-> 0])
  BY <1>1, <1>4 DEF Paced, Seen, Working
<1> QED
  BY <1>2, <1>3, <1>5, MembersInit DEF PaceInv, InRounds

LEMMA InRoundsStep == TypeOK /\ OverlapInv /\ PaceInv /\ [Next]_vars => InRounds'
<1> SUFFICES ASSUME TypeOK, OverlapInv, PaceInv, [Next]_vars PROVE InRounds'
  OBVIOUS
<1>0. InTime /\ Members /\ InRounds
  BY DEF PaceInv
<1>1. PICK admitted \in [Accounts -> Nat] : Paced(admitted)
  BY <1>0 DEF InRounds
<1>2. SUFFICES ASSUME ~Admit PROVE Paced(admitted)'
  BY <1>1, AdmitPaced DEF InRounds
<1>3. CASE ListAccounts
  <2>1. /\ UNCHANGED <<opts, slow, now, job, asked, stage>> /\ listing /\ now <= asked + Quick
    BY <1>3 DEF ListAccounts
  <2>2. \A a \in Accounts : ~Seen(a)'
    BY <1>0, <2>1 DEF Members, Seen
  <2>3. job \in Jobs /\ ListCost(job)' = Quick
    BY <1>0, <2>1 DEF Members, ListCost
  <2>4. RoundCost(job)' \in Nat
    BY <2>1, <2>3, SameCosts, RoundCostIs
  <2>5. now' \in Nat /\ asked' \in Nat
    BY <2>1 DEF TypeOK
  <2> QED
    BY <2>1, <2>2, <2>3, <2>4, <2>5, NobodyPaced
<1>4. CASE EndJob
  <2>1. /\ UNCHANGED <<opts, slow, now>> /\ asked' = now /\ job' = job + 1
        /\ \A a \in Accounts : ~Seen(a)'
    BY <1>4 DEF EndJob, Idle, Seen
  <2>2. now' \in Nat /\ asked' \in Nat
    BY <2>1 DEF TypeOK
  <2>3. job' \in Jobs => RoundCost(job)' \in Nat
    BY <2>1, SameCosts, RoundCostIs
  <2>4. ListCost(job)' \in Nat
    BY BudgetAssumption DEF ListCost
  <2> QED
    BY <2>1, <2>2, <2>3, <2>4, NobodyPaced
<1>5. CASE ListAccountsFails \/ Done \/ UNCHANGED vars
  <2>1. /\ UNCHANGED <<opts, slow, now, job, ids, asked, stage, began>>
        /\ \/ listing' = listing
           \/ listing /\ now' = now
    BY <1>5 DEF ListAccountsFails, Done
  <2>2. CASE listing' = listing
    <3>1. \A r : RoundStart(r)' = RoundStart(r)
      BY <2>1, SameCosts DEF RoundStart, ListCost
    <3>2. \A r : Early(admitted, r)' = Early(admitted, r)
      BY <2>1, <3>1 DEF Early, Seen
    <3>3. \A r : Full(admitted, r)' <=> Full(admitted, r)
      BY <2>1, <3>2 DEF Full
    <3>4. \A a \in Accounts : Behind(a)' = Behind(a)
      BY <2>1, SameCosts DEF Behind
    <3> QED
      BY <1>1, <2>1, <2>2, <3>1, <3>3, <3>4 DEF Paced, Waiting, Seen, Working
  <2>3. CASE listing
    <3>1. /\ \A a \in Accounts : ~Seen(a)'
          /\ job \in Jobs /\ ListCost(job)' = Quick /\ now <= asked + Quick
      BY <1>0, <2>1, <2>3 DEF Members, Seen, InTime, ListCost
    <3>2. RoundCost(job)' \in Nat
      BY <2>1, <3>1, SameCosts, RoundCostIs
    <3>3. now' \in Nat /\ asked' \in Nat
      BY <2>1 DEF TypeOK
    <3> QED
      BY <2>1, <3>1, <3>2, <3>3, NobodyPaced
  <2> QED
    BY <2>1, <2>2, <2>3
<1>6. CASE Tick
  BY <1>0, <1>1, <1>6, TickPaced
<1>7. ASSUME NEW a \in Accounts, AccountStep(a)
      PROVE  Paced(admitted)'
  BY <1>0, <1>1, <1>7, AccountPaced
<1> QED
  BY <1>2, <1>3, <1>4, <1>5, <1>6, <1>7 DEF Next, AccountStep

LEMMA OnTimeStep == TypeOK /\ OverlapInv /\ PaceInv /\ [Next]_vars => OnTime'
<1> SUFFICES ASSUME TypeOK, OverlapInv, PaceInv, [Next]_vars PROVE OnTime'
  OBVIOUS
<1>0. InTime /\ Members /\ InRounds /\ OnTime
  BY DEF PaceInv
<1>1. CASE Tick
  <2>1. PICK admitted \in [Accounts -> Nat] : Paced(admitted)
    BY <1>0 DEF InRounds
  <2> QED
    BY <1>0, <1>1, <2>1, TickOnTime
<1>2. CASE EndJob
  <2>1. /\ UNCHANGED <<opts, slow, now>> /\ asked' = now /\ job' = job + 1 /\ job \in Jobs
    BY <1>2 DEF EndJob, CanEndJob
  <2>2. /\ JobsCost(job - 1) \in Int /\ JobCost(job) \in Nat
        /\ JobsCost(job) = JobsCost(job - 1) + JobCost(job)
    BY <2>1, JobsCostIs, JobCostIs
  <2>3. now <= JobsCost(job)
    BY <1>0, <2>1, <2>2 DEF OnTime, TypeOK
  <2>4. SUFFICES ASSUME job + 1 \in Jobs
                 PROVE  now <= JobsCost(job) /\ now <= now + JobCost(job + 1)
    <3>1. (job + 1) - 1 = job
      BY DEF TypeOK
    <3> QED
      BY <2>1, <3>1, SameCosts DEF OnTime
  <2>5. JobCost(job + 1) \in Nat /\ now \in Nat
    BY <2>4, JobCostIs DEF TypeOK
  <2> QED
    BY <2>3, <2>5
<1>3. CASE UNCHANGED <<opts, slow, now, job, asked>>
  BY <1>0, <1>3, SameCosts DEF OnTime
<1>4. ASSUME NEW a \in Accounts, AccountStep(a)
      PROVE  OnTime'
  BY <1>3, <1>4, AccountFrame
<1> QED
  BY <1>1, <1>2, <1>3, <1>4
     DEF Next, AccountStep, ListAccounts, ListAccountsFails, Admit, Done

LEMMA PaceStep == TypeOK /\ OverlapInv /\ PaceInv /\ [Next]_vars => PaceInv'
BY InTimeStep, MembersStep, InRoundsStep, OnTimeStep DEF PaceInv

-----------------------------------------------------------------------------
(* What fails *)

\* A call that has failed is slow and one of the job's, and a job has failed
\* only for a call of its own whose failure is fatal.
FaultInv ==
    Fits =>
      /\ failed => job \in Jobs /\ Culprit(job)
      /\ \A a \in Accounts : \A api \in Apis : call[a][api] = "err" =>
            job \in Jobs /\ api \in Enabled[job] /\ <<a, api>> \in slow
      /\ \A j \in Jobs : outcome[j] = "error" => Culprit(j)

\* If the costs fit the budget, the deadline of the scrape is never reached.
LEMMA BeforeDeadline ==
    ASSUME TypeOK, PaceInv, Fits, job \in Jobs
    PROVE  now < opts.scrapeTimeout
<1>1. asked <= JobsCost(job - 1) /\ now <= asked + JobCost(job)
  BY DEF PaceInv, OnTime
<1>2. /\ JobsCost(job - 1) \in Int /\ JobCost(job) \in Nat
      /\ JobsCost(job) = JobsCost(job - 1) + JobCost(job)
      /\ JobsCost(job) <= JobsCost(Len(JobAccounts))
  BY JobsCostIs, JobCostIs
<1>3. JobsCost(Len(JobAccounts)) < opts.scrapeTimeout
  BY DEF Fits
<1>4. JobsCost(Len(JobAccounts)) \in Int
  <2>1. Len(JobAccounts) \in Jobs
    BY BudgetAssumption DEF Jobs
  <2> QED
    BY <2>1, JobsCostIs, JobCostIs
<1>5. now \in Nat /\ asked \in Nat /\ opts.scrapeTimeout \in Nat
  BY OptsTyped DEF TypeOK
<1> QED
  BY <1>1, <1>2, <1>3, <1>4, <1>5

\* Then only a slow call is given up.
LEMMA GivenUpIsSlow ==
    ASSUME TypeOK, OverlapInv, PaceInv, Fits, job \in Jobs
    PROVE  /\ listing => ~(now >= RestGivesUp(asked))
           /\ \A a \in Accounts :
                /\ stage[a] = "zones" /\ now >= RestGivesUp(began[a]) => <<a, "zones">> \in slow
                /\ stage[a] = "tags" /\ now >= RestGivesUp(began[a]) => <<a, "tags">> \in slow
                /\ \A api \in Apis : Running(a, api) /\ now >= EndsAt(a, api) => <<a, api>> \in slow
<1>0. now < opts.scrapeTimeout /\ now \in Nat /\ asked \in Nat /\ Quick \in Nat /\ RestTimeout \in Nat
  BY BeforeDeadline, BudgetAssumption DEF TypeOK
<1>1. \A t \in Nat : now >= RestGivesUp(t) => now >= t + RestTimeout
  <2> SUFFICES ASSUME NEW t \in Nat, now >= RestGivesUp(t) PROVE now >= t + RestTimeout
    OBVIOUS
  <2>1. RestGivesUp(t) \in {opts.scrapeTimeout, t + RestTimeout}
    BY RestCallsEnd
  <2>2. opts.scrapeTimeout \in Nat
    BY OptsTyped
  <2> QED
    BY <1>0, <2>1, <2>2
<1>2. Quick < RestTimeout /\ Quick < ClientTimeout
      /\ Quick < opts.requestTimeout /\ Quick < opts.dnsRequestTimeout
  BY DEF Fits
<1>3. InTime /\ \A a \in Accounts : began[a] \in Nat
  BY DEF PaceInv, TypeOK
<1>4. ASSUME listing PROVE ~(now >= RestGivesUp(asked))
  <2>1. now <= asked + Quick
    BY <1>3, <1>4 DEF InTime
  <2> QED
    BY <1>0, <1>1, <1>2, <2>1
<1>5. ASSUME NEW a \in Accounts, NEW c, now <= began[a] + Cost(a, c, RestTimeout),
             now >= RestGivesUp(began[a])
      PROVE  <<a, c>> \in slow
  <2>1. now >= began[a] + RestTimeout
    BY <1>1, <1>3, <1>5
  <2> QED
    BY <1>0, <1>2, <1>3, <1>5, <2>1 DEF Cost
<1>6. ASSUME NEW a \in Accounts, NEW api \in Apis, Running(a, api), now >= EndsAt(a, api)
      PROVE  <<a, api>> \in slow
  <2> SUFFICES ASSUME <<a, api>> \notin slow PROVE FALSE
    OBVIOUS
  <2>1. now <= began[a] + Quick
    BY <1>3, <1>6 DEF InTime, CallCost, Cost
  <2>2. EndsAt(a, api) \in {opts.scrapeTimeout, began[a] + Own(api), began[a] + ClientTimeout}
    BY CallsEnd
  <2>3. Quick < Own(api) /\ Own(api) \in Nat /\ ClientTimeout \in Nat /\ opts.scrapeTimeout \in Nat
    BY <1>2, OptsTyped, BudgetAssumption DEF Own
  <2> QED
    BY <1>0, <1>2, <1>3, <1>6, <2>1, <2>2, <2>3
<1>7. \A a \in Accounts :
         /\ stage[a] = "zones" => now <= began[a] + Cost(a, "zones", RestTimeout)
         /\ stage[a] = "tags" => now <= began[a] + Cost(a, "tags", RestTimeout)
  BY <1>3 DEF InTime, ZonesCost, TagsCost
<1> QED
  BY <1>4, <1>5, <1>6, <1>7

\* A slow fatal call of one of its accounts makes a job a culprit.
LEMMA CulpritIs ==
    ASSUME NEW j \in Jobs, NEW a \in AccountsOf(j), NEW c, <<a, c>> \in slow,
           \/ c = "zones"
           \/ c = "tags" /\ Filtered[j]
           \/ c \in Enabled[j] \cap FatalApis
    PROVE  Culprit(j)
BY DEF Culprit

LEMMA FaultStep == TypeOK /\ OverlapInv /\ PaceInv /\ FaultInv /\ [Next]_vars => FaultInv'
<1> SUFFICES ASSUME TypeOK, OverlapInv, PaceInv, FaultInv, [Next]_vars PROVE FaultInv'
  OBVIOUS
<1>s. opts' = opts /\ slow' = slow
  <2>1. ASSUME NEW a \in Accounts, AccountStep(a) PROVE opts' = opts /\ slow' = slow
    BY <2>1, AccountFrame
  <2> QED
    BY <2>1 DEF Next, AccountStep, ListAccounts, ListAccountsFails, Admit, EndJob, Tick, Done
<1> SUFFICES ASSUME Fits PROVE FaultInv'
  BY <1>s, SameCosts DEF FaultInv
<1>0. /\ failed => job \in Jobs /\ Culprit(job)
      /\ \A a \in Accounts : \A api \in Apis : call[a][api] = "err" =>
            job \in Jobs /\ api \in Enabled[job] /\ <<a, api>> \in slow
      /\ \A j \in Jobs : outcome[j] = "error" => Culprit(j)
  BY DEF FaultInv
<1>1. CASE ListAccounts \/ ListAccountsFails \/ Admit \/ Tick \/ Done \/ UNCHANGED vars
  <2>1. ~ListAccountsFails
    BY GivenUpIsSlow DEF ListAccountsFails, PaceInv, Members
  <2>2. UNCHANGED <<opts, slow, job, failed, call, outcome>>
    BY <1>1, <2>1 DEF ListAccounts, Admit, Tick, Done
  <2> QED
    BY <1>0, <2>2, SameCosts DEF FaultInv
<1>2. CASE EndJob
  <2>1. /\ UNCHANGED <<opts, slow>> /\ failed' = FALSE /\ job \in Jobs
        /\ outcome' = [outcome EXCEPT ![job] = IF failed THEN "error" ELSE "ok"]
        /\ \A a \in Accounts : \A api \in Apis : call'[a][api] = "off"
    BY <1>2 DEF EndJob, Idle, CanEndJob
  <2>2. \A j \in Jobs : outcome'[j] = "error" => Culprit(j)
    BY <1>0, <2>1 DEF TypeOK
  <2> QED
    BY <2>1, <2>2, SameCosts DEF FaultInv
<1>3. ASSUME NEW a \in Accounts, AccountStep(a)
      PROVE  FaultInv'
  <2>0. /\ UNCHANGED <<opts, slow, job, outcome>> /\ Working(a)
        /\ \A b \in Accounts \ {a} : call'[b] = call[b]
    BY <1>3, AccountFrame
  <2>1. job \in Jobs /\ a \in AccountsOf(job)
    BY <2>0 DEF PaceInv, Members, Seen, Working
  <2>2. failed' => Culprit(job)
    <3>1. CASE failed' = failed
      BY <1>0, <3>1
    <3>2. CASE ListZonesFails(a)
      <4>1. <<a, "zones">> \in slow
        BY <2>1, <3>2, GivenUpIsSlow DEF ListZonesFails
      <4> QED
        BY <2>1, <4>1, CulpritIs
    <3>3. CASE ZoneTagsFails(a) /\ Filtered[job]
      <4>1. <<a, "tags">> \in slow
        BY <2>1, <3>3, GivenUpIsSlow DEF ZoneTagsFails
      <4> QED
        BY <2>1, <3>3, <4>1, CulpritIs
    <3>4. CASE Join(a)
      <4>1. CASE \E api \in FatalApis : call[a][api] = "err"
        <5>1. PICK api \in FatalApis : call[a][api] = "err"
          BY <4>1
        <5>2. api \in Enabled[job] /\ <<a, api>> \in slow
          BY <1>0, <5>1 DEF Apis
        <5> QED
          BY <2>1, <5>1, <5>2, CulpritIs
      <4>2. CASE ~ \E api \in FatalApis : call[a][api] = "err"
        BY <1>0, <3>4, <4>2 DEF Join
      <4> QED
        BY <4>1, <4>2
    <3> QED
      BY <1>3, <3>1, <3>2, <3>3, <3>4
         DEF AccountStep, ZonesKnown, ZoneTags, ZoneTagsFails, Fetched, FetchFails
  <2>3. ASSUME NEW api \in Apis, call'[a][api] = "err"
        PROVE  api \in Enabled[job] /\ <<a, api>> \in slow
    <3>1. CASE call[a][api] = "err"
      BY <1>0, <3>1
    <3>2. CASE call[a][api] # "err"
      <4>1. FetchFails(a, api)
        <5>0. a \in DOMAIN call /\ call[a] \in [Apis -> {"off", "running", "ok", "err"}]
          BY DEF TypeOK
        <5>1. ~(ZonesKnown(a) \/ ListZonesFails(a) \/ Join(a))
          BY <2>3, <3>2 DEF ZonesKnown, ListZonesFails, Join
        <5>2. ~(ZoneTags(a) \/ ZoneTagsFails(a))
          BY <2>3, <3>2, <5>0 DEF ZoneTags, ZoneTagsFails, Select
        <5>3. PICK p \in Apis : Fetched(a, p) \/ FetchFails(a, p)
          BY <1>3, <5>1, <5>2 DEF AccountStep
        <5>4. ~Fetched(a, p)
          BY <2>3, <3>2, <5>0 DEF Fetched
        <5>5. p = api
          BY <2>3, <3>2, <5>0, <5>3, <5>4 DEF FetchFails
        <5> QED
          BY <5>3, <5>4, <5>5
      <4>2. <<a, api>> \in slow
        BY <2>1, <4>1, GivenUpIsSlow DEF FetchFails
      <4> QED
        BY <4>1, <4>2 DEF FetchFails, Running, OverlapInv, OnlyEnabled
    <3> QED
      BY <3>1, <3>2
  <2> QED
    BY <1>0, <2>0, <2>1, <2>2, <2>3, SameCosts DEF FaultInv
<1> QED
  BY <1>1, <1>2, <1>3 DEF Next, AccountStep

\* A job fails only for a slow call of its own whose failure is fatal, as soon
\* as its settings leave room for the worst case of all rounds: never for a slow
\* DNS call, for another job's slow call, or for want of time (collectAccount,
\* collectJob and its semaphore).
THEOREM JobsFailOnlyForTheirOwn == Spec => []FailsOnlyForItsOwn
<1>1. Init => OverlapInv /\ PaceInv /\ FaultInv
  <2>1. Init => FaultInv
    BY DEF Init, FaultInv
  <2> QED
    BY <2>1, OverlapInit, PaceInit
<1>2. FaultInv => FailsOnlyForItsOwn
  BY DEF FaultInv, FailsOnlyForItsOwn
<1> QED
  BY <1>1, <1>2, OverlapStep, PaceStep, FaultStep, BudgetTypeCorrect, PTL DEF Spec
=============================================================================
