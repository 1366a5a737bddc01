-------------------------- MODULE ExporterProofs --------------------------
(***************************************************************************)
(* Proofs about Exporter for every set of command lines and files, every   *)
(* number of overlapping scrapes and both grains of time.                  *)
(***************************************************************************)
EXTENDS Exporter, TLAPS

USE DEF process, requests, vars

-----------------------------------------------------------------------------
(* Time in steps of Unit *)

Multiple(n) == n % Unit = 0

\* A step of Unit does not pass over a deadline that is a multiple of Unit.
LEMMA NoOvershoot ==
    ASSUME NEW a \in Nat, NEW b \in Nat, Multiple(a), Multiple(b), a < b
    PROVE  a + Unit \in Nat /\ Multiple(a + Unit) /\ a + Unit <= b
<1> USE DEF Multiple
<1>1. CASE Unit = 1
  BY <1>1
<1>2. CASE Unit = 5
  BY <1>2
<1> QED
  BY <1>1, <1>2, TimeAssumption

\* The constants of the code are multiples of Unit.
LEMMA Multiples ==
    /\ Multiple(0) /\ Multiple(120) /\ Multiple(15)
    /\ \A n \in Nat : Multiple(n) => Multiple(n + 10)
<1> USE DEF Multiple
<1>1. CASE Unit = 1
  BY <1>1
<1>2. CASE Unit = 5
  BY <1>2
<1> QED
  BY <1>1, <1>2, TimeAssumption

-----------------------------------------------------------------------------
(* What Load returns *)

\* The timeouts and the concurrency of a configuration, and its jobs.
Sound(c) ==
    /\ c.server.scrapeTimeout \in Nat /\ Multiple(c.server.scrapeTimeout)
    /\ c.server.accountConcurrency > 0
    /\ c.server.requestTimeout \in 1..c.server.scrapeTimeout
    /\ c.server.dnsRequestTimeout \in 1..c.server.scrapeTimeout
    /\ DOMAIN c.jobs = 1..Len(c.jobs) /\ Len(c.jobs) \in Nat

\* What the rest of the code relies on holds of whatever Load accepts.
LEMMA LoadIsSound ==
    ASSUME NEW i \in Invocations, Accepts(i.file, i.token)
    PROVE  /\ Sound(Load(i.file))
           /\ Load(i.file).jobs # << >>
           /\ \A k \in DOMAIN Load(i.file).jobs : Load(i.file).jobs[k].groups # {}
           /\ {Load(i.file).jobs[k].name : k \in DOMAIN Load(i.file).jobs}
                 = {i.file.jobs[k].name : k \in DOMAIN i.file.jobs}
<1> DEFINE f == i.file
           s == Server(f)
<1>1. /\ s.scrapeTimeout \in Int /\ s.accountConcurrency \in Int
      /\ s.requestTimeout \in Int /\ s.dnsRequestTimeout \in Int
  BY InvocationAssumption DEF Server, ServerKeys, defaults
<1>2. ServerValid(s, f) /\ f.jobs # << >> /\ f.jobs \in Seq(JobBlocks)
  BY InvocationAssumption DEF Accepts
<1>3. s.scrapeTimeout % Unit = 0
  BY TimeAssumption
<1>4. DOMAIN f.jobs = 1..Len(f.jobs) /\ Len(f.jobs) \in Nat /\ Len(f.jobs) # 0
  BY <1>2
<1>5. /\ Load(f).server = s
      /\ DOMAIN Load(f).jobs = 1..Len(f.jobs)
      /\ \A k \in 1..Len(f.jobs) :
            /\ Load(f).jobs[k].name = f.jobs[k].name
            /\ Load(f).jobs[k].groups = resolveMetricGroups(f.jobs[k].metricGroups)
  BY <1>4 DEF Load
<1>6. Load(f).jobs = [k \in 1..Len(f.jobs) |-> Load(f).jobs[k]]
  BY <1>4 DEF Load
<1>7. Len(Load(f).jobs) = Len(f.jobs)
  <2> DEFINE g(k) == Load(f).jobs[k]
             n == Len(f.jobs)
  <2>1. Load(f).jobs = [k \in 1..n |-> g(k)]
    BY <1>6
  <2>2. n \in Nat
    BY <1>4
  <2> HIDE DEF g, n
  <2>3. Len([k \in 1..n |-> g(k)]) = n
    BY <2>2
  <2> QED
    BY <2>1, <2>3 DEF n
<1>8. Sound(Load(f))
  BY <1>1, <1>2, <1>3, <1>4, <1>5, <1>7 DEF Sound, ServerValid, Multiple
<1>9. Load(f).jobs # << >>
  BY <1>4, <1>7
<1>10. ASSUME NEW k \in DOMAIN Load(f).jobs
       PROVE  Load(f).jobs[k].groups # {}
  <2> DEFINE names == f.jobs[k].metricGroups
  <2>1. names \in Seq(STRING)
    <3>1. f.jobs[k] \in JobBlocks
      BY <1>2, <1>4, <1>5
    <3> QED
      BY <3>1 DEF JobBlocks
  <2> HIDE DEF names
  <2>2. resolveMetricGroups(names) # {}
    <3>1. CASE names = << >>
      BY <3>1 DEF resolveMetricGroups, MetricGroups
    <3>2. CASE names # << >>
      <4>1. 1 \in DOMAIN names
        BY <2>1, <3>2
      <4> QED
        BY <3>2, <4>1 DEF resolveMetricGroups, ItemsOf
    <3> QED
      BY <3>1, <3>2
  <2> QED
    BY <1>5, <2>2 DEF names
<1> QED
  BY <1>4, <1>5, <1>8, <1>9, <1>10

-----------------------------------------------------------------------------
(* The inductive invariant *)

\* The process: what is known where run() stands, and of how it ended.
ProcInv ==
    /\ args \in Invocations
    /\ pc \in {"start", "serve", "drain", "exit"}
    /\ exit \in {"none", "0", "1", "2", "killed"}
    /\ server \in {"off", "starting", "up", "failed", "closed"}
    /\ errCh \in {"empty", "error", "closed"}
    /\ signalled \in BOOLEAN
    /\ pc = "start" => /\ server = "off" /\ errCh = "empty" /\ exit = "none" /\ since = 0
                       /\ cfg = NoConfig
    /\ pc = "serve" => since = 0 /\ errCh # "closed"
    /\ pc = "drain" => signalled
    /\ pc \in {"serve", "drain"} => exit = "none" /\ args.parse = "parsed"
    /\ ExitMatchesCause

\* The configuration: none yet, or what Load made of an accepted file.
CfgInv ==
    /\ Sound(cfg)
    /\ pc \in {"serve", "drain"} => Accepts(args.file, args.token) /\ cfg = Load(args.file)

\* The clock of a request stops at its deadlines.
RequestInTime(s) ==
    /\ Multiple(age[s])
    /\ s > begun => phase[s] = "none"
    /\ ~Active(s) => age[s] = 0
    /\ phase[s] = "collect" => age[s] <= cfg.server.scrapeTimeout
    /\ phase[s] = "flush" => /\ age[s] <= cfg.server.scrapeTimeout + 10
                             /\ readyAt[s] <= cfg.server.scrapeTimeout

\* And so does that of Shutdown.
ClockInv ==
    /\ since \in Nat /\ Multiple(since) /\ since <= 15
    /\ begun \in 0..MaxScrapes
    /\ phase \in [Requests -> {"none", "collect", "flush", "sent", "cut", "killed"}]
    /\ age \in [Requests -> Nat] /\ readyAt \in [Requests -> Nat]
    /\ left \in [Requests -> BOOLEAN]
    /\ \A s \in Requests : RequestInTime(s)

\* Requests are at work while the process is, and cut for a reason.
CutInv ==
    \A s \in Requests :
       /\ Active(s) => pc \in {"serve", "drain"}
       /\ phase[s] = "killed" => pc = "exit" /\ (since >= Grace \/ errCh = "error")

\* Each job that a scrape has finished has recorded a result since it began, the
\* gauge still has one of those, and so has what was read of it.
RequestRecords(s) ==
    /\ ~Active(s) => ended[s] = 0 /\ report[s] = << >>
    /\ phase[s] = "collect" =>
          /\ recorded[s] \in [JobNames -> SUBSET Results]
          /\ ended[s] <= Len(cfg.jobs)
          /\ \A i \in 1..ended[s] :
                jobSuccess[cfg.jobs[i].name] \in recorded[s][cfg.jobs[i].name]
          /\ \A n \in DOMAIN report[s] : n \in JobNames /\ report[s][n] \in recorded[s][n]

GaugeInv ==
    /\ ended \in [Requests -> Nat] /\ DOMAIN report = Requests /\ DOMAIN recorded = Requests
    /\ pc \in {"serve", "drain"} => DOMAIN jobSuccess = JobNames
    /\ \A s \in Requests : RequestRecords(s)

\* The inductive invariant.
EInv == ProcInv /\ CfgInv /\ ClockInv /\ CutInv /\ GaugeInv

-----------------------------------------------------------------------------
(* The invariant holds initially and no step breaks it *)

\* Nothing is configured, in flight or recorded when the process starts.
LEMMA InitInv == Init => EInv
<1> SUFFICES ASSUME Init PROVE EInv
  OBVIOUS
<1> USE DEF Init
<1>1. Sound(NoConfig)
  <2>1. /\ NoConfig.server.scrapeTimeout = 120 /\ NoConfig.server.accountConcurrency = 4
        /\ NoConfig.server.requestTimeout = 30 /\ NoConfig.server.dnsRequestTimeout = 120
    BY DEF NoConfig, defaults
  <2>2. DOMAIN NoConfig.jobs = 1..Len(NoConfig.jobs) /\ Len(NoConfig.jobs) \in Nat
    BY DEF NoConfig
  <2> QED
    BY <2>1, <2>2, Multiples DEF Sound
<1>2. ProcInv /\ CfgInv
  BY <1>1 DEF ProcInv, CfgInv, ExitMatchesCause
<1>3. ClockInv /\ CutInv
  BY Multiples, TimeAssumption DEF ClockInv, CutInv, RequestInTime, Active
<1>4. GaugeInv
  BY DEF GaugeInv, RequestRecords, Active
<1> QED
  BY <1>2, <1>3, <1>4 DEF EInv

\* An exit with no request at work cuts none; before serving none is.
LEMMA CutsNobody ==
    ASSUME EInv, NEW how, Exit(how), pc # "exit",
           pc = "start" \/ \A s \in Requests : ~Active(s)
    PROVE  \A s \in Requests : phase'[s] # "killed"
<1> SUFFICES ASSUME NEW s \in Requests PROVE phase'[s] # "killed"
  OBVIOUS
<1>1. ~Active(s) /\ phase[s] # "killed"
  BY DEF EInv, CutInv
<1> QED
  BY <1>1 DEF Exit

\* run() exits with a status for which there is a cause, and stands where its
\* channels say.
LEMMA ProcStep ==
    ASSUME EInv, [Next]_vars
    PROVE  ProcInv'
<1> USE DEF EInv, ProcInv, ExitMatchesCause, Grace, FlagsValid
<1>0. CASE ParseExits
  <2>1. PICK how \in {"0", "2"} :
            /\ Exit(how)
            /\ how = "0" => args.parse = "help"
            /\ how = "2" => args.parse # "parsed" /\ args.parse # "help"
    BY <1>0 DEF ParseExits
  <2>2. \A s \in Requests : phase'[s] # "killed"
    BY <1>0, <2>1, CutsNobody DEF ParseExits
  <2>3. how = "2" => args.parse = "malformed"
    BY <2>1, InvocationAssumption DEF ParseResults
  <2> QED
    BY <1>0, <2>1, <2>2, <2>3 DEF ParseExits, Exit
<1>1. CASE ShowVersion
  <2>1. \A s \in Requests : phase'[s] # "killed"
    BY <1>1, CutsNobody DEF ShowVersion, Parsed
  <2> QED
    BY <1>1, <2>1 DEF ShowVersion, Exit, Parsed
<1>2. CASE RefuseFlags
  BY <1>2 DEF RefuseFlags, Exit, Parsed
<1>3. CASE RefuseConfig
  BY <1>3 DEF RefuseConfig, Exit, Configured, Parsed
<1>4. CASE PanicOnPath
  BY <1>4 DEF PanicOnPath, Exit, Configured, Parsed
<1>5. CASE Start
  BY <1>5 DEF Start, Configured, Parsed
<1>6. CASE ErrorReceived
  <2>1. Exit("1") /\ errCh = "error"
    BY <1>6 DEF ErrorReceived
  <2>2. args.parse = "parsed"
    BY <1>6 DEF ErrorReceived
  <2> QED
    BY <2>1, <2>2 DEF Exit
<1>7. CASE SignalReceived
  BY <1>7 DEF SignalReceived
<1>8. CASE Drained
  <2>1. \A s \in Requests : phase'[s] # "killed"
    BY <1>8, CutsNobody DEF Drained, IsDrained
  <2> QED
    BY <1>8, <2>1 DEF Drained, Exit
<1>9. CASE GraceOver
  <2>1. Exit("1") /\ since >= 15 /\ args.parse = "parsed"
    BY <1>9 DEF GraceOver, GraceIsOver
  <2> QED
    BY <2>1 DEF Exit
<1>10. CASE Signal
  BY <1>10 DEF Signal, Exit
<1>11. CASE Tick
  BY <1>11 DEF Tick
<1>12. CASE Listen
  BY <1>12 DEF Listen, Serving
<1>13. CASE ServeFails
  BY <1>13 DEF ServeFails, Serving
<1>14. CASE ServerClosed
  BY <1>14 DEF ServerClosed, Serving
<1>15. CASE Done \/ UNCHANGED vars
  BY <1>15 DEF Done
<1>16. ASSUME NEW s \in Requests, Arrive(s) \/ Handler(s) \/ ClientGivesUp(s)
       PROVE  ProcInv'
  <2>1. UNCHANGED process
    BY <1>16 DEF Arrive, Handler, JobEnds, ReadGauge, Gathered, Sent, WriteFails, RequestEnds,
                 ClientGivesUp
  <2>2. pc \in {"serve", "drain"}
    BY <1>16 DEF Arrive, Handler, JobEnds, ReadGauge, Gathered, Sent, WriteFails, RequestEnds,
                 ClientGivesUp
  <2> QED
    BY <2>1, <2>2
<1> QED
  BY <1>0, <1>1, <1>2, <1>3, <1>4, <1>5, <1>6, <1>7, <1>8, <1>9, <1>10,
     <1>11, <1>12, <1>13, <1>14, <1>15, <1>16
  DEF Next, Main

\* The configuration changes once, to an accepted one.
LEMMA CfgStep ==
    ASSUME EInv, [Next]_vars
    PROVE  CfgInv'
<1> USE DEF EInv, ProcInv, CfgInv
<1>0. CASE ParseExits
  BY <1>0 DEF ParseExits, Exit
<1>1. CASE ShowVersion
  BY <1>1 DEF ShowVersion, Exit, Parsed
<1>2. CASE RefuseFlags
  BY <1>2 DEF RefuseFlags, Exit, Parsed
<1>3. CASE RefuseConfig
  BY <1>3 DEF RefuseConfig, Exit, Configured, Parsed
<1>4. CASE PanicOnPath
  BY <1>4 DEF PanicOnPath, Exit, Configured, Parsed
<1>5. CASE Start
  BY <1>5, LoadIsSound DEF Start, Configured, Parsed
<1>6. CASE ErrorReceived
  BY <1>6 DEF ErrorReceived, Exit
<1>7. CASE SignalReceived
  BY <1>7 DEF SignalReceived
<1>8. CASE Drained
  BY <1>8 DEF Drained, Exit, IsDrained
<1>9. CASE GraceOver
  BY <1>9 DEF GraceOver, Exit, GraceIsOver
<1>10. CASE Signal
  BY <1>10 DEF Signal, Exit
<1>11. CASE Tick
  BY <1>11 DEF Tick
<1>12. CASE Listen
  BY <1>12 DEF Listen, Serving
<1>13. CASE ServeFails
  BY <1>13 DEF ServeFails, Serving
<1>14. CASE ServerClosed
  BY <1>14 DEF ServerClosed, Serving
<1>15. CASE Done \/ UNCHANGED vars
  BY <1>15 DEF Done
<1>16. ASSUME NEW s \in Requests, Arrive(s) \/ Handler(s) \/ ClientGivesUp(s)
       PROVE  CfgInv'
  <2>1. UNCHANGED process
    BY <1>16 DEF Arrive, Handler, JobEnds, ReadGauge, Gathered, Sent, WriteFails, RequestEnds,
                 ClientGivesUp
  <2> QED
    BY <2>1
<1> QED
  BY <1>0, <1>1, <1>2, <1>3, <1>4, <1>5, <1>6, <1>7, <1>8, <1>9, <1>10,
     <1>11, <1>12, <1>13, <1>14, <1>15, <1>16
  DEF Next, Main

\* Requests in flight are cut only with the process, by a failed server or at the
\* end of the grace period.
LEMMA CutStep ==
    ASSUME EInv, [Next]_vars
    PROVE  CutInv'
<1> USE DEF EInv, ProcInv, ClockInv, CutInv, Active
<1>0. CASE ParseExits
  BY <1>0 DEF ParseExits, Exit, Forget
<1>1. CASE ShowVersion
  BY <1>1 DEF ShowVersion, Exit, Forget, Parsed
<1>2. CASE RefuseFlags
  BY <1>2 DEF RefuseFlags, Exit, Forget, Parsed
<1>3. CASE RefuseConfig
  BY <1>3 DEF RefuseConfig, Exit, Forget, Configured, Parsed
<1>4. CASE PanicOnPath
  BY <1>4 DEF PanicOnPath, Exit, Forget, Configured, Parsed
<1>5. CASE Start
  BY <1>5 DEF Start, Configured, Parsed
<1>6. CASE ErrorReceived
  BY <1>6 DEF ErrorReceived, Exit, Forget
<1>7. CASE SignalReceived
  BY <1>7 DEF SignalReceived
<1>8. CASE Drained
  BY <1>8 DEF Drained, Exit, Forget, IsDrained
<1>9. CASE GraceOver
  BY <1>9 DEF GraceOver, Exit, Forget, GraceIsOver
<1>10. CASE Signal
  BY <1>10 DEF Signal, Exit, Forget
<1>11. CASE Tick
  BY <1>11 DEF Tick
<1>12. CASE Done
  BY <1>12 DEF Done
<1>13. CASE Listen
  BY <1>13 DEF Listen, Serving
<1>14. CASE ServeFails
  BY <1>14 DEF ServeFails, Serving
<1>15. CASE ServerClosed
  BY <1>15 DEF ServerClosed, Serving
<1>16. ASSUME NEW s \in Requests, Arrive(s)
      PROVE  CutInv'
  BY <1>16 DEF Arrive, NothingRecorded
<1>17. ASSUME NEW s \in Requests, JobEnds(s)
      PROVE  CutInv'
  BY <1>17 DEF JobEnds, Note
<1>18. ASSUME NEW s \in Requests, ReadGauge(s)
      PROVE  CutInv'
  BY <1>18 DEF ReadGauge
<1>19. ASSUME NEW s \in Requests, Gathered(s)
      PROVE  CutInv'
  BY <1>19 DEF Gathered
<1>20. ASSUME NEW s \in Requests, Sent(s)
      PROVE  CutInv'
  BY <1>20 DEF Sent, RequestEnds, Forget
<1>21. ASSUME NEW s \in Requests, WriteFails(s)
      PROVE  CutInv'
  BY <1>21 DEF WriteFails, RequestEnds, Forget
<1>22. ASSUME NEW s \in Requests, ClientGivesUp(s)
      PROVE  CutInv'
  BY <1>22 DEF ClientGivesUp
<1>23. CASE UNCHANGED vars
  BY <1>23
<1> QED
  BY <1>0, <1>1, <1>2, <1>3, <1>4, <1>5, <1>6, <1>7, <1>8, <1>9, <1>10,
     <1>11, <1>12, <1>13, <1>14, <1>15, <1>16, <1>17, <1>18, <1>19, <1>20,
     <1>21, <1>22, <1>23
  DEF Next, Main, Handler

\* No step takes a clock past its deadline.
LEMMA ClockStep ==
    ASSUME EInv, [Next]_vars
    PROVE  ClockInv'
<1> USE DEF EInv, ClockInv
<1> DEFINE Clocks == <<cfg, since, begun, phase, age, readyAt, left>>
<1>a. ASSUME UNCHANGED Clocks PROVE ClockInv'
  BY <1>a DEF RequestInTime, Active
<1>b. ASSUME NEW how, Exit(how) PROVE ClockInv'
  <2>1. ASSUME NEW s \in Requests PROVE RequestInTime(s)'
    BY <1>b, <2>1, Multiples DEF RequestInTime, Active, Exit, Forget
  <2> QED
    BY <1>b, <2>1 DEF Exit, Forget
<1>c. ASSUME NEW s \in Requests, NEW how \in {"sent", "cut"}, RequestEnds(s, how)
      PROVE  ClockInv'
  <2>1. ASSUME NEW t \in Requests PROVE RequestInTime(t)'
    BY <1>c, <2>1, Multiples DEF RequestInTime, Active, RequestEnds, Forget
  <2> QED
    BY <1>c, <2>1 DEF RequestEnds, Forget
<1> HIDE DEF EInv, ClockInv
<1>0. CASE ParseExits
  BY <1>0, <1>b DEF ParseExits
<1>1. CASE ShowVersion
  BY <1>1, <1>b DEF ShowVersion
<1>2. CASE RefuseFlags
  BY <1>2, <1>b DEF RefuseFlags
<1>3. CASE RefuseConfig
  BY <1>3, <1>b DEF RefuseConfig
<1>4. CASE PanicOnPath
  BY <1>4, <1>b DEF PanicOnPath
<1>5. CASE Start
  <2>1. ASSUME NEW s \in Requests PROVE RequestInTime(s)'
    BY <1>5, <2>1 DEF EInv, ClockInv, CutInv, RequestInTime, Active, Start, Configured, Parsed
  <2> QED
    BY <1>5, <2>1 DEF EInv, ClockInv, Start
<1>6. CASE ErrorReceived
  BY <1>6, <1>b DEF ErrorReceived
<1>7. CASE SignalReceived
  BY <1>7, Multiples DEF EInv, ClockInv, RequestInTime, Active, SignalReceived
<1>8. CASE Drained
  BY <1>8, <1>b DEF Drained
<1>9. CASE GraceOver
  BY <1>9, <1>b DEF GraceOver
<1>10. CASE Signal
  BY <1>10, <1>a, <1>b DEF Signal
<1>11. CASE Tick
  <2>1. Sound(cfg) /\ Unit \in Nat
    BY TimeAssumption DEF EInv, CfgInv
  <2>2. since' \in Nat /\ Multiple(since') /\ since' <= 15
    <3>1. CASE pc = "drain"
      <4>1. since < 15
        BY <1>11, <3>1 DEF EInv, ClockInv, Tick, Due, GraceIsOver, Grace
      <4> QED
        BY <1>11, <3>1, <4>1, NoOvershoot, Multiples DEF EInv, ClockInv, Tick
    <3>2. CASE pc # "drain"
      BY <1>11, <3>2 DEF EInv, ClockInv, Tick
    <3> QED
      BY <3>1, <3>2
  <2>3. ASSUME NEW s \in Requests PROVE RequestInTime(s)'
    <3>1. RequestInTime(s) /\ age[s] \in Nat
      BY DEF EInv, ClockInv
    <3>2. phase'[s] = phase[s] /\ readyAt'[s] = readyAt[s] /\ cfg' = cfg /\ begun' = begun
      BY <1>11 DEF Tick
    <3>3. CASE phase[s] = "collect"
      <4>1. age[s] < cfg.server.scrapeTimeout
        BY <1>11, <2>1, <3>1, <3>3 DEF Tick, Due, Sound, RequestInTime
      <4>2. age'[s] = age[s] + Unit
        BY <1>11, <3>3 DEF Tick, Active
      <4>3. /\ age[s] + Unit \in Nat /\ Multiple(age[s] + Unit)
            /\ age[s] + Unit <= cfg.server.scrapeTimeout
        BY <2>1, <3>1, <4>1, NoOvershoot DEF Sound, RequestInTime
      <4> QED
        BY <3>1, <3>2, <3>3, <4>2, <4>3 DEF RequestInTime, Active
    <3>4. CASE phase[s] = "flush"
      <4>1. age[s] < cfg.server.scrapeTimeout + 10
        BY <1>11, <2>1, <3>1, <3>4 DEF Tick, Due, Sound, RequestInTime, WriteTimeout, Headroom
      <4>2. age'[s] = age[s] + Unit
        BY <1>11, <3>4 DEF Tick, Active
      <4>3. cfg.server.scrapeTimeout + 10 \in Nat /\ Multiple(cfg.server.scrapeTimeout + 10)
        <5> DEFINE t == cfg.server.scrapeTimeout
        <5>1. t \in Nat /\ Multiple(t)
          BY <2>1 DEF Sound
        <5> HIDE DEF t
        <5>2. t + 10 \in Nat /\ Multiple(t + 10)
          BY <5>1, Multiples
        <5> QED
          BY <5>2 DEF t
      <4>4. /\ age[s] + Unit \in Nat /\ Multiple(age[s] + Unit)
            /\ age[s] + Unit <= cfg.server.scrapeTimeout + 10
        BY <3>1, <4>1, <4>3, NoOvershoot DEF RequestInTime
      <4> QED
        BY <3>1, <3>2, <3>4, <4>2, <4>4 DEF RequestInTime, Active
    <3>5. CASE ~Active(s)
      BY <1>11, <3>1, <3>2, <3>5 DEF RequestInTime, Active, Tick
    <3> QED
      BY <3>3, <3>4, <3>5 DEF Active
  <2>4. age' \in [Requests -> Nat]
    BY <1>11, <2>1 DEF EInv, ClockInv, Tick
  <2> QED
    BY <1>11, <2>2, <2>3, <2>4 DEF EInv, ClockInv, Tick
<1>12. CASE Done
  BY <1>12, <1>a DEF Done
<1>13. CASE Listen
  BY <1>13, <1>a DEF Listen, Serving
<1>14. CASE ServeFails
  BY <1>14, <1>a DEF ServeFails, Serving
<1>15. CASE ServerClosed
  BY <1>15, <1>a DEF ServerClosed, Serving
<1>16. ASSUME NEW s \in Requests, Arrive(s)
      PROVE  ClockInv'
  <2>1. ASSUME NEW t \in Requests PROVE RequestInTime(t)'
    BY <1>16, <2>1 DEF EInv, CfgInv, Sound, ClockInv, RequestInTime, Active, Arrive, Requests
  <2> QED
    BY <1>16, <2>1, TimeAssumption DEF EInv, ClockInv, Arrive, Requests
<1>17. ASSUME NEW s \in Requests, JobEnds(s)
      PROVE  ClockInv'
  BY <1>17, <1>a DEF JobEnds
<1>18. ASSUME NEW s \in Requests, ReadGauge(s)
      PROVE  ClockInv'
  BY <1>18, <1>a DEF ReadGauge
<1>19. ASSUME NEW s \in Requests, Gathered(s)
      PROVE  ClockInv'
  <2>1. ASSUME NEW t \in Requests PROVE RequestInTime(t)'
    BY <1>19, <2>1 DEF EInv, CfgInv, Sound, ClockInv, RequestInTime, Active, Gathered
  <2> QED
    BY <1>19, <2>1 DEF EInv, ClockInv, Gathered
<1>20. ASSUME NEW s \in Requests, Sent(s)
      PROVE  ClockInv'
  BY <1>20, <1>c DEF Sent
<1>21. ASSUME NEW s \in Requests, WriteFails(s)
      PROVE  ClockInv'
  BY <1>21, <1>c DEF WriteFails
<1>22. ASSUME NEW s \in Requests, ClientGivesUp(s)
      PROVE  ClockInv'
  BY <1>22 DEF EInv, ClockInv, RequestInTime, Active, ClientGivesUp
<1>23. CASE UNCHANGED vars
  BY <1>23, <1>a
<1> QED
  BY <1>0, <1>1, <1>2, <1>3, <1>4, <1>5, <1>6, <1>7, <1>8, <1>9, <1>10,
     <1>11, <1>12, <1>13, <1>14, <1>15, <1>16, <1>17, <1>18, <1>19, <1>20,
     <1>21, <1>22, <1>23
  DEF Next, Main, Handler

\* No step makes the gauge older than a scrape that has set it.
LEMMA GaugeStep ==
    ASSUME EInv, [Next]_vars
    PROVE  GaugeInv'
<1> USE DEF EInv, GaugeInv
<1> DEFINE Gauge == <<cfg, phase, ended, report, recorded, jobSuccess>>
<1>a. ASSUME UNCHANGED Gauge, pc' \in {"serve", "drain"} => pc \in {"serve", "drain"}
      PROVE  GaugeInv'
  <2>1. JobNames' = JobNames
    BY <1>a DEF JobNames
  <2>2. ASSUME NEW s \in Requests PROVE RequestRecords(s)'
    BY <1>a, <2>1, <2>2 DEF RequestRecords, Active
  <2> QED
    BY <1>a, <2>1, <2>2
<1>b. ASSUME NEW how, Exit(how) PROVE GaugeInv'
  <2>1. ASSUME NEW s \in Requests PROVE RequestRecords(s)'
    BY <1>b, <2>1 DEF ClockInv, RequestInTime, RequestRecords, Active, Exit, Forget
  <2> QED
    BY <1>b, <2>1 DEF Exit, Forget
<1>c. ASSUME NEW s \in Requests, NEW how \in {"sent", "cut"}, RequestEnds(s, how)
      PROVE  GaugeInv'
  <2>1. ASSUME NEW t \in Requests PROVE RequestRecords(t)'
    <3>1. phase' = [phase EXCEPT ![s] = how] /\ Forget({s}) /\ UNCHANGED <<cfg, jobSuccess>>
      BY <1>c DEF RequestEnds
    <3>2. JobNames' = JobNames
      BY <3>1 DEF JobNames
    <3>3. CASE t = s
      <4>1. phase'[t] = how /\ ended'[t] = 0 /\ report'[t] = << >>
        BY <3>1, <3>3 DEF ClockInv, Forget
      <4> QED
        BY <4>1 DEF RequestRecords, Active
    <3>4. CASE t # s
      <4>1. /\ phase'[t] = phase[t] /\ ended'[t] = ended[t]
            /\ report'[t] = report[t] /\ recorded'[t] = recorded[t]
        BY <3>1, <3>4 DEF ClockInv, Forget
      <4> QED
        BY <3>1, <3>2, <4>1 DEF RequestRecords, Active
    <3> QED
      BY <3>3, <3>4
  <2> QED
    BY <1>c, <2>1 DEF RequestEnds, Forget, JobNames
<1> HIDE DEF EInv, GaugeInv
<1>0. CASE ParseExits
  BY <1>0, <1>b DEF ParseExits
<1>1. CASE ShowVersion
  BY <1>1, <1>b DEF ShowVersion
<1>2. CASE RefuseFlags
  BY <1>2, <1>b DEF RefuseFlags
<1>3. CASE RefuseConfig
  BY <1>3, <1>b DEF RefuseConfig
<1>4. CASE PanicOnPath
  BY <1>4, <1>b DEF PanicOnPath
<1>5. CASE Start
  <2>1. ASSUME NEW s \in Requests PROVE RequestRecords(s)'
    BY <1>5, <2>1 DEF EInv, GaugeInv, CutInv, RequestRecords, Active, Start, Configured, Parsed
  <2>2. DOMAIN jobSuccess' = JobNames'
    <3>1. /\ DOMAIN jobSuccess' = {args.file.jobs[i].name : i \in DOMAIN args.file.jobs}
          /\ cfg' = Load(args.file)
      BY <1>5 DEF Start
    <3>2. args \in Invocations /\ Accepts(args.file, args.token)
      BY <1>5 DEF Start, Configured, EInv, ProcInv
    <3> QED
      BY <3>1, <3>2, LoadIsSound DEF JobNames
  <2> QED
    BY <1>5, <2>1, <2>2 DEF EInv, GaugeInv, Start
<1>6. CASE ErrorReceived
  BY <1>6, <1>b DEF ErrorReceived
<1>7. CASE SignalReceived
  BY <1>7, <1>a DEF SignalReceived
<1>8. CASE Drained
  BY <1>8, <1>b DEF Drained
<1>9. CASE GraceOver
  BY <1>9, <1>b DEF GraceOver
<1>10. CASE Signal
  BY <1>10, <1>a, <1>b DEF Signal, EInv, ProcInv
<1>11. CASE Tick
  BY <1>11, <1>a DEF Tick
<1>12. CASE Done
  BY <1>12, <1>a DEF Done
<1>13. CASE Listen
  BY <1>13, <1>a DEF Listen, Serving
<1>14. CASE ServeFails
  BY <1>14, <1>a DEF ServeFails, Serving
<1>15. CASE ServerClosed
  BY <1>15, <1>a DEF ServerClosed, Serving
<1>16. ASSUME NEW s \in Requests, Arrive(s)
      PROVE  GaugeInv'
  <2>1. phase[s] = "none"
    BY <1>16 DEF EInv, ClockInv, RequestInTime, Arrive, Requests
  <2>2. ended[s] = 0 /\ report[s] = << >>
    BY <2>1 DEF EInv, GaugeInv, RequestRecords, Active
  <2>3. ASSUME NEW t \in Requests PROVE RequestRecords(t)'
    <3>1. CASE t = s
      <4>1. /\ phase'[t] = "collect" /\ recorded'[t] = NothingRecorded
            /\ ended'[t] = 0 /\ report'[t] = << >> /\ cfg' = cfg
        BY <1>16, <2>2, <3>1 DEF Arrive, EInv, ClockInv, GaugeInv
      <4>2. NothingRecorded \in [JobNames -> SUBSET Results] /\ Len(cfg.jobs) \in Nat
        BY DEF NothingRecorded, EInv, CfgInv, Sound
      <4> QED
        BY <4>1, <4>2 DEF RequestRecords, Active, JobNames
    <3>2. CASE t # s
      <4>1. JobNames' = JobNames /\ UNCHANGED <<cfg, ended, report, jobSuccess>>
        BY <1>16 DEF Arrive, JobNames
      <4>2. phase'[t] = phase[t] /\ recorded'[t] = recorded[t]
        BY <1>16, <3>2 DEF Arrive, EInv, ClockInv, GaugeInv
      <4>3. RequestRecords(t)
        BY DEF EInv, GaugeInv
      <4> QED
        BY <4>1, <4>2, <4>3 DEF RequestRecords, Active
    <3> QED
      BY <3>1, <3>2
  <2> QED
    BY <1>16, <2>3 DEF EInv, GaugeInv, Arrive, JobNames
<1>17. ASSUME NEW s \in Requests, JobEnds(s)
      PROVE  GaugeInv'
  <2> DEFINE name == cfg.jobs[ended[s] + 1].name
  <2>1. PICK result \in Results :
            jobSuccess' = [jobSuccess EXCEPT ![name] = result] /\ Note(name, result)
    BY <1>17 DEF JobEnds
  <2>2. /\ phase[s] = "collect" /\ ended[s] < Len(cfg.jobs) /\ ended[s] \in Nat
        /\ Sound(cfg) /\ DOMAIN jobSuccess = JobNames
        /\ ended' = [ended EXCEPT ![s] = @ + 1]
        /\ UNCHANGED <<cfg, pc, phase, report>>
    BY <1>17 DEF EInv, CfgInv, GaugeInv, RequestRecords, JobEnds
  <2>3. name \in JobNames
    BY <2>2 DEF JobNames, Sound
  <2>4. \A n \in JobNames : jobSuccess'[n] = IF n = name THEN result ELSE jobSuccess[n]
    BY <2>1, <2>2
  <2>5. ASSUME NEW t \in Requests PROVE RequestRecords(t)'
    <3>1. RequestRecords(t) /\ ended \in [Requests -> Nat]
      BY DEF EInv, GaugeInv
    <3>2. ended'[t] = IF t = s THEN ended[s] + 1 ELSE ended[t]
      BY <2>2, <3>1
    <3>3. CASE phase[t] = "collect"
      <4>1. recorded'[t] = [recorded[t] EXCEPT ![name] = @ \cup {result}]
        BY <2>1, <3>3 DEF Note
      <4>2. /\ recorded'[t] \in [JobNames -> SUBSET Results]
            /\ result \in recorded'[t][name]
            /\ \A n \in JobNames : recorded[t][n] \subseteq recorded'[t][n]
        BY <2>1, <2>3, <3>1, <3>3, <4>1 DEF RequestRecords
      <4>3. ended'[t] \in Nat /\ ended'[t] <= Len(cfg.jobs)
        BY <2>2, <3>1, <3>2, <3>3 DEF RequestRecords, Sound
      <4>4. ASSUME NEW i \in 1..ended'[t]
            PROVE  jobSuccess'[cfg.jobs[i].name] \in recorded'[t][cfg.jobs[i].name]
        <5>1. cfg.jobs[i].name \in JobNames
          BY <2>2, <4>3 DEF JobNames, Sound
        <5>2. CASE cfg.jobs[i].name = name
          BY <2>3, <2>4, <4>2, <5>2
        <5>3. CASE cfg.jobs[i].name # name
          <6>1. i \in 1..ended[t]
            BY <2>2, <3>1, <3>2, <4>3, <5>3 DEF RequestRecords
          <6> QED
            BY <2>4, <3>1, <3>3, <4>2, <5>1, <5>3, <6>1 DEF RequestRecords
        <5> QED
          BY <5>2, <5>3
      <4>5. /\ \A n \in DOMAIN report[t] : n \in JobNames /\ report[t][n] \in recorded'[t][n]
            /\ JobNames' = JobNames
        BY <2>2, <3>1, <3>3, <4>2 DEF RequestRecords, JobNames
      <4> QED
        BY <2>2, <3>3, <4>2, <4>3, <4>4, <4>5 DEF RequestRecords, Active
    <3>4. CASE phase[t] # "collect"
      BY <2>2, <3>1, <3>2, <3>4 DEF RequestRecords, Active
    <3> QED
      BY <3>3, <3>4
  <2>6. /\ ended' \in [Requests -> Nat] /\ DOMAIN report' = Requests
        /\ DOMAIN recorded' = Requests /\ DOMAIN jobSuccess' = JobNames'
    BY <2>1, <2>2 DEF EInv, GaugeInv, Note, JobNames
  <2> QED
    BY <2>2, <2>5, <2>6 DEF GaugeInv
<1>18. ASSUME NEW s \in Requests, ReadGauge(s)
      PROVE  GaugeInv'
  <2>1. PICK n \in JobNames \ DOMAIN report[s] :
            report' = [report EXCEPT ![s] =
                         [m \in DOMAIN report[s] \cup {n} |->
                            IF m = n THEN jobSuccess[n] ELSE report[s][m]]]
    BY <1>18 DEF ReadGauge
  <2>2. RequestRecords(s) /\ phase[s] = "collect" /\ ended[s] = Len(cfg.jobs) /\ Sound(cfg)
    BY <1>18 DEF EInv, CfgInv, GaugeInv, ReadGauge
  <2>3. PICK i \in 1..ended[s] : n = cfg.jobs[i].name
    BY <2>2 DEF JobNames, Sound
  <2>4. jobSuccess[n] \in recorded[s][n]
    BY <2>2, <2>3 DEF RequestRecords
  <2>5. ASSUME NEW t \in Requests PROVE RequestRecords(t)'
    <3>1. RequestRecords(t)
      BY DEF EInv, GaugeInv
    <3>2. CASE t = s
      <4>1. /\ DOMAIN report'[s] = DOMAIN report[s] \cup {n}
            /\ report'[s][n] = jobSuccess[n]
            /\ \A m \in DOMAIN report[s] : report'[s][m] = report[s][m]
        BY <2>1 DEF EInv, GaugeInv
      <4>2. /\ JobNames' = JobNames
            /\ UNCHANGED <<cfg, phase, ended, jobSuccess, recorded>>
        BY <1>18 DEF ReadGauge, JobNames
      <4>3. /\ \A m \in DOMAIN report'[s] :
                  m \in JobNames /\ report'[s][m] \in recorded[s][m]
            /\ Active(s)
        BY <2>2, <2>4, <3>2, <4>1 DEF RequestRecords, Active
      <4> QED
        BY <2>2, <3>2, <4>2, <4>3 DEF RequestRecords, Active
    <3>3. CASE t # s
      <4>1. JobNames' = JobNames /\ UNCHANGED <<cfg, phase, ended, jobSuccess, recorded>>
        BY <1>18 DEF ReadGauge, JobNames
      <4>2. report'[t] = report[t]
        BY <2>1, <3>3 DEF EInv, GaugeInv
      <4> QED
        BY <3>1, <4>1, <4>2 DEF RequestRecords, Active
    <3> QED
      BY <3>2, <3>3
  <2> QED
    BY <1>18, <2>1, <2>5 DEF EInv, GaugeInv, ReadGauge, JobNames
<1>19. ASSUME NEW s \in Requests, Gathered(s)
      PROVE  GaugeInv'
  <2>1. ASSUME NEW t \in Requests PROVE RequestRecords(t)'
    <3>1. JobNames' = JobNames /\ UNCHANGED <<cfg, ended, report, jobSuccess>>
      BY <1>19 DEF Gathered, JobNames
    <3>2. /\ phase'[t] = IF t = s THEN "flush" ELSE phase[t]
          /\ t # s => recorded'[t] = recorded[t]
          /\ phase[s] = "collect"
      BY <1>19 DEF Gathered, EInv, ClockInv, GaugeInv
    <3>3. RequestRecords(t)
      BY DEF EInv, GaugeInv
    <3> QED
      BY <3>1, <3>2, <3>3 DEF RequestRecords, Active
  <2> QED
    BY <1>19, <2>1 DEF EInv, GaugeInv, Gathered, JobNames
<1>20. ASSUME NEW s \in Requests, Sent(s)
      PROVE  GaugeInv'
  BY <1>20, <1>c DEF Sent
<1>21. ASSUME NEW s \in Requests, WriteFails(s)
      PROVE  GaugeInv'
  BY <1>21, <1>c DEF WriteFails
<1>22. ASSUME NEW s \in Requests, ClientGivesUp(s)
      PROVE  GaugeInv'
  BY <1>22, <1>a DEF ClientGivesUp
<1>23. CASE UNCHANGED vars
  BY <1>23, <1>a
<1> QED
  BY <1>0, <1>1, <1>2, <1>3, <1>4, <1>5, <1>6, <1>7, <1>8, <1>9, <1>10,
     <1>11, <1>12, <1>13, <1>14, <1>15, <1>16, <1>17, <1>18, <1>19, <1>20,
     <1>21, <1>22, <1>23
  DEF Next, Main, Handler

\* All parts together.
LEMMA StepInv == EInv /\ [Next]_vars => EInv'
BY ProcStep, CfgStep, CutStep, ClockStep, GaugeStep DEF EInv

\* Only the end of Collect starts the response.
LEMMA OnlyGathered ==
    ASSUME EInv, [Next]_vars, NEW s \in Requests, phase[s] = "collect", phase'[s] = "flush"
    PROVE  Gathered(s)
<1> USE DEF EInv, ClockInv
<1>1. CASE Main \/ Signal
  BY <1>1 DEF Main, Exit, Active, Signal, Start, SignalReceived, ParseExits, ShowVersion,
              RefuseFlags, RefuseConfig, PanicOnPath, ErrorReceived, Drained, GraceOver
<1>2. CASE Tick \/ Done \/ Listen \/ ServeFails \/ ServerClosed \/ UNCHANGED vars
  BY <1>2 DEF Tick, Done, Listen, ServeFails, ServerClosed, Serving
<1>3. ASSUME NEW t \in Requests, Arrive(t) \/ Handler(t) \/ ClientGivesUp(t)
      PROVE  Gathered(s)
  BY <1>3 DEF Arrive, Handler, JobEnds, ReadGauge, Gathered, Sent, WriteFails, RequestEnds,
              ClientGivesUp
<1> QED
  BY <1>1, <1>2, <1>3 DEF Next

\* Only a failed write cuts a response.
LEMMA OnlyWriteFails ==
    ASSUME EInv, [Next]_vars, NEW s \in Requests, phase[s] = "flush", phase'[s] = "cut"
    PROVE  WriteFails(s)
<1> USE DEF EInv, ClockInv
<1>1. CASE Main \/ Signal
  BY <1>1 DEF Main, Exit, Active, Signal, Start, SignalReceived, ParseExits, ShowVersion,
              RefuseFlags, RefuseConfig, PanicOnPath, ErrorReceived, Drained, GraceOver
<1>2. CASE Tick \/ Done \/ Listen \/ ServeFails \/ ServerClosed \/ UNCHANGED vars
  BY <1>2 DEF Tick, Done, Listen, ServeFails, ServerClosed, Serving
<1>3. ASSUME NEW t \in Requests, Arrive(t) \/ Handler(t) \/ ClientGivesUp(t)
      PROVE  WriteFails(s)
  BY <1>3 DEF Arrive, Handler, JobEnds, ReadGauge, Gathered, Sent, WriteFails, RequestEnds,
              ClientGivesUp
<1> QED
  BY <1>1, <1>2, <1>3 DEF Next

-----------------------------------------------------------------------------
(* Theorems *)

\* The invariant holds of every reachable state of the process.
THEOREM ExporterInvariance == Spec => []EInv
BY InitInv, StepInv, PTL DEF Spec

\* All variables keep their types, and no connection is at work longer than the
\* write deadline (main.go:95-97).
THEOREM ExporterTypeCorrect == Spec => []TypeOK
<1>1. EInv => TypeOK
  <2> SUFFICES ASSUME EInv PROVE TypeOK
    OBVIOUS
  <2>1. ASSUME NEW s \in Requests PROVE age[s] <= cfg.server.scrapeTimeout + Headroom
    <3>1. RequestInTime(s) /\ age[s] \in Nat /\ cfg.server.scrapeTimeout \in Nat
      BY DEF EInv, ClockInv, CfgInv, Sound
    <3>2. phase[s] \in {"none", "collect", "flush", "sent", "cut", "killed"}
      BY DEF EInv, ClockInv
    <3> QED
      BY <3>1, <3>2 DEF RequestInTime, Active, Headroom
  <2> QED
    BY <2>1 DEF EInv, ProcInv, ClockInv, GaugeInv, TypeOK
<1> QED
  BY <1>1, ExporterInvariance, PTL

\* The exit status has its cause, flag.Parse's own exits and panics included: a
\* failure of the server is not reported as an orderly end unless a signal came, and
\* an orderly end cuts no scrape (main.go:35-38, 47, 109-123).
THEOREM StatusHasCause == Spec => []ExitMatchesCause
<1>1. EInv => ExitMatchesCause
  BY DEF EInv, ProcInv
<1> QED
  BY <1>1, ExporterInvariance, PTL

\* Whatever serves has passed Load: its timeouts are in order and each of its jobs
\* collects something (config.go:146-182).
THEOREM ConfigurationIsSound == Spec => []ServesSoundConfig
<1>1. EInv => ServesSoundConfig
  <2> SUFFICES ASSUME EInv, pc \in {"serve", "drain"}
               PROVE  /\ Sound(cfg) /\ cfg.jobs # << >>
                      /\ \A i \in DOMAIN cfg.jobs : cfg.jobs[i].groups # {}
    BY DEF Sound, ServesSoundConfig
  <2> QED
    BY LoadIsSound DEF EInv, ProcInv, CfgInv
<1> QED
  BY <1>1, ExporterInvariance, PTL

\* The grace period is granted to scrapes in flight and ends all the same
\* (main.go:117-121).
THEOREM GraceIsHonoured == Spec => []GraceHonoured
<1>1. EInv => GraceHonoured
  BY DEF EInv, ClockInv, CutInv, GraceHonoured, Grace
<1> QED
  BY <1>1, ExporterInvariance, PTL

\* However many scrapes overlap, no response carries a result of an earlier one
\* (collector.go:350-358, 370).
THEOREM ResponsesAreTruthful == Spec => ResponseTruthful
<1>1. EInv /\ [Next]_vars =>
        \A s \in Requests :
           phase[s] = "collect" /\ phase'[s] = "flush" =>
              \A n \in JobNames : report[s][n] \in recorded[s][n]
  <2> SUFFICES ASSUME EInv, [Next]_vars, NEW s \in Requests,
                      phase[s] = "collect", phase'[s] = "flush", NEW n \in JobNames
               PROVE  report[s][n] \in recorded[s][n]
    OBVIOUS
  <2>1. n \in DOMAIN report[s]
    BY OnlyGathered DEF Gathered
  <2>2. RequestRecords(s)
    BY DEF EInv, GaugeInv
  <2> QED
    BY <2>1, <2>2 DEF RequestRecords
<1> QED
  BY <1>1, ExporterInvariance, PTL DEF Spec, ResponseTruthful

\* The write deadline leaves the headroom after any Collect (main.go:95-97).
THEOREM HeadroomIsLeft == Spec => FlushHeadroom
<1>1. EInv /\ [Next]_vars =>
        \A s \in Requests :
           phase[s] = "flush" /\ phase'[s] = "cut" /\ ~left[s] =>
              age[s] >= readyAt[s] + Headroom
  <2> SUFFICES ASSUME EInv, [Next]_vars, NEW s \in Requests,
                      phase[s] = "flush", phase'[s] = "cut", ~left[s]
               PROVE  age[s] >= readyAt[s] + Headroom
    OBVIOUS
  <2>1. age[s] >= cfg.server.scrapeTimeout + Headroom
    BY OnlyWriteFails DEF WriteFails, WriteTimeout
  <2>2. /\ readyAt[s] <= cfg.server.scrapeTimeout
        /\ readyAt[s] \in Nat /\ age[s] \in Nat /\ cfg.server.scrapeTimeout \in Nat
    BY DEF EInv, ClockInv, RequestInTime, CfgInv, Sound
  <2> QED
    BY <2>1, <2>2 DEF Headroom
<1> QED
  BY <1>1, ExporterInvariance, PTL DEF Spec, FlushHeadroom
=============================================================================
