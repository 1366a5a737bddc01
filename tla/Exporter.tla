------------------------------ MODULE Exporter ------------------------------
(***************************************************************************)
(* The process of cmd/exporter/main.go: run() reads flags and              *)
(* configuration, registers the handlers, starts ListenAndServe in a       *)
(* goroutine of its own and waits for its error or for a signal; a signal  *)
(* drains the connections for at most shutdownGracePeriod.                 *)
(*                                                                         *)
(* A request for the metrics path runs Collect, seen here from outside:    *)
(* the jobs end one after the other, each with an outcome, all of them     *)
(* within ScrapeTimeout, and each outcome is written to the job_success    *)
(* gauge shared by all scrapes.  Requests are not limited in number, and a *)
(* client that gives up does not stop its Collect, whose context is not    *)
(* the request's.                                                          *)
(*                                                                         *)
(* Time is in seconds and passes in steps of Unit.  Code that waits for    *)
(* nothing takes no time: a step that is ready is taken before time        *)
(* passes, in any order with the other ready steps.                        *)
(***************************************************************************)
EXTENDS ConfigLoad

CONSTANTS
    Invocations,   \* command lines, each with the file and the token it finds
    MaxScrapes,    \* bound on the number of metrics requests
    Unit           \* seconds by which time advances

Grace    == 15   \* shutdownGracePeriod
Headroom == 10   \* what WriteTimeout adds to the scrape timeout

Results == {"ok", "error"}

\* The metrics requests, numbered as they come; any of them may be in flight.
Requests == 1..MaxScrapes

\* How flag.Parse may end.
ParseResults == {"parsed", "help", "malformed"}

\* Unit divides Grace and Headroom, and the scrape timeouts to be served, so that
\* time steps over no deadline.
ASSUME TimeAssumption ==
    /\ Unit \in {1, 5}
    /\ MaxScrapes \in Nat
    /\ \A i \in Invocations :
          Accepts(i.file, i.token) => Server(i.file).scrapeTimeout % Unit = 0

\* What parsing the flags and decoding a file may give: numbers where numbers are
\* due, and lists of jobs.
JobBlocks == [name : STRING, searchTags : Seq(STRING), metricGroups : Seq(STRING)]

ASSUME InvocationAssumption ==
    \A i \in Invocations :
       /\ i.parse \in ParseResults
       /\ \A k \in ServerKeys \ {"metricsPath"} :
             i.file.server[k] = Absent \/ i.file.server[k] \in Int
       /\ i.file.jobs \in Seq(JobBlocks)

VARIABLES
    args,       \* the invocation, one of Invocations
    pc,         \* where run() stands
    exit,       \* how the process ended
    cfg,        \* the configuration in use
    server,     \* the goroutine of ListenAndServe
    errCh,      \* the channel errCh, of capacity one
    signalled,  \* ctx of NotifyContext is done
    since,      \* seconds since Shutdown was called
    begun,      \* how many metrics requests have come
    phase,      \* [Requests -> its state]
    age,        \* [Requests -> seconds since its header was read]
    ended,      \* [Requests -> jobs its Collect has finished]
    left,       \* [Requests -> its client has gone]
    readyAt,    \* [Requests -> its age when its Collect returned]
    report,     \* [Requests -> the job_success values read for its response]
    jobSuccess, \* the gauge shared by all scrapes, by job name
    recorded    \* history: [Requests -> [name -> results recorded since it began]]

process == <<args, pc, exit, cfg, server, errCh, signalled, since>>
requests == <<begun, phase, age, ended, left, readyAt, report>>
vars == <<process, requests, jobSuccess, recorded>>

NoConfig == [server |-> defaults, jobs |-> << >>]

JobNames == {cfg.jobs[i].name : i \in DOMAIN cfg.jobs}

Active(s) == phase[s] \in {"collect", "flush"}

\* Variant: the write deadline is the scrape's deadline.
WriteTimeoutTight == cfg.server.scrapeTimeout

\* Variant: no write deadline is set.
WriteTimeoutNone == 1000

WriteTimeout == cfg.server.scrapeTimeout + Headroom

\* mux.Handle panics on a path the mux cannot register next to /healthz.
PathRegisters(path) == path \notin {"", "metrics", "/healthz"}

FlagsValid == args.window > 0 /\ args.lag >= 0 /\ args.limit > 0

\* What is local to the handlers of the requests in S is gone.
Forget(S) ==
    /\ age' = [s \in Requests |-> IF s \in S THEN 0 ELSE age[s]]
    /\ ended' = [s \in Requests |-> IF s \in S THEN 0 ELSE ended[s]]
    /\ left' = [s \in Requests |-> s \notin S /\ left[s]]
    /\ readyAt' = [s \in Requests |-> IF s \in S THEN 0 ELSE readyAt[s]]
    /\ report' = [s \in Requests |-> IF s \in S THEN << >> ELSE report[s]]
    /\ recorded' = [s \in Requests |-> IF s \in S THEN << >> ELSE recorded[s]]

Init ==
    /\ args \in Invocations
    /\ pc = "start" /\ exit = "none" /\ cfg = NoConfig
    /\ server = "off" /\ errCh = "empty"
    /\ signalled = FALSE /\ since = 0 /\ begun = 0
    /\ phase = [s \in Requests |-> "none"]
    /\ age = [s \in Requests |-> 0]
    /\ ended = [s \in Requests |-> 0]
    /\ left = [s \in Requests |-> FALSE]
    /\ readyAt = [s \in Requests |-> 0]
    /\ report = [s \in Requests |-> << >>]
    /\ jobSuccess = << >>
    /\ recorded = [s \in Requests |-> << >>]

-----------------------------------------------------------------------------
(* run() up to the select *)

\* run() returns, or the runtime ends the process: requests in flight are cut.
Exit(how) ==
    /\ pc' = "exit" /\ exit' = how
    /\ phase' = [s \in Requests |-> IF Active(s) THEN "killed" ELSE phase[s]]
    /\ Forget(Requests)
    /\ UNCHANGED <<args, cfg, server, errCh, signalled, since, begun, jobSuccess>>

\* flag.Parse ends the process by itself, with the usage: status 0 when it was
\* asked for, 2 for an unknown flag or a value that is none.
ParseExits ==
    /\ pc = "start" /\ args.parse # "parsed"
    /\ Exit(IF args.parse = "help" THEN "0" ELSE "2")

Parsed == pc = "start" /\ args.parse = "parsed"

ShowVersion == Parsed /\ args.version /\ Exit("0")

RefuseFlags == Parsed /\ ~args.version /\ ~FlagsValid /\ Exit("1")

Configured == Parsed /\ ~args.version /\ FlagsValid

RefuseConfig == Configured /\ ~Accepts(args.file, args.token) /\ Exit("1")

\* A panic ends the process with status 2.
PanicOnPath ==
    /\ Configured /\ Accepts(args.file, args.token)
    /\ ~PathRegisters(Server(args.file).metricsPath)
    /\ Exit("2")

\* Everything is set up, the signals are caught, the goroutine is started.
Start ==
    /\ Configured /\ Accepts(args.file, args.token)
    /\ PathRegisters(Server(args.file).metricsPath)
    /\ cfg' = Load(args.file)
    /\ pc' = "serve"
    /\ server' = "starting"
    /\ jobSuccess' = [n \in {args.file.jobs[i].name : i \in DOMAIN args.file.jobs} |-> "unset"]
    /\ UNCHANGED <<args, exit, errCh, signalled, since, requests, recorded>>

\* SIGINT or SIGTERM: ends the process until NotifyContext has taken it over,
\* cancels ctx after that.
Signal ==
    /\ pc # "exit" /\ ~signalled
    /\ IF pc = "start"
       THEN Exit("killed")
       ELSE /\ signalled' = TRUE
            /\ UNCHANGED <<args, pc, exit, cfg, server, errCh, since, requests,
                           jobSuccess, recorded>>

-----------------------------------------------------------------------------
(* The goroutine of ListenAndServe *)

Serving == UNCHANGED <<args, pc, exit, cfg, signalled, since, requests, jobSuccess, recorded>>

\* Variant: an error of ListenAndServe is logged and not sent.
ServeFailsSilently ==
    /\ pc = "serve" /\ server \in {"starting", "up"}
    /\ server' = "failed"
    /\ UNCHANGED errCh
    /\ Serving

\* The address cannot be listened on, or accepting fails later.
ServeFails ==
    /\ pc = "serve" /\ server \in {"starting", "up"}
    /\ server' = "failed"
    /\ errCh' = "error"
    /\ Serving

Listen ==
    /\ pc = "serve" /\ server = "starting"
    /\ server' = "up"
    /\ UNCHANGED errCh
    /\ Serving

\* Once Shutdown is called ListenAndServe returns ErrServerClosed, even if it
\* had not begun to listen.
ServerClosed ==
    /\ pc = "drain" /\ server \in {"starting", "up"}
    /\ server' = "closed"
    /\ errCh' = "closed"
    /\ Serving

-----------------------------------------------------------------------------
(* The select, and Shutdown *)

\* Variant: whatever ListenAndServe returns ends run() without an error.
ErrorIgnored == pc = "serve" /\ errCh # "empty" /\ Exit("0")

ErrorReceived ==
    /\ pc = "serve" /\ errCh # "empty"
    /\ Exit(IF errCh = "closed" THEN "0" ELSE "1")

SignalReceived ==
    /\ pc = "serve" /\ signalled
    /\ pc' = "drain"
    /\ since' = 0
    /\ UNCHANGED <<args, exit, cfg, server, errCh, signalled, requests,
                   jobSuccess, recorded>>

\* Shutdown has closed the listeners and finds no connection at work.
IsDrained == server \notin {"starting", "up"} /\ \A s \in Requests : ~Active(s)

Drained == pc = "drain" /\ IsDrained /\ Exit("0")

\* Variant: shutdownCtx is derived from ctx, which is already cancelled.
GraceIsOverAtOnce == TRUE

\* The context of Shutdown is done.
GraceIsOver == since >= Grace

\* Shutdown looks for idle connections at intervals, so at the end of the grace
\* period it may fail even if the last one has just become idle.
GraceOver == pc = "drain" /\ GraceIsOver /\ Exit("1")

-----------------------------------------------------------------------------
(* Requests for the metrics path *)

\* The names of the jobs and what has been recorded for them: nothing yet.
NothingRecorded == [n \in JobNames |-> {}]

Arrive(s) ==
    /\ pc = "serve" /\ server = "up" /\ s = begun + 1
    /\ begun' = s
    /\ phase' = [phase EXCEPT ![s] = "collect"]
    /\ recorded' = [recorded EXCEPT ![s] = NothingRecorded]
    /\ UNCHANGED <<process, age, ended, left, readyAt, report, jobSuccess>>

\* The result is noted with every scrape that is running.
Note(name, result) ==
    recorded' = [t \in Requests |->
                   IF phase[t] = "collect"
                   THEN [recorded[t] EXCEPT ![name] = @ \cup {result}]
                   ELSE recorded[t]]

\* Variant: a failed job is counted and skipped, its gauge is not touched.
JobEndsKeepingSuccess(s) ==
    /\ pc \in {"serve", "drain"} /\ phase[s] = "collect" /\ ended[s] < Len(cfg.jobs)
    /\ \E result \in Results :
         LET name == cfg.jobs[ended[s] + 1].name IN
           /\ jobSuccess' = IF result = "ok" THEN [jobSuccess EXCEPT ![name] = result]
                                             ELSE jobSuccess
           /\ Note(name, result)
    /\ ended' = [ended EXCEPT ![s] = @ + 1]
    /\ UNCHANGED <<process, begun, phase, age, left, readyAt, report>>

\* The next job of the loop in Collect returns and sets its gauge.
JobEnds(s) ==
    /\ pc \in {"serve", "drain"} /\ phase[s] = "collect" /\ ended[s] < Len(cfg.jobs)
    /\ \E result \in Results :
         LET name == cfg.jobs[ended[s] + 1].name IN
           /\ jobSuccess' = [jobSuccess EXCEPT ![name] = result]
           /\ Note(name, result)
    /\ ended' = [ended EXCEPT ![s] = @ + 1]
    /\ UNCHANGED <<process, begun, phase, age, left, readyAt, report>>

\* After the last job the gauge is read, one name after the other.
ReadGauge(s) ==
    /\ pc \in {"serve", "drain"} /\ phase[s] = "collect" /\ ended[s] = Len(cfg.jobs)
    /\ \E n \in JobNames \ DOMAIN report[s] :
         report' = [report EXCEPT ![s] =
                      [m \in DOMAIN report[s] \cup {n} |->
                         IF m = n THEN jobSuccess[n] ELSE report[s][m]]]
    /\ UNCHANGED <<process, begun, phase, age, ended, left, readyAt, jobSuccess, recorded>>

\* Collect has returned and all it sent is gathered.
Gathered(s) ==
    /\ pc \in {"serve", "drain"} /\ phase[s] = "collect" /\ ended[s] = Len(cfg.jobs)
    /\ JobNames \subseteq DOMAIN report[s]
    /\ phase' = [phase EXCEPT ![s] = "flush"]
    /\ readyAt' = [readyAt EXCEPT ![s] = age[s]]
    /\ recorded' = [recorded EXCEPT ![s] = << >>]
    /\ UNCHANGED <<process, begun, age, ended, left, report, jobSuccess>>

RequestEnds(s, how) ==
    /\ pc \in {"serve", "drain"} /\ phase[s] = "flush"
    /\ phase' = [phase EXCEPT ![s] = how]
    /\ Forget({s})
    /\ UNCHANGED <<process, begun, jobSuccess>>

Sent(s) == ~left[s] /\ RequestEnds(s, "sent")

\* The client is gone or the write deadline of the connection has passed.
WriteFails(s) == (left[s] \/ age[s] >= WriteTimeout) /\ RequestEnds(s, "cut")

\* Prometheus's own timeout, or a lost connection.
ClientGivesUp(s) ==
    /\ pc \in {"serve", "drain"} /\ Active(s) /\ ~left[s]
    /\ left' = [left EXCEPT ![s] = TRUE]
    /\ UNCHANGED <<process, begun, phase, age, ended, readyAt, report, jobSuccess, recorded>>

-----------------------------------------------------------------------------

\* A step is due now, so that no time passes before it.
Due ==
    \/ server = "starting"
    \/ pc = "serve" /\ (signalled \/ errCh # "empty")
    \/ pc = "drain" /\ (server = "up" \/ IsDrained \/ GraceIsOver)
    \/ \E s \in Requests : phase[s] = "collect" /\ age[s] >= cfg.server.scrapeTimeout
    \/ \E s \in Requests : phase[s] = "flush" /\ (left[s] \/ age[s] >= WriteTimeout)

Tick ==
    /\ pc \in {"serve", "drain"} /\ ~Due
    /\ pc = "drain" \/ \E s \in Requests : Active(s)
    /\ age' = [s \in Requests |-> IF Active(s) THEN age[s] + Unit ELSE age[s]]
    /\ since' = IF pc = "drain" THEN since + Unit ELSE since
    /\ UNCHANGED <<args, pc, exit, cfg, server, errCh, signalled, begun, phase,
                   ended, left, readyAt, report, jobSuccess, recorded>>

Main == \/ ParseExits \/ ShowVersion \/ RefuseFlags \/ RefuseConfig
        \/ PanicOnPath \/ Start
        \/ ErrorReceived \/ SignalReceived \/ Drained \/ GraceOver

Handler(s) == JobEnds(s) \/ ReadGauge(s) \/ Gathered(s) \/ Sent(s) \/ WriteFails(s)

Done == pc = "exit" /\ UNCHANGED vars

Next ==
    \/ Main \/ Signal \/ Tick \/ Done
    \/ Listen \/ ServeFails \/ ServerClosed
    \/ \E s \in Requests : Arrive(s) \/ Handler(s) \/ ClientGivesUp(s)

\* The goroutines run and time passes.  Nobody has to send a signal, accepting
\* need not fail, and a Collect or a write must end only when it is due.
Fairness ==
    /\ WF_vars(Main) /\ WF_vars(Tick) /\ WF_vars(Listen) /\ WF_vars(ServerClosed)
    /\ \A s \in Requests : WF_vars(Due /\ Handler(s))

Spec     == Init /\ [][Next]_vars
FairSpec == Spec /\ Fairness

-----------------------------------------------------------------------------
(* Properties *)

\* Types of the variables; a connection is at work no longer than its write
\* deadline, Collect and flushing together.
TypeOK ==
    /\ args \in Invocations
    /\ pc \in {"start", "serve", "drain", "exit"}
    /\ exit \in {"none", "0", "1", "2", "killed"}
    /\ server \in {"off", "starting", "up", "failed", "closed"}
    /\ errCh \in {"empty", "error", "closed"}
    /\ signalled \in BOOLEAN
    /\ since \in Nat /\ begun \in 0..MaxScrapes
    /\ phase \in [Requests -> {"none", "collect", "flush", "sent", "cut", "killed"}]
    /\ age \in [Requests -> Nat] /\ ended \in [Requests -> Nat] /\ readyAt \in [Requests -> Nat]
    /\ left \in [Requests -> BOOLEAN]
    /\ DOMAIN report = Requests /\ DOMAIN recorded = Requests
    /\ \A s \in Requests : age[s] <= cfg.server.scrapeTimeout + Headroom

\* The exit status tells an orderly end from a failure (main.go:35-38, 47,
\* 109-123): 0 only for -help, -version or a signal, and only if no scrape was cut;
\* 1 only for refused input, a server that failed or connections that outlast the
\* grace period; 2 only for a flag that cannot be parsed or a metrics path the mux
\* refuses.  A server that fails without a signal is never taken for an orderly end.
ExitMatchesCause ==
    /\ exit = "0" =>
         /\ args.parse = "help" \/ (args.parse = "parsed" /\ args.version) \/ signalled
         /\ \A s \in Requests : phase[s] # "killed"
    /\ exit = "1" =>
         /\ args.parse = "parsed"
         /\ \/ ~FlagsValid
            \/ ~Accepts(args.file, args.token)
            \/ errCh = "error"
            \/ since >= Grace
    /\ exit = "2" =>
         \/ args.parse = "malformed"
         \/ args.parse = "parsed" /\ ~PathRegisters(Server(args.file).metricsPath)

\* While it serves, one call's timeout never exceeds the scrape's, which the
\* budgets in Collect rely on (config.go:158-163), whether the values come from
\* the file or the defaults; and each job collects at least one group.
ServesSoundConfig ==
    pc \in {"serve", "drain"} =>
       /\ cfg.server.accountConcurrency > 0
       /\ cfg.server.requestTimeout \in 1..cfg.server.scrapeTimeout
       /\ cfg.server.dnsRequestTimeout \in 1..cfg.server.scrapeTimeout
       /\ cfg.jobs # << >>
       /\ \A i \in DOMAIN cfg.jobs : cfg.jobs[i].groups # {}

\* job_success in a response is a result recorded while that scrape ran, its
\* own or that of a scrape overlapping it (collector.go:350-358, 370): never
\* one of an earlier scrape, however scrapes overlap.
ResponseTruthful ==
    [][\A s \in Requests :
          phase[s] = "collect" /\ phase'[s] = "flush" =>
             \A n \in JobNames : report[s][n] \in recorded[s][n]]_vars

\* A response whose client still waits is cut only when it has had the headroom
\* the write deadline means to leave (main.go:95-97), even after a Collect that
\* took its whole timeout.
FlushHeadroom ==
    [][\A s \in Requests :
          phase[s] = "flush" /\ phase'[s] = "cut" /\ ~left[s] =>
             age[s] >= readyAt[s] + Headroom]_vars

\* A shutdown cuts a scrape in flight only after the whole grace period (only a
\* server that failed by itself cuts one at once), and the process is gone by the
\* end of it, whatever the scrapes in flight are doing, their clients gone or not.
GraceHonoured ==
    /\ since <= Grace
    /\ \A s \in Requests : phase[s] = "killed" => since >= Grace \/ errCh = "error"

\* The process ends after a signal, and when its server has failed: it never
\* stays up without serving.
StopsForGood ==
    /\ signalled ~> pc = "exit"
    /\ server = "failed" ~> pc = "exit"
=============================================================================
