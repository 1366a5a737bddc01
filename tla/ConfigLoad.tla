----------------------------- MODULE ConfigLoad -----------------------------
(***************************************************************************)
(* config.Load (internal/config/config.go): the file is decoded over the   *)
(* defaults and the result is validated as a whole.  Durations are in      *)
(* seconds.  A key the file leaves out, or sets to null, is Absent.        *)
(* The listen address is left out; any one is accepted.                    *)
(***************************************************************************)
EXTENDS Integers, Sequences

CONSTANT Absent

ServerKeys == {"metricsPath", "scrapeTimeout", "accountConcurrency",
               "requestTimeout", "dnsRequestTimeout"}

defaults ==
    [metricsPath        |-> "/metrics",
     scrapeTimeout      |-> 120,
     accountConcurrency |-> 4,
     requestTimeout     |-> 30,
     dnsRequestTimeout  |-> 120]

MetricGroups == {"zone", "dns", "firewall", "errors"}

ItemsOf(s) == {s[i] : i \in DOMAIN s}

\* A file: whether it can be read and parsed, its server block (a function on
\* ServerKeys) and discovery.jobs.  searchTags is the sequence of the filters'
\* keys, metricGroups the sequence of names as written.

\* resolveMetricGroups: the groups a job collects; an empty list means all.
resolveMetricGroups(names) == IF names = << >> THEN MetricGroups ELSE ItemsOf(names)

\* yaml.Unmarshal into defaults(): only the keys present are overwritten.
Server(file) ==
    [k \in ServerKeys |->
        IF file.server[k] = Absent THEN defaults[k] ELSE file.server[k]]

JobValid(job) ==
    /\ job.name # ""
    /\ \A i \in DOMAIN job.searchTags : job.searchTags[i] # ""
    /\ ItemsOf(job.metricGroups) \subseteq MetricGroups

\* Variant: the per-call timeouts are compared with the scrape's only when the
\* file sets them.
ValidWhenSet(s, file) ==
    /\ s.scrapeTimeout > 0 /\ s.accountConcurrency > 0
    /\ s.requestTimeout > 0 /\ s.dnsRequestTimeout > 0
    /\ file.server.requestTimeout # Absent => s.requestTimeout <= s.scrapeTimeout
    /\ file.server.dnsRequestTimeout # Absent => s.dnsRequestTimeout <= s.scrapeTimeout

\* The checks on the server block, of the merged values s.
ServerValid(s, file) ==
    /\ s.scrapeTimeout > 0
    /\ s.accountConcurrency > 0
    /\ s.requestTimeout > 0
    /\ s.dnsRequestTimeout > 0
    /\ s.requestTimeout <= s.scrapeTimeout
    /\ s.dnsRequestTimeout <= s.scrapeTimeout

\* Load returns no error: the file is read, it is parsed, the token is set, and
\* what comes out is valid.  metricsPath is not looked at.
Accepts(file, token) ==
    /\ file.content = "ok"
    /\ token
    /\ ServerValid(Server(file), file)
    /\ file.jobs # << >>
    /\ \A i \in DOMAIN file.jobs : JobValid(file.jobs[i])

\* The configuration Load returns: the server block, and of each job its name
\* and its groups.
Load(file) ==
    [server |-> Server(file),
     jobs   |-> [i \in DOMAIN file.jobs |->
                   [name   |-> file.jobs[i].name,
                    groups |-> resolveMetricGroups(file.jobs[i].metricGroups)]]]
=============================================================================
