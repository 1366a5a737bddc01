----------------------------- MODULE MCExporter -----------------------------
(***************************************************************************)
(* Values of Exporter's constants for TLC.                                 *)
(***************************************************************************)
EXTENDS Exporter, TLC

CONSTANTS absent

Unset == [k \in ServerKeys |-> absent]

Job(name, tags, groups) == [name |-> name, searchTags |-> tags, metricGroups |-> groups]

Two == <<Job("prod", <<"env">>, <<"zone", "dns">>), Job("all", << >>, << >>)>>
One == <<Job("all", << >>, << >>)>>

File(block, jobs) == [content |-> "ok", server |-> block, jobs |-> jobs]

\* Scrape timeouts below the grace period and equal to it; the flush may take longer.
Short == [Unset EXCEPT !.scrapeTimeout = 5, !.requestTimeout = 5, !.dnsRequestTimeout = 5]
Long  == [Short EXCEPT !.scrapeTimeout = 15]

\* Accepted: Short, and Long with a path of its own.  Refused: each check of Load
\* on its own, among them a lowered scrape timeout against the defaults.
Files ==
    {File(Short, Two), File([Long EXCEPT !.metricsPath = "/m"], One)}
    \cup {File([Unset EXCEPT ![k] = v], One) :
             k \in ServerKeys \ {"metricsPath"}, v \in {-1, 0}}
    \cup {File([Unset EXCEPT ![k] = 130], One) : k \in {"requestTimeout", "dnsRequestTimeout"}}
    \cup {File([Unset EXCEPT !.scrapeTimeout = 10], One),
          File([Short EXCEPT !.dnsRequestTimeout = absent], One)}
    \cup {File([Short EXCEPT !.metricsPath = path], One) :
             path \in {"", "metrics", "/healthz"}}
    \cup {File(Short, jobs) :
             jobs \in {<< >>, <<Job("", << >>, << >>)>>, <<Job("all", <<"">>, << >>)>>,
                       One \o <<Job("x", << >>, <<"zone", "ssl">>)>>}}
    \cup {[File(Short, One) EXCEPT !.content = c] : c \in {"missing", "malformed"}}

Flags == [parse |-> "parsed", version |-> FALSE, window |-> 60, lag |-> 300, limit |-> 10000,
          file |-> File(Short, Two), token |-> TRUE]

MCInvocations ==
    {[Flags EXCEPT !.file = f] : f \in Files}
    \cup {[Flags EXCEPT !.token = FALSE], [Flags EXCEPT !.version = TRUE],
          [Flags EXCEPT !.window = 0], [Flags EXCEPT !.lag = -1], [Flags EXCEPT !.limit = 0]}
    \cup {[Flags EXCEPT !.parse = p, !.version = v] : p \in {"help", "malformed"}, v \in BOOLEAN}

=============================================================================
