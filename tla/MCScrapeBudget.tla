--------------------------- MODULE MCScrapeBudget ---------------------------
(***************************************************************************)
(* Values of ScrapeBudget's constants for TLC.                             *)
(***************************************************************************)
EXTENDS ScrapeBudget

CONSTANTS a1, a2, a3

\* Three accounts named (one twice), then those ListAccounts answers.
MCJobAccounts == <<<<a1, a2, a1>>, << >>>>
MCAllAccounts == <<a3, a1>>
MCFiltered    == <<TRUE, FALSE>>
MCEnabled     == <<{"http", "dns_analytics"}, {"http", "waf", "dns_analytics"}>>

Setting(scrape, request, dns, concurrency) ==
    [scrapeTimeout |-> scrape, requestTimeout |-> request,
     dnsRequestTimeout |-> dns, accountConcurrency |-> concurrency]

\* Budgets that fit and budgets that do not, for one account at a time or two.
MCSettings == {Setting(22, 2, 3, 1), Setting(22, 2, 3, 2), Setting(12, 3, 12, 2), Setting(6, 2, 2, 1)}

MCSlowCalls ==
    {{}, {<<a1, "dns_analytics">>}, {<<a1, "dns_analytics">>, <<a2, "dns_analytics">>},
     {<<a2, "http">>}, {<<a3, "waf">>, <<a1, "dns_analytics">>}, {<<a2, "zones">>}, {<<a1, "tags">>}}

\* One job without filters over all accounts, with room for each of them.
TagsAccounts == <<<< >>>>
TagsFiltered == <<FALSE>>
TagsEnabled  == <<{"http", "dns_analytics"}>>
TagsSettings == {Setting(12, 3, 12, 4)}
TagsSlow     == {{<<a1, "tags">>}}
=============================================================================
