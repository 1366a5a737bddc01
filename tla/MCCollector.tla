---------------------------- MODULE MCCollector ----------------------------
(***************************************************************************)
(* Values of Collector's constants for TLC.                                *)
(***************************************************************************)
EXTENDS Collector, TLC

CONSTANTS a1, a2, a3, z1, z2, z3, internal

MCAccounts == {a1, a2}
MCZones    == {z1, z2, z3}

\* Two jobs over the same accounts: "prod" filters by tag, "all" does not.
OverlapNames    == 1 :> "prod" @@ 2 :> "all"
SameNames       == 1 :> "prod" @@ 2 :> "prod"
OverlapFiltered == 1 :> TRUE @@ 2 :> FALSE
OverlapEnabled  == 1 :> {"http", "dns_analytics"} @@ 2 :> {"http", "dns_analytics"}
OverlapAccounts == 1 :> <<a1, a2, a1>> @@ 2 :> << >>
MCAccountLists  == {<<a2, a1>>}
\* Account a1's listing repeats z1, as a listing whose pages shift may do; z3
\* may be created in a2 while the scrape runs, or z1 be moved there.
MCZoneLists     == a1 :> {<<z1, z2, z1>>} @@ a2 :> {<<z3>>, <<z1>>, << >>}
\* z2 may be tagged between two answers.
MCTagAnswers    == 1 :> {{z1}, {z2}} @@ 2 :> {{z1}}
MCHttpZones     == {z1, z3}
Row(z, count)   == [zone |-> z, type |-> "A", count |-> count]
\* With a limit of two, whoever claims z1 is answered a full page, whoever
\* claims z2 only is not.
MCDNSRows       == {Row(z1, 1), Row(z3, 1), Row(internal, 1)}

\* The estimate of the out-of-scope row changes between two answers.
DriftingRows    == {Row(z1, 1), Row(z2, 1), Row(internal, 1), Row(internal, 2)}

\* One account for both jobs.
GroupsAccounts  == 1 :> <<a1>> @@ 2 :> << >>
GroupsLists     == {<<a1>>, << >>}
GroupsZoneLists == a1 :> {<<z1, z2>>}
GroupsTags      == 1 :> {{z1}} @@ 2 :> {{}}

\* Three accounts one after the other for three of the groups, then one of
\* them again with all four calls.
SerialEnabled   == 1 :> {"http", "waf", "errors"} @@ 2 :> Apis
SerialAccounts  == 1 :> <<a1, a2, a3>> @@ 2 :> << >>
SerialLists     == {<<a2>>, << >>}
SerialZoneLists == a1 :> {<<z1>>} @@ a2 :> {<<z2, z1>>} @@ a3 :> {<<z3>>}
SerialTags      == 1 :> {{z1, z3}, {}} @@ 2 :> {{}}
SerialRows      == {Row(z1, 1), Row(z2, 1), Row(internal, 1)}
=============================================================================
