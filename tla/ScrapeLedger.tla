---------------------------- MODULE ScrapeLedger ----------------------------
(***************************************************************************)
(* What one scrape promises Prometheus, whatever the goroutines inside it  *)
(* do: every zone belongs to at most one discovery job, the one whose turn *)
(* it was when the zone was taken; every series of a zone is published at  *)
(* most once, in the turn of its job and only if that job's metric groups  *)
(* include it; and a turn ends only when each zone taken in it has been    *)
(* published at least as a zone_info.                                      *)
(***************************************************************************)
EXTENDS Integers

CONSTANTS
    Zones,    \* the zones there are
    NumJobs,  \* the jobs of a scrape are 1..NumJobs
    Enabled,  \* [Jobs -> SUBSET Apis], the metric groups of a job
    Apis      \* the analytics series a zone can have

Jobs     == 1..NumJobs
Families == {"zone_info", "zone_tags_info"} \cup Apis

VARIABLES
    turn,    \* the job whose turn it is; NumJobs + 1 when the scrape is over
    owner,   \* [Zones -> 0 or the job the zone belongs to]
    series   \* [Families -> [Zones -> how often that series was published]]

ledger == <<turn, owner, series>>

Init ==
    /\ turn = 1
    /\ owner = [z \in Zones |-> 0]
    /\ series = [f \in Families |-> [z \in Zones |-> 0]]

\* The current job takes some zones nobody owns.
Take ==
    /\ owner' \in [Zones -> 0..NumJobs]
    /\ \A z \in Zones :
          owner'[z] # owner[z] => owner[z] = 0 /\ owner'[z] = turn
    /\ UNCHANGED <<turn, series>>

\* It publishes some series of its own zones that it has not published yet, of
\* the families that are always on or that its groups enable.
Publish ==
    /\ series' \in [Families -> [Zones -> {0, 1}]]
    /\ \A f \in Families, z \in Zones :
          series'[f][z] # series[f][z] =>
             /\ series[f][z] = 0
             /\ owner[z] = turn
             /\ f \in Apis => f \in Enabled[turn]
    /\ UNCHANGED <<turn, owner>>

EndTurn ==
    /\ turn <= NumJobs
    /\ \A z \in Zones : owner[z] = turn => series["zone_info"][z] = 1
    /\ turn' = turn + 1
    /\ UNCHANGED <<owner, series>>

Next == (turn <= NumJobs /\ (Take \/ Publish)) \/ EndTurn

Spec == Init /\ [][Next]_ledger
=============================================================================
