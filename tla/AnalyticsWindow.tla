-------------------------- MODULE AnalyticsWindow --------------------------
(***************************************************************************)
(* The time window of successive scrapes.  Collect asks every dataset for  *)
(* the half-open window that ends Lag before now and is Window long, with  *)
(* both ends rendered to whole seconds; the service answers with the       *)
(* buckets whose timestamp falls into it (whole minutes for                *)
(* httpRequests1mGroups, events for the adaptive datasets).  Nothing is    *)
(* remembered between scrapes: whether each bucket is counted once is up   *)
(* to the window arithmetic and to when Prometheus scrapes.                *)
(*                                                                         *)
(* Time is counted in ticks, finer than the second of the rendering.       *)
(***************************************************************************)
EXTENDS Integers, FiniteSets

CONSTANTS
    Second,      \* ticks in a second
    Bucket,      \* ticks a bucket lasts
    Starts,      \* timestamps of the buckets that exist
    Window, Lag, \* Options.Window and Options.Lag, in ticks
    Delay,       \* how late the service may ingest what a bucket counts
    Gaps,        \* the intervals at which Prometheus scrapes
    FirstScrape, \* when the first scrape may come
    MaxScrapes   \* bound on the number of scrapes

ASSUME TimeAssumption ==
    /\ Second \in Nat \ {0} /\ Bucket \in Nat \ {0}
    /\ Starts \subseteq Int /\ FirstScrape \subseteq Int
    /\ Window \in Nat \ {0} /\ Lag \in Nat /\ Delay \in Nat
    /\ Gaps \subseteq Nat \ {0} /\ MaxScrapes \in Nat

VARIABLES
    now,      \* time of the latest scrape
    mintime,  \* its window, as rendered into the queries
    maxtime,
    answer,   \* the buckets it was answered
    scrapes,  \* how many scrapes there were
    counted,  \* history: [Starts -> how many scrapes summed that bucket]
    first,    \* history: mintime of the first scrape
    gaps      \* history: the intervals between the scrapes so far

vars == <<now, mintime, maxtime, answer, scrapes, counted, first, gaps>>

-----------------------------------------------------------------------------

\* time.RFC3339 has no fraction of a second.
Format(t) == t - (t % Second)

\* Variant: the lag moves the end of the window into the future.
MaxTimeAhead(t) == Format(t + Lag)

\* Variant: the lag is only applied to the start of the window.
MaxTimeNow(t) == Format(t)

MinTime(t) == Format(t - Lag - Window)
MaxTime(t) == Format(t - Lag)

\* Variants: datetime_gt for datetime_geq, and datetime_leq for datetime_lt.
WithinOpen(lo, hi)   == {b \in Starts : lo < b /\ b < hi}
WithinClosed(lo, hi) == {b \in Starts : lo <= b /\ b <= hi}

\* filter: { datetime_geq: $mintime, datetime_lt: $maxtime }
Within(lo, hi) == {b \in Starts : lo <= b /\ b < hi}

Init ==
    /\ now \in FirstScrape
    /\ mintime = MinTime(now) /\ maxtime = MaxTime(now)
    /\ answer = Within(mintime, maxtime)
    /\ scrapes = 1
    /\ counted = [b \in Starts |-> IF b \in answer THEN 1 ELSE 0]
    /\ first = mintime /\ gaps = {}

\* Collect and the four queries of a scrape that comes gap after the last one.
Scrape(gap) ==
    /\ scrapes < MaxScrapes
    /\ now' = now + gap
    /\ mintime' = MinTime(now') /\ maxtime' = MaxTime(now')
    /\ answer' = Within(mintime', maxtime')
    /\ scrapes' = scrapes + 1
    /\ counted' = [b \in Starts |-> IF b \in answer' THEN counted[b] + 1 ELSE counted[b]]
    /\ gaps' = gaps \cup {gap}
    /\ UNCHANGED first

Next == \E gap \in Gaps : Scrape(gap)

Spec == Init /\ [][Next]_vars

-----------------------------------------------------------------------------
(* Properties *)

\* Types of the variables, and the bounds the code keeps.
TypeOK ==
    /\ now \in Int /\ mintime \in Int /\ maxtime \in Int /\ first \in Int
    /\ mintime <= maxtime /\ maxtime <= now
    /\ answer \subseteq Starts /\ scrapes \in Nat
    /\ counted \in [Starts -> Nat] /\ gaps \subseteq Gaps

\* While Prometheus scrapes at least once per window no bucket between the
\* first and the latest window is skipped, jitter and rendering included
\* (README.md:98-102: a scrape interval wider than the window under-counts).
NoBucketSkipped ==
    (\A gap \in gaps : gap <= Window) =>
       \A b \in Starts : first <= b /\ b < maxtime => counted[b] >= 1

\* While it scrapes at most once per window no bucket is counted twice.
NoBucketCountedTwice ==
    (\A gap \in gaps : gap >= Window) => \A b \in Starts : counted[b] <= 1

\* Everything a bucket counts was ingested when it was summed, provided the lag
\* covers the ingestion delay and the bucket itself: its timestamp is its
\* start, and the window may end right behind it (README.md:89).
BucketsComplete ==
    Lag >= Delay + Bucket => \A b \in answer : b + Bucket + Delay <= now
=============================================================================
