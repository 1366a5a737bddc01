----------------------- MODULE AnalyticsWindowProofs -----------------------
(***************************************************************************)
(* The window arithmetic for every lag, window, rendering granularity and  *)
(* scrape schedule: no bucket is skipped or counted twice.                 *)
(***************************************************************************)
EXTENDS AnalyticsWindow, TLAPS

\* Dropping the fraction of a second keeps the order of two instants and never
\* moves one into the future (time.RFC3339 in the Fetch functions).
LEMMA FormatMonotone ==
    ASSUME NEW x \in Int, NEW y \in Int, x <= y
    PROVE  /\ Format(x) \in Int /\ Format(y) \in Int
           /\ Format(x) <= Format(y) /\ Format(y) <= y
<1>1. Second \in Nat /\ Second > 0
  BY TimeAssumption
<1> DEFINE q(t) == t \div Second
           r(t) == t % Second
<1>2. \A t \in Int : /\ q(t) \in Int /\ r(t) \in Int
                     /\ 0 <= r(t) /\ r(t) < Second /\ t = Second * q(t) + r(t)
  BY <1>1, Z3
<1>3. Format(x) = Second * q(x) /\ Format(y) = Second * q(y)
  BY <1>1, <1>2 DEF Format
<1>4. q(x) <= q(y)
  <2>1. SUFFICES ASSUME q(y) + 1 <= q(x) PROVE FALSE
    BY <1>2
  <2>2. Second * (q(y) + 1) <= Second * q(x)
    BY <1>1, <1>2, <2>1
  <2>3. Second * (q(y) + 1) = Second * q(y) + Second
    BY <1>1, <1>2
  <2> HIDE DEF q, r
  <2>4. QED
    BY <1>1, <1>2, <2>2, <2>3
<1>5. Second * q(x) <= Second * q(y)
  BY <1>1, <1>2, <1>4
<1>6. Format(x) \in Int /\ Format(y) \in Int
  BY <1>1, <1>2 DEF Format
<1>7. Format(y) <= y
  BY <1>1, <1>2 DEF Format
<1>8. Format(x) <= Format(y)
  BY <1>3, <1>5
<1>9. QED
  BY <1>6, <1>7, <1>8

-----------------------------------------------------------------------------

\* The window is the one of the latest scrape, its first end never lies before
\* the first scrape's, and what comes after it was never summed.
WindowInv ==
    /\ mintime = MinTime(now) /\ maxtime = MaxTime(now)
    /\ answer = Within(mintime, maxtime)
    /\ first <= mintime
    /\ \A b \in Starts : b >= maxtime => counted[b] = 0

WInv == TypeOK /\ WindowInv /\ NoBucketSkipped /\ NoBucketCountedTwice

\* The ends of a window are instants, in order, the later one not after the lag.
LEMMA WindowEnds ==
    ASSUME NEW t \in Int
    PROVE  /\ MinTime(t) \in Int /\ MaxTime(t) \in Int
           /\ MinTime(t) <= MaxTime(t) /\ MaxTime(t) <= t - Lag
<1>1. t - Lag \in Int /\ t - Lag - Window \in Int /\ t - Lag - Window <= t - Lag
  BY TimeAssumption
<1>2. /\ Format(t - Lag - Window) \in Int /\ Format(t - Lag) \in Int
      /\ Format(t - Lag - Window) <= Format(t - Lag) /\ Format(t - Lag) <= t - Lag
  BY <1>1, FormatMonotone
<1>3. QED
  BY <1>2 DEF MinTime, MaxTime

\* A scrape gap ticks later has a window that is not earlier, and that starts
\* before or after the end of this one as gap compares to Window.
LEMMA WindowMoves ==
    ASSUME NEW t \in Int, NEW gap \in Nat
    PROVE  /\ MinTime(t) <= MinTime(t + gap) /\ MaxTime(t) <= MaxTime(t + gap)
           /\ gap <= Window => MinTime(t + gap) <= MaxTime(t)
           /\ gap >= Window => MaxTime(t) <= MinTime(t + gap)
<1>1. t - Lag \in Int /\ t - Lag - Window \in Int /\ (t + gap) - Lag \in Int
      /\ (t + gap) - Lag - Window \in Int
  BY TimeAssumption
<1>2. /\ MinTime(t) <= MinTime(t + gap) /\ MaxTime(t) <= MaxTime(t + gap)
  <2>1. t - Lag <= (t + gap) - Lag /\ t - Lag - Window <= (t + gap) - Lag - Window
    BY TimeAssumption
  <2>2. Format(t - Lag - Window) <= Format((t + gap) - Lag - Window)
        /\ Format(t - Lag) <= Format((t + gap) - Lag)
    BY <1>1, <2>1, FormatMonotone
  <2>3. QED
    BY <2>2 DEF MinTime, MaxTime
<1>3. ASSUME gap <= Window PROVE MinTime(t + gap) <= MaxTime(t)
  <2>1. (t + gap) - Lag - Window <= t - Lag
    BY <1>3, TimeAssumption
  <2>2. Format((t + gap) - Lag - Window) <= Format(t - Lag)
    BY <1>1, <2>1, FormatMonotone
  <2>3. QED
    BY <2>2 DEF MinTime, MaxTime
<1>4. ASSUME gap >= Window PROVE MaxTime(t) <= MinTime(t + gap)
  <2>1. t - Lag <= (t + gap) - Lag - Window
    BY <1>4, TimeAssumption
  <2>2. Format(t - Lag) <= Format((t + gap) - Lag - Window)
    BY <1>1, <2>1, FormatMonotone
  <2>3. QED
    BY <2>2 DEF MinTime, MaxTime
<1>5. QED
  BY <1>2, <1>3, <1>4

\* The first scrape establishes the invariant.
LEMMA WindowInit == Init => WInv
<1> SUFFICES ASSUME Init PROVE WInv
  OBVIOUS
<1>1. /\ now \in Int /\ MinTime(now) \in Int /\ MaxTime(now) \in Int
      /\ MinTime(now) <= MaxTime(now) /\ MaxTime(now) <= now - Lag
  BY TimeAssumption, WindowEnds DEF Init
<1>2. TypeOK
  BY <1>1, TimeAssumption DEF Init, TypeOK, Within
<1>3. WindowInv
  BY <1>1, TimeAssumption DEF Init, WindowInv, Within
<1>4. NoBucketSkipped
  BY <1>1, TimeAssumption DEF Init, NoBucketSkipped, Within
<1>5. NoBucketCountedTwice
  BY DEF Init, NoBucketCountedTwice
<1>6. QED
  BY <1>2, <1>3, <1>4, <1>5 DEF WInv

\* A further scrape keeps it.
LEMMA WindowStep == WInv /\ [Next]_vars => WInv'
<1> SUFFICES ASSUME WInv, [Next]_vars PROVE WInv'
  OBVIOUS
<1>1. CASE UNCHANGED vars
  BY <1>1 DEF WInv, TypeOK, WindowInv, NoBucketSkipped, NoBucketCountedTwice,
              vars, MinTime, MaxTime, Format, Within
<1>2. ASSUME NEW gap \in Gaps, Scrape(gap) PROVE WInv'
  <2>1. now \in Int /\ gap \in Nat /\ counted \in [Starts -> Nat] /\ Starts \subseteq Int
        /\ mintime \in Int /\ maxtime \in Int /\ first \in Int
    BY TimeAssumption DEF WInv, TypeOK
  <2>2. /\ now' = now + gap /\ now' \in Int /\ gaps' = gaps \cup {gap}
        /\ mintime' = MinTime(now + gap) /\ maxtime' = MaxTime(now + gap)
        /\ answer' = Within(mintime', maxtime') /\ first' = first
        /\ counted' = [b \in Starts |-> IF b \in answer' THEN counted[b] + 1 ELSE counted[b]]
    BY <1>2, <2>1 DEF Scrape
  <2>3. /\ mintime' \in Int /\ maxtime' \in Int
        /\ mintime <= mintime' /\ maxtime <= maxtime'
        /\ mintime' <= maxtime' /\ maxtime' <= now'
        /\ gap <= Window => mintime' <= maxtime
        /\ gap >= Window => maxtime <= mintime'
    <3>1. MinTime(now + gap) <= MaxTime(now + gap) /\ MaxTime(now + gap) <= (now + gap) - Lag
          /\ MinTime(now + gap) \in Int /\ MaxTime(now + gap) \in Int
      BY <2>1, <2>2, WindowEnds
    <3>2. /\ mintime <= MinTime(now + gap) /\ maxtime <= MaxTime(now + gap)
          /\ gap <= Window => MinTime(now + gap) <= maxtime
          /\ gap >= Window => maxtime <= MinTime(now + gap)
      BY <2>1, WindowMoves DEF WInv, WindowInv
    <3>3. QED
      BY <2>1, <2>2, <3>1, <3>2, TimeAssumption
  <2>4. \A b \in Starts : b \in answer' <=> mintime' <= b /\ b < maxtime'
    BY <2>2 DEF Within
  <2>5. TypeOK'
    BY <1>2, <2>1, <2>2, <2>3, TimeAssumption DEF WInv, TypeOK, Scrape, Within
  <2>6. WindowInv'
    <3>1. \A b \in Starts : b >= maxtime' => counted'[b] = 0
      BY <2>1, <2>2, <2>3, <2>4 DEF WInv, WindowInv
    <3>2. first' <= mintime'
      BY <2>1, <2>2, <2>3 DEF WInv, WindowInv
    <3>3. QED
      BY <2>2, <3>1, <3>2 DEF WindowInv, MinTime, MaxTime, Format, Within
  <2>7. NoBucketSkipped'
    <3>1. SUFFICES ASSUME \A g \in gaps' : g <= Window,
                          NEW b \in Starts, first <= b, b < maxtime'
                   PROVE  counted'[b] >= 1
      BY <2>2 DEF NoBucketSkipped
    <3>2. CASE b < maxtime
      BY <2>1, <2>2, <3>1, <3>2 DEF WInv, NoBucketSkipped
    <3>3. CASE maxtime <= b
      BY <2>1, <2>2, <2>3, <2>4, <3>1, <3>3
    <3>4. QED
      BY <2>1, <3>2, <3>3
  <2>8. NoBucketCountedTwice'
    <3>1. SUFFICES ASSUME \A g \in gaps' : g >= Window, NEW b \in Starts
                   PROVE  counted'[b] <= 1
      BY DEF NoBucketCountedTwice
    <3>2. CASE b \in answer'
      BY <2>1, <2>2, <2>3, <2>4, <3>1, <3>2 DEF WInv, WindowInv
    <3>3. CASE b \notin answer'
      BY <2>1, <2>2, <3>1, <3>3 DEF WInv, NoBucketCountedTwice
    <3>4. QED
      BY <3>2, <3>3
  <2>9. QED
    BY <2>5, <2>6, <2>7, <2>8 DEF WInv
<1>3. QED
  BY <1>1, <1>2 DEF Next

\* The window arithmetic is right in every reachable state.
THEOREM WindowInvariance == Spec => []WInv
  BY WindowInit, WindowStep, PTL DEF Spec

\* Types are kept.
THEOREM WindowTypeCorrect == Spec => []TypeOK
<1>1. WInv => TypeOK
  BY DEF WInv
<1>2. QED
  BY <1>1, WindowInvariance, PTL

\* Scraping at least once per window skips no bucket.
THEOREM NothingSkipped == Spec => []NoBucketSkipped
<1>1. WInv => NoBucketSkipped
  BY DEF WInv
<1>2. QED
  BY <1>1, WindowInvariance, PTL

\* Scraping at most once per window counts no bucket twice.
THEOREM NothingCountedTwice == Spec => []NoBucketCountedTwice
<1>1. WInv => NoBucketCountedTwice
  BY DEF WInv
<1>2. QED
  BY <1>1, WindowInvariance, PTL

\* With a lag of a bucket more than the ingestion delay only complete buckets
\* are summed.
THEOREM OnlyCompleteBuckets == Spec => []BucketsComplete
<1>1. WInv => BucketsComplete
  <2> SUFFICES ASSUME WInv, Lag >= Delay + Bucket, NEW b \in answer
               PROVE  b + Bucket + Delay <= now
    BY DEF BucketsComplete
  <2>1. now \in Int /\ b \in Int /\ b < maxtime
    BY TimeAssumption DEF WInv, TypeOK, WindowInv, Within
  <2>2. maxtime \in Int /\ maxtime <= now - Lag
    BY <2>1, WindowEnds DEF WInv, WindowInv
  <2>3. QED
    BY <2>1, <2>2, TimeAssumption
<1>2. QED
  BY <1>1, WindowInvariance, PTL
=============================================================================
