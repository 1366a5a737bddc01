------------------------- MODULE MCAnalyticsWindow -------------------------
(***************************************************************************)
(* Values of AnalyticsWindow's constants for TLC: a second of two ticks, a *)
(* minute of four seconds, a first scrape at any tick of a minute.         *)
(***************************************************************************)
EXTENDS AnalyticsWindow

MCStarts      == {8 * k : k \in -6..12}
MCFirstScrape == 0..7
=============================================================================
