------------------------- MODULE MCAdaptiveMetrics -------------------------
(***************************************************************************)
(* Values of AdaptiveMetrics' constants for TLC.  The groups of a dataset  *)
(* differ in one way each: the zone, a label shared or not, both sides of  *)
(* every status boundary, few and many records, no interval, interval 1.   *)
(***************************************************************************)
EXTENDS AdaptiveMetrics, TLC

CONSTANTS z1, z2, other

Error(z, host, class, edge, origin, count, interval, ms) ==
    [zone |-> z, labels |-> [host |-> host, class |-> class],
     edge |-> edge, origin |-> origin, count |-> count, interval |-> interval, ms |-> ms]

Event(z, action, source, count, interval) ==
    [zone |-> z, labels |-> [action |-> action, source |-> source],
     count |-> count, interval |-> interval]

Queries(z, type, code, count, interval) ==
    [zone |-> z, labels |-> [type |-> type, code |-> code],
     count |-> count, interval |-> interval]

MCGroups ==
    "errors" :> {Error(z1, "a", "clean", 200, 200, 12, 3, 10),
                 Error(z1, "a", "attack", 400, 399, 9, 3, 40),
                 Error(z1, "b", "clean", 404, 0, 10, 2, 0),
                 Error(z1, "b", "attack", 502, 400, 2, 1, 7),
                 Error(z2, "a", "clean", 399, 500, 3, 0, 5),
                 Error(z2, "b", "clean", 200, 0, 1, 20, 0),
                 Error(other, "a", "clean", 500, 500, 11, 2, 9)} @@
    "waf" :> {Event(z1, "block", "rule", 3, 1), Event(z1, "block", "bot", 2, 10),
              Event(z1, "log", "rule", 12, 2), Event(z2, "log", "bot", 1, 0),
              Event(other, "log", "bot", 4, 2)} @@
    "dns" :> {Queries(z1, "A", "ok", 20, 2), Queries(z1, "A", "nx", 1, 1),
              Queries(z2, "MX", "ok", 3, 0), Queries(other, "A", "ok", 5, 4),
              Queries(other, "MX", "ok", 7, 1)}
=============================================================================
