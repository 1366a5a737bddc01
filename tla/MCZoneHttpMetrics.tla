------------------------- MODULE MCZoneHttpMetrics -------------------------
(***************************************************************************)
(* Values of ZoneHttpMetrics' constants for TLC.  The minutes repeat names *)
(* within themselves and among each other, lie on both sides of status     *)
(* 400, share visitors, have zeroes in every breakdown, or no request.     *)
(***************************************************************************)
EXTENDS ZoneHttpMetrics, TLC

CONSTANTS z1, other, v1, v2

Status(code, requests)           == [name |-> code, requests |-> requests]
Country(name, requests, threats) == [name |-> name, requests |-> requests, threats |-> threats]
Browser(name, views)             == [name |-> name, views |-> views]

Busy ==
    [requests |-> 6, cached |-> 2, visitors |-> {v1, v2},
     status  |-> <<Status(200, 2), Status(404, 1), Status(200, 3)>>,
     country |-> <<Country("RO", 4, 0), Country("DE", 2, 1), Country("RO", 0, 0)>>,
     browser |-> <<Browser("Firefox", 2), Browser("Firefox", 1), Browser("curl", 0)>>]
Failing ==
    [requests |-> 3, cached |-> 0, visitors |-> {v1},
     status  |-> <<Status(400, 1), Status(399, 0), Status(502, 2)>>,
     country |-> <<Country("DE", 0, 0), Country("T1", 3, 2)>>,
     browser |-> <<Browser("curl", 0)>>]
Quiet ==
    [requests |-> 0, cached |-> 0, visitors |-> {},
     status |-> << >>, country |-> <<Country("RO", 0, 0)>>, browser |-> << >>]
Cached ==
    [requests |-> 1, cached |-> 1, visitors |-> {v2},
     status |-> <<Status(304, 1)>>, country |-> <<Country("T1", 1, 0)>>,
     browser |-> <<Browser("curl", 1)>>]

MCMinutes == {Busy, Failing, Quiet, Cached}
=============================================================================
