------------------------------ MODULE GraphQL ------------------------------
(***************************************************************************)
(* GraphQLClient.Query (internal/cloudflareapi/graphql.go): when a reply   *)
(* of the analytics API counts as an answer.  A reply is a record:         *)
(*   arrived  the request was answered and the body could be read          *)
(*   status   the HTTP status code                                         *)
(*   json     the body decodes as a response                               *)
(*   errors   its "errors" is not empty                                    *)
(*   data     its "data": "absent", "null", "garbled" or "zones"           *)
(*   zones    the zones that data of the last kind lists                   *)
(***************************************************************************)
EXTENDS Integers

\* What the API sends: for each way to fail one reply, with errors any part of
\* the zones, and otherwise all of them.
Replies(Zones) ==
    LET whole == [arrived |-> TRUE, status |-> 200, json |-> TRUE, errors |-> FALSE,
                  data |-> "zones", zones |-> Zones]
    IN  {whole, [whole EXCEPT !.arrived = FALSE], [whole EXCEPT !.status = 403],
         [whole EXCEPT !.json = FALSE]}
        \cup {[whole EXCEPT !.data = d] : d \in {"absent", "null", "garbled"}}
        \cup {[whole EXCEPT !.errors = TRUE, !.zones = S] : S \in SUBSET Zones}
        \cup {[whole EXCEPT !.errors = TRUE, !.data = "null"]}

\* Variant: errors beside some data are taken for warnings.
QueryFailsWithoutData(reply) ==
    \/ ~reply.arrived \/ reply.status # 200 \/ ~reply.json
    \/ reply.errors /\ reply.data # "zones"
    \/ reply.data \in {"absent", "garbled"}

\* Query returns an error: any of its checks, in the order it makes them.
QueryFails(reply) ==
    \/ ~reply.arrived
    \/ reply.status # 200
    \/ ~reply.json
    \/ reply.errors
    \/ reply.data \in {"absent", "garbled"}

\* The zones of the decoded answer; decoding null changes nothing.
Decoded(reply) == IF reply.data = "null" THEN {} ELSE reply.zones
=============================================================================
