--------------------------- MODULE RequestContract --------------------------
(***************************************************************************)
(* What the pages assume of web/src/api/client.ts, as a specification: the *)
(* requests in flight of one page change in the ways of Requests.tla only. *)
(***************************************************************************)
EXTENDS Requests

CONSTANTS
    Args,       \* what can be asked for
    Data        \* what can be answered

VARIABLE reqs

Init == reqs = {}

Issue(q) == \E old \in SUBSET Superseded(reqs) : reqs' = old \cup {Issued(q)}

Headers(r, d) == r.phase = "open" /\ reqs' = AfterHeaders(reqs, r, d)

Settle(r) == reqs' = AfterSettle(reqs, r)

Abort == reqs' = AfterAbort(reqs)

Next ==
    \/ \E q \in Args : Issue(q)
    \/ \E r \in reqs : Settle(r) \/ \E d \in Data : Headers(r, d)
    \/ Abort

Spec == Init /\ [][Next]_reqs

=============================================================================
