------------------------------ MODULE PageLoad ------------------------------
(***************************************************************************)
(* What the pages under web/src/pages have in common: a flag loading, an   *)
(* error and the requests of one kind in flight, kept as one record, and   *)
(* what starting, ending and cleaning up a request makes of it.            *)
(***************************************************************************)
EXTENDS Requests

CONSTANTS
    MaxStale,   \* bound: superseded requests of a page still in flight
    None        \* null, '', undefined

VARIABLE
    silent      \* the collector holds every connection and sends nothing

(* The state of a page that has mounted, and of one that has not.          *)
NewLoad == [loading |-> TRUE, error |-> FALSE, reqs |-> {}]

LoadType(args, data) ==
    [loading : BOOLEAN, error : BOOLEAN, reqs : SUBSET RequestOf(args, data)]

(* abort(), a new controller, ++requestId and setError(null).              *)
Started(load, q) ==
    {[load EXCEPT !.error = FALSE, !.reqs = old \cup {Issued(q)}] :
        old \in Surviving(load.reqs, MaxStale)}

Answered(load, r, d) == [load EXCEPT !.reqs = AfterHeaders(@, r, d)]

(* finally: only the newest request ends the loading.                      *)
Settled(load, r) == [load EXCEPT !.loading = @ /\ ~r.newest, !.reqs = AfterSettle(@, r)]

(* catch: the error of a superseded request is dropped.                    *)
Failed(load, r) == [Settled(load, r) EXCEPT !.error = @ \/ r.newest]

(* The cleanup of an effect aborts and leaves the id: an open request      *)
(* settles as the newest one, with AbortError or with the HTTP error whose *)
(* body it was reading.                                                    *)
CleanedUp(load) ==
    LET open == OpenOnes(load.reqs) # {} IN
    {[loading |-> load.loading /\ ~open, error |-> e, reqs |-> AfterAbort(load.reqs)] :
        e \in {load.error, load.error \/ open}}

Quiet(load) == Newest(load.reqs) = {}

=============================================================================
