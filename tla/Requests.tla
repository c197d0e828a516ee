------------------------------- MODULE Requests -----------------------------
(***************************************************************************)
(* The calls of web/src/api/client.ts that one page has in flight, as the  *)
(* page sees them.  Every page keeps an AbortController and a request id   *)
(* and starts a request with abort(), a new controller and ++requestId.    *)
(* RequestContract.tla makes a specification of it, and                    *)
(* CollectorStatus.tla is shown to implement that.                         *)
(*                                                                         *)
(* A request is a record                                                   *)
(*   arg     what was asked for                                            *)
(*   phase   "open" while the timeout and the abort signal still reach it, *)
(*           "body" once its headers were accepted                         *)
(*   newest  its id is still the value of requestIdRef                     *)
(*   data    what the accepted answer carries                              *)
(*                                                                         *)
(* Nothing stops a request in phase "body": it survives abort() and        *)
(* settles whenever its body ends, or never.  Of two superseded requests   *)
(* with one record the model has one: the other one never ends.            *)
(***************************************************************************)
EXTENDS Naturals, FiniteSets

CONSTANT NoData         \* the data of an open request

RequestOf(args, data) ==
    [arg : args, phase : {"open", "body"}, newest : BOOLEAN, data : data \cup {NoData}]

Issued(q) == [arg |-> q, phase |-> "open", newest |-> TRUE, data |-> NoData]

Newest(rs)  == {r \in rs : r.newest}
OpenOnes(rs) == {r \in rs : r.phase = "open"}

(* abort() ends every open request, with AbortError or, if it was reading  *)
(* the body of an error, with that error.                                  *)
AfterAbort(rs) == {r \in rs : r.phase = "body"}

Superseded(rs) == {[r EXCEPT !.newest = FALSE] : r \in AfterAbort(rs)}

(* At most k superseded requests end later: the bound of a model.          *)
Surviving(rs, k) == {old \in SUBSET Superseded(rs) : Cardinality(old) <= k}

AfterHeaders(rs, r, d) == (rs \ {r}) \cup {[r EXCEPT !.phase = "body", !.data = d]}

AfterSettle(rs, r) == rs \ {r}

=============================================================================
