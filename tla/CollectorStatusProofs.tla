------------------------ MODULE CollectorStatusProofs ------------------------
(***************************************************************************)
(* Proofs about CollectorStatus.tla and, through it, about the client of   *)
(* ApiClient.tla, for every number of calls in flight.                     *)
(*                                                                         *)
(* Inv is inductive.  NothingLeftArmed and ShowsNewest rest on what the    *)
(* phase of a call says about its timer, its listener, its result and its  *)
(* data (Consistent).                                                      *)
(***************************************************************************)
EXTENDS CollectorStatus, TLAPS

(* What the phase of a call says about the rest of it.                     *)
Consistent(call) ==
    /\ call.timer <=> call.phase \in {"waiting", "errorBody"}
    /\ call.listening = call.timer
    /\ call.result = "none" <=> call.phase # "settled"
    /\ call.phase = "body" \/ call.result = "ok" => call.data \in Readiness
    /\ call.timer => call.data = None /\ ~call.timedOut

Inv ==
    /\ TypeOK
    /\ \A c \in Calls : Consistent(calls[c])
    /\ NothingLeftArmed
    /\ ShowsNewest

-----------------------------------------------------------------------------
(* fetchJSON starts a call with its timer and its listener.                *)
LEMMA SentIsConsistent ==
  /\ Sent \in CallType /\ Consistent(Sent)
  /\ Sent.phase = "waiting" /\ Sent.timer /\ Sent.result = "none" /\ Sent.data = None
  BY DEF Sent, Unsent, CallType, Phases, Results, Consistent

(* Accepted headers end the reach of timer and listener, others do not.    *)
LEMMA HeadersKeepConsistent ==
  ASSUME NEW call \in CallType, Consistent(call), call.phase = "waiting", NEW a \in Readiness
  PROVE  /\ Accepted(call, a) \in CallType /\ Consistent(Accepted(call, a))
         /\ Accepted(call, a).phase = "body" /\ Accepted(call, a).data = a
         /\ ~Accepted(call, a).timer /\ Accepted(call, a).result = "none"
         /\ Refused(call) \in CallType /\ Consistent(Refused(call))
         /\ Refused(call).phase = "errorBody" /\ Refused(call).data = call.data
         /\ Refused(call).result = "none"
  BY DEF Accepted, Refused, Cleaned, CallType, Phases, Results, Consistent

(* Every other event settles a call and leaves nothing armed.              *)
LEMMA EndsKeepConsistent ==
  ASSUME NEW call \in CallType, Consistent(call), NEW ended,
         \/ call.phase = "body" /\ ended = BodyRead(call)
         \/ call.phase = "body" /\ ended = BodyFails(call)
         \/ call.phase = "errorBody" /\ ended = ErrorBodyRead(call)
         \/ call.phase = "waiting" /\ ended = NetworkFails(call)
         \/ call.timer /\ ended = AbortFromTimeout(call)
         \/ call.timer /\ ended = Aborted(call)
  PROVE  /\ ended \in CallType /\ Consistent(ended)
         /\ ended.phase = "settled" /\ ~ended.timer /\ ~ended.listening
<1>1. CASE call.phase = "body" /\ (ended = BodyRead(call) \/ ended = BodyFails(call))
  BY <1>1 DEF BodyRead, BodyFails, CallType, Phases, Results, Consistent
<1>2. CASE call.phase = "errorBody" /\ ended = ErrorBodyRead(call)
  BY <1>2 DEF ErrorBodyRead, Thrown, Cleaned, CallType, Phases, Results, Consistent
<1>3. CASE call.phase = "waiting" /\ ended = NetworkFails(call)
  BY <1>3 DEF NetworkFails, Thrown, Cleaned, CallType, Phases, Results, Consistent
<1>4. CASE call.timer /\ ended = AbortFromTimeout(call)
  BY <1>4 DEF AbortFromTimeout, Aborted, Thrown, Cleaned, CallType, Phases, Results, Consistent
<1>5. CASE call.timer /\ ended = Aborted(call)
  BY <1>5 DEF Aborted, Thrown, Cleaned, CallType, Phases, Results, Consistent
<1> QED
  BY <1>1, <1>2, <1>3, <1>4, <1>5

-----------------------------------------------------------------------------
(* The initial state satisfies the inductive invariant.                    *)
LEMMA InitInv == Init => Inv
<1> SUFFICES ASSUME Init PROVE Inv
  OBVIOUS
<1>1. Unsent \in CallType /\ Consistent(Unsent) /\ ~Unsent.timer /\ ~Unsent.listening
  BY DEF Unsent, CallType, Phases, Results, Consistent
<1>2. TypeOK
  BY <1>1 DEF Init, TypeOK
<1>3. \A c \in Calls : Consistent(calls[c])
  BY <1>1 DEF Init
<1>4. NothingLeftArmed
  BY <1>1 DEF Init, NothingLeftArmed
<1>5. ShowsNewest
  BY DEF Init, ShowsNewest
<1> QED
  BY <1>2, <1>3, <1>4, <1>5 DEF Inv

(* A step that leaves the hook and its calls alone.                        *)
LEMMA CollectorKeepsInv ==
  ASSUME Inv, UNCHANGED <<calls, uiVars>>,
         collector' \in [link : {"up", "erring", "silent"}, draining : BOOLEAN, pressed : BOOLEAN]
  PROVE  Inv'
  BY DEF Inv, TypeOK, NothingLeftArmed, ShowsNewest, Tone, uiVars

(* A call that ends leaves nothing armed and is shown if it is the newest. *)
LEMMA SettlesKeepsInv ==
  ASSUME Inv, NEW c \in Calls, NEW call, Settles(c, call),
         call \in CallType, Consistent(call), call.phase = "settled",
         ~call.timer, ~call.listening
  PROVE  Inv'
<1> USE NoneAssumption DEF Inv
<1>1. /\ calls' = [calls EXCEPT ![c] = call] /\ ShowResult(c, call)
      /\ UNCHANGED <<collector, newest, mounted>>
  BY DEF Settles
<1>2. /\ calls' \in [Calls -> CallType] /\ calls'[c] = call
      /\ \A d \in Calls : d # c => calls'[d] = calls[d]
  BY <1>1 DEF TypeOK
<1>3. call.result \in Results /\ call.result # "none"
      /\ (call.result = "ok" => call.data \in Readiness)
  BY DEF CallType, Consistent
<1>4. status' \in Readiness \cup {None} /\ error' \in BOOLEAN
  BY <1>1, <1>3 DEF TypeOK, ShowResult
<1>5. TypeOK'
  BY <1>1, <1>2, <1>4 DEF TypeOK
<1>6. \A d \in Calls : Consistent(calls'[d])
  BY <1>2
<1>7. NothingLeftArmed'
  BY <1>1, <1>2 DEF NothingLeftArmed, InFlight
<1>8. ShowsNewest'
  <2>1. CASE c # newest \/ ~mounted
    <3>1. UNCHANGED <<status, error>>
      BY <1>1, <2>1 DEF ShowResult
    <3> QED
      BY <1>1, <1>2, <2>1, <3>1 DEF ShowsNewest, Tone, TypeOK
  <2>2. CASE c = newest /\ mounted /\ call.result = "ok"
    <3>1. status' = call.data /\ error' = FALSE
      BY <1>1, <2>2 DEF ShowResult
    <3>2. Tone' = call.data
      BY <1>3, <2>2, <3>1 DEF Tone, Readiness
    <3> QED
      BY <1>1, <1>2, <2>2, <3>2 DEF ShowsNewest
  <2>3. CASE c = newest /\ mounted /\ call.result \in {"http", "network", "timeout"}
    <3>1. error' = TRUE
      BY <1>1, <2>3 DEF ShowResult
    <3> QED
      BY <1>1, <1>2, <2>3, <3>1 DEF ShowsNewest, Tone
  <2>4. CASE c = newest /\ call.result = "aborted"
    BY <1>1, <1>2, <2>4 DEF ShowsNewest
  <2> QED
    BY <1>3, <2>1, <2>2, <2>3, <2>4 DEF Results
<1> QED
  BY <1>5, <1>6, <1>7, <1>8

(* A call that goes on, with or without its timer.                         *)
LEMMA ContinuesKeepsInv ==
  ASSUME Inv, NEW c \in Calls, NEW call, Continues(c, call),
         call \in CallType, Consistent(call), call.result = "none",
         calls[c].phase = "waiting", call.phase \in {"errorBody", "body"}
  PROVE  Inv'
<1> USE NoneAssumption DEF Inv
<1>1. calls' = [calls EXCEPT ![c] = call] /\ UNCHANGED <<collector, uiVars>>
  BY DEF Continues
<1>2. /\ calls' \in [Calls -> CallType] /\ calls'[c] = call
      /\ \A d \in Calls : d # c => calls'[d] = calls[d]
  BY <1>1 DEF TypeOK
<1>3. calls[c].timer
  BY DEF Consistent
<1>4. mounted /\ c = newest
  BY <1>3 DEF NothingLeftArmed
<1>5. TypeOK'
  BY <1>1, <1>2 DEF TypeOK, uiVars
<1>6. \A d \in Calls : Consistent(calls'[d])
  BY <1>2
<1>7. NothingLeftArmed'
  BY <1>1, <1>2, <1>4 DEF NothingLeftArmed, InFlight, uiVars
<1>8. ShowsNewest'
  BY <1>1, <1>2, <1>4 DEF ShowsNewest, uiVars
<1> QED
  BY <1>5, <1>6, <1>7, <1>8

-----------------------------------------------------------------------------
(* Every step preserves the inductive invariant.                           *)
LEMMA NextInv == Inv /\ [Next]_vars => Inv'
<1> SUFFICES ASSUME Inv, [Next]_vars PROVE Inv'
  OBVIOUS
<1>0. \A c \in Calls : calls[c] \in CallType /\ Consistent(calls[c])
  BY DEF Inv, TypeOK
<1>1. CASE MarkDraining
  BY <1>1, CollectorKeepsInv DEF MarkDraining, Inv, TypeOK
<1>2. CASE QueueUsageChanges
  BY <1>2, CollectorKeepsInv DEF QueueUsageChanges, Inv, TypeOK
<1>3. ASSUME NEW link \in {"up", "erring", "silent"}, LinkChanges(link) PROVE Inv'
  BY <1>3, CollectorKeepsInv DEF LinkChanges, Inv, TypeOK
<1>4. ASSUME NEW c \in Calls, Refresh(c) PROVE Inv'
  <2> USE NoneAssumption DEF Inv
  <2>1. /\ mounted /\ \A d \in Calls : ~calls[d].timer
        /\ calls' = [calls EXCEPT ![c] = Sent] /\ newest' = c
        /\ UNCHANGED <<collector, mounted, status, error>>
    BY <1>4 DEF Refresh
  <2>2. /\ calls' \in [Calls -> CallType] /\ calls'[c] = Sent
        /\ \A d \in Calls : d # c => calls'[d] = calls[d]
    BY <2>1, SentIsConsistent DEF TypeOK
  <2>3. TypeOK'
    BY <2>1, <2>2 DEF TypeOK
  <2>4. \A d \in Calls : Consistent(calls'[d])
    BY <2>2, SentIsConsistent
  <2>5. NothingLeftArmed'
    <3>1. \A d \in Calls : ~calls[d].listening
      BY <1>0, <2>1 DEF Consistent
    <3> QED
      BY <2>1, <2>2, <3>1, SentIsConsistent DEF NothingLeftArmed, InFlight
  <2>6. ShowsNewest'
    BY <2>1, <2>2, SentIsConsistent DEF ShowsNewest
  <2> QED
    BY <2>3, <2>4, <2>5, <2>6
<1>5. ASSUME NEW c \in Calls, HeadersArrive(c) PROVE Inv'
  <2>1. Snapshot \in Readiness
    BY DEF Snapshot, Readiness
  <2>2. calls[c].phase = "waiting"
    BY <1>5 DEF HeadersArrive
  <2>3. CASE Continues(c, Accepted(calls[c], Snapshot))
    BY <1>0, <2>1, <2>2, <2>3, HeadersKeepConsistent, ContinuesKeepsInv
  <2>4. CASE Continues(c, Refused(calls[c]))
    BY <1>0, <2>1, <2>2, <2>4, HeadersKeepConsistent, ContinuesKeepsInv
  <2> QED
    BY <1>5, <2>3, <2>4 DEF HeadersArrive
<1>6. ASSUME NEW c \in Calls, BodyEnds(c) \/ ConnectionFails(c) \/ TimeoutFires(c) PROVE Inv'
  <2>1. PICK call : /\ Settles(c, call)
                    /\ \/ calls[c].phase = "body" /\ call = BodyRead(calls[c])
                       \/ calls[c].phase = "body" /\ call = BodyFails(calls[c])
                       \/ calls[c].phase = "errorBody" /\ call = ErrorBodyRead(calls[c])
                       \/ calls[c].phase = "waiting" /\ call = NetworkFails(calls[c])
                       \/ calls[c].timer /\ call = AbortFromTimeout(calls[c])
    BY <1>6 DEF BodyEnds, ConnectionFails, TimeoutFires
  <2>2. /\ call \in CallType /\ Consistent(call)
        /\ call.phase = "settled" /\ ~call.timer /\ ~call.listening
    BY <1>0, <2>1, EndsKeepConsistent
  <2> QED
    BY <2>1, <2>2, SettlesKeepsInv
<1>7. CASE Unmount
  <2> USE NoneAssumption DEF Inv
  <2>1. /\ mounted' = FALSE
        /\ calls' = IF newest = None THEN calls
                    ELSE [calls EXCEPT ![newest] = AbortFromCaller(@)]
        /\ UNCHANGED <<collector, newest, status, error>>
    BY <1>7 DEF Unmount
  <2>2. CASE newest = None
    <3>1. \A c \in Calls : ~calls[c].timer /\ ~calls[c].listening
      BY <2>2 DEF NothingLeftArmed
    <3> QED
      BY <2>1, <2>2, <3>1 DEF TypeOK, NothingLeftArmed, ShowsNewest
  <2>3. CASE newest # None
    <3> DEFINE after == AbortFromCaller(calls[newest])
    <3>1. newest \in Calls
      BY <2>3 DEF TypeOK
    <3>2. after \in CallType /\ Consistent(after) /\ ~after.timer /\ ~after.listening
      <4>1. CASE calls[newest].listening
        <5>1. calls[newest].timer /\ after = Aborted(calls[newest])
          BY <1>0, <3>1, <4>1 DEF AbortFromCaller, Consistent
        <5> QED
          BY <1>0, <3>1, <5>1, EndsKeepConsistent
      <4>2. CASE ~calls[newest].listening
        BY <1>0, <3>1, <4>2 DEF AbortFromCaller, Consistent
      <4> QED
        BY <4>1, <4>2
    <3> HIDE DEF after
    <3>3. calls' = [calls EXCEPT ![newest] = after]
      BY <2>1, <2>3 DEF after
    <3>4. /\ calls' \in [Calls -> CallType] /\ calls'[newest] = after
          /\ \A d \in Calls : d # newest => calls'[d] = calls[d]
      BY <3>1, <3>2, <3>3 DEF TypeOK
    <3>5. \A d \in Calls : d # newest => ~calls[d].timer /\ ~calls[d].listening
      BY DEF NothingLeftArmed
    <3>6. NothingLeftArmed'
      BY <3>2, <3>4, <3>5 DEF NothingLeftArmed
    <3>7. TypeOK' /\ ShowsNewest'
      BY <2>1, <3>4 DEF TypeOK, ShowsNewest
    <3>8. \A d \in Calls : Consistent(calls'[d])
      BY <3>2, <3>4
    <3> QED
      BY <3>6, <3>7, <3>8
  <2> QED
    BY <2>2, <2>3
<1>8. CASE UNCHANGED vars
  BY <1>8 DEF Inv, vars, uiVars, TypeOK, NothingLeftArmed, ShowsNewest, Tone
<1> QED
  BY <1>1, <1>2, <1>3, <1>4, <1>5, <1>6, <1>7, <1>8 DEF Next

(* The inductive invariant holds in every reachable state.                 *)
LEMMA SpecInv == Spec => []Inv
  BY InitInv, NextInv, PTL DEF Spec

-----------------------------------------------------------------------------
(* The panel, its calls and the collector always have their types.         *)
THEOREM TypeCorrect == Spec => []TypeOK
<1>1. Inv => TypeOK
  BY DEF Inv
<1> QED
  BY <1>1, SpecInv, PTL

(* No timer and no listener outlives its call, its turn as the newest one  *)
(* or the panel.                                                           *)
THEOREM NothingStaysArmed == Spec => []NothingLeftArmed
<1>1. Inv => NothingLeftArmed
  BY DEF Inv
<1> QED
  BY <1>1, SpecInv, PTL

(* The panel shows how the newest poll ended, in whatever order the polls  *)
(* in flight end.                                                          *)
THEOREM NewestIsShown == Spec => []ShowsNewest
<1>1. Inv => ShowsNewest
  BY DEF Inv
<1> QED
  BY <1>1, SpecInv, PTL

-----------------------------------------------------------------------------
(* The request that stands for call c when n is the newest one.            *)
AsRequest(call, c, n) ==
    [arg |-> "readyz", phase |-> IF call.phase = "body" THEN "body" ELSE "open",
     newest |-> c = n, data |-> call.data]

(* What superseding a request changes of it.                               *)
LEMMA SupersededRequest ==
  ASSUME NEW call, NEW c, NEW n, NEW m, c # m
  PROVE  [AsRequest(call, c, n) EXCEPT !.newest = FALSE] = AsRequest(call, c, m)
<1> DEFINE ph == IF call.phase = "body" THEN "body" ELSE "open"
           old == [AsRequest(call, c, n) EXCEPT !.newest = FALSE]
<1>1. AsRequest(call, c, n) = [arg |-> "readyz", phase |-> ph, newest |-> c = n, data |-> call.data]
  BY DEF AsRequest
<1>2. AsRequest(call, c, m) = [arg |-> "readyz", phase |-> ph, newest |-> FALSE, data |-> call.data]
  BY DEF AsRequest
<1> HIDE DEF ph
<1>3. old.arg = "readyz"
  BY <1>1
<1>4. old.phase = ph
  BY <1>1
<1>5. old.data = call.data
  BY <1>1
<1>6. old.newest = FALSE
  BY <1>1
<1>7. old = [f \in {"arg", "phase", "newest", "data"} |-> old[f]]
  BY <1>1
<1> HIDE DEF old
<1>8. old = AsRequest(call, c, m)
  BY <1>2, <1>3, <1>4, <1>5, <1>6, <1>7
<1> QED
  BY <1>8 DEF old

(* What accepted headers change of it.                                     *)
WithAnswer(q, d) == [q EXCEPT !.phase = "body", !.data = d]

(* The request of a call changes so when the call gets its headers.        *)
LEMMA AnsweredRequest ==
  ASSUME NEW call, NEW after, NEW c, NEW n, NEW d, after.phase = "body", after.data = d
  PROVE  WithAnswer(AsRequest(call, c, n), d) = AsRequest(after, c, n)
<1> DEFINE ph == IF call.phase = "body" THEN "body" ELSE "open"
           new == [AsRequest(call, c, n) EXCEPT !.phase = "body", !.data = d]
<1>1. AsRequest(call, c, n) = [arg |-> "readyz", phase |-> ph, newest |-> c = n, data |-> call.data]
  BY DEF AsRequest
<1>2. AsRequest(after, c, n) = [arg |-> "readyz", phase |-> "body", newest |-> c = n, data |-> d]
  BY DEF AsRequest
<1> HIDE DEF ph
<1>3. new.arg = "readyz"
  BY <1>1
<1>4. new.phase = "body"
  BY <1>1
<1>5. new.data = d
  BY <1>1
<1>6. new.newest = (c = n)
  BY <1>1
<1>7. new = [f \in {"arg", "phase", "newest", "data"} |-> new[f]]
  BY <1>1
<1> HIDE DEF new
<1>8. new = AsRequest(after, c, n)
  BY <1>2, <1>3, <1>4, <1>5, <1>6, <1>7
<1> QED
  BY <1>8 DEF new, WithAnswer

(* The requests in flight are those of the calls in flight.                *)
LEMMA RequestsOfCalls ==
  /\ \A r : r \in InFlightRequests <=>
        \E c \in Calls : InFlight(calls[c]) /\ r = AsRequest(calls[c], c, newest)
  /\ \A r : r \in InFlightRequests' <=>
        \E c \in Calls : InFlight(calls'[c]) /\ r = AsRequest(calls'[c], c, newest')
  BY DEF InFlightRequests, AsRequest

(* An open request is the newest one.                                      *)
LEMMA OpenIsNewest ==
  ASSUME Inv, NEW c \in Calls, InFlight(calls[c]), calls[c].phase # "body"
  PROVE  c = newest /\ mounted /\ calls[c].timer /\ calls[c].data = None
  BY DEF Inv, Consistent, InFlight, NothingLeftArmed

(* One call ends and the others stay: a request settles, unless another    *)
(* superseded one with the same record is still there.                     *)
LEMMA EndSettles ==
  ASSUME Inv, NEW c \in Calls, InFlight(calls[c]), ~InFlight(calls'[c]),
         \A d \in Calls : d # c => calls'[d] = calls[d], newest' = newest
  PROVE  \/ \E r \in InFlightRequests : Contract!Settle(r)
         \/ UNCHANGED InFlightRequests
<1> DEFINE r == AsRequest(calls[c], c, newest)
<1>1. r \in InFlightRequests
  BY RequestsOfCalls
<1>2. CASE \E d \in Calls : d # c /\ InFlight(calls[d]) /\ AsRequest(calls[d], d, newest) = r
  <2>1. \A x : x \in InFlightRequests' <=> x \in InFlightRequests
    BY <1>2, RequestsOfCalls
  <2> QED
    BY <2>1
<1>3. CASE \A d \in Calls : d # c /\ InFlight(calls[d]) => AsRequest(calls[d], d, newest) # r
  <2>1. \A x : x \in InFlightRequests' <=> x \in InFlightRequests /\ x # r
    BY <1>3, RequestsOfCalls
  <2>2. InFlightRequests' = InFlightRequests \ {r}
    BY <2>1
  <2> QED
    BY <1>1, <2>2 DEF Contract!Settle, Contract!AfterSettle
<1> QED
  BY <1>2, <1>3

(* Every step of the panel is a step of the contract of the requests or    *)
(* leaves the requests unchanged.                                          *)
LEMMA RequestSimulation == Inv /\ [Next]_vars => [Contract!Next]_InFlightRequests
<1> SUFFICES ASSUME Inv, [Next]_vars PROVE [Contract!Next]_InFlightRequests
  OBVIOUS
<1> USE NoneAssumption
<1>0. \A c \in Calls : calls[c] \in CallType /\ Consistent(calls[c])
  BY DEF Inv, TypeOK
<1>1. CASE UNCHANGED <<calls, newest>>
  BY <1>1 DEF InFlightRequests
<1>2. ASSUME NEW c \in Calls, Refresh(c) PROVE Contract!Next
  <2>1. /\ \A d \in Calls : ~calls[d].timer
        /\ calls' = [calls EXCEPT ![c] = Sent] /\ newest' = c
    BY <1>2 DEF Refresh
  <2>2. calls'[c] = Sent /\ \A d \in Calls : d # c => calls'[d] = calls[d]
    BY <2>1 DEF Inv, TypeOK
  <2> DEFINE old == {AsRequest(calls[d], d, c) : d \in {e \in Calls \ {c} : InFlight(calls[e])}}
  <2>3. AsRequest(Sent, c, c) = Contract!Issued("readyz") /\ InFlight(Sent)
    BY SentIsConsistent DEF AsRequest, Contract!Issued, InFlight
  <2>4. InFlightRequests' = old \cup {Contract!Issued("readyz")}
    <3>1. \A x : x \in InFlightRequests' <=> x \in old \/ x = AsRequest(Sent, c, c)
      BY <2>1, <2>2, <2>3, RequestsOfCalls
    <3> QED
      BY <2>3, <3>1
  <2>5. old \subseteq Contract!Superseded(InFlightRequests)
    <3> SUFFICES ASSUME NEW d \in Calls, d # c, InFlight(calls[d])
                 PROVE  AsRequest(calls[d], d, c) \in Contract!Superseded(InFlightRequests)
      OBVIOUS
    <3> DEFINE r == AsRequest(calls[d], d, newest)
    <3>1. calls[d].phase = "body"
      BY <1>0, <2>1 DEF Consistent, InFlight
    <3>2. r \in InFlightRequests /\ r.phase = "body"
      BY <3>1, RequestsOfCalls DEF AsRequest
    <3>3. AsRequest(calls[d], d, c) = [r EXCEPT !.newest = FALSE]
      BY SupersededRequest
    <3> HIDE DEF r
    <3> QED
      BY <3>2, <3>3 DEF Contract!Superseded, Contract!AfterAbort
  <2> QED
    BY <2>4, <2>5 DEF Contract!Next, Contract!Issue
<1>3. ASSUME NEW c \in Calls, HeadersArrive(c) PROVE [Contract!Next]_InFlightRequests
  <2>1. calls[c].phase = "waiting" /\ InFlight(calls[c])
    BY <1>3 DEF HeadersArrive, InFlight
  <2>2. Snapshot \in Readiness
    BY DEF Snapshot, Readiness
  <2>3. CASE Continues(c, Accepted(calls[c], Snapshot))
    <3> DEFINE after == Accepted(calls[c], Snapshot)
               r == AsRequest(calls[c], c, newest)
    <3>1. calls' = [calls EXCEPT ![c] = after] /\ newest' = newest
      BY <2>3 DEF Continues, uiVars
    <3>2. calls'[c] = after /\ \A d \in Calls : d # c => calls'[d] = calls[d]
      BY <3>1 DEF Inv, TypeOK
    <3>3. after.phase = "body" /\ after.data = Snapshot
      BY <1>0, <2>1, <2>2, HeadersKeepConsistent
    <3> HIDE DEF after
    <3>4. c = newest
      BY <2>1, OpenIsNewest
    <3>5. r \in InFlightRequests /\ r.phase = "open"
      BY <2>1, RequestsOfCalls DEF AsRequest
    <3>6. AsRequest(after, c, newest) = [r EXCEPT !.phase = "body", !.data = Snapshot]
      <4> DEFINE d == Snapshot
      <4>1. after.phase = "body" /\ after.data = d
        BY <3>3
      <4> HIDE DEF d
      <4>2. WithAnswer(r, d) = AsRequest(after, c, newest)
        BY <4>1, AnsweredRequest
      <4> QED
        BY <4>2 DEF d, WithAnswer
    <3>7. \A d \in Calls : d # c => AsRequest(calls[d], d, newest) # r
      BY <3>4 DEF AsRequest
    <3>8. \A x : x \in InFlightRequests' <=>
             (x \in InFlightRequests /\ x # r) \/ x = AsRequest(after, c, newest)
      <4>1. InFlight(calls'[c])
        BY <3>2, <3>3 DEF InFlight
      <4> HIDE DEF r
      <4>2. r = AsRequest(calls[c], c, newest)
        BY DEF r
      <4> QED
        BY <2>1, <3>1, <3>2, <3>7, <4>1, <4>2, RequestsOfCalls
    <3>9. InFlightRequests' = Contract!AfterHeaders(InFlightRequests, r, Snapshot)
      BY <3>6, <3>8 DEF Contract!AfterHeaders
    <3>10. Contract!Headers(r, Snapshot)
      BY <3>5, <3>9 DEF Contract!Headers
    <3> QED
      BY <2>2, <3>5, <3>10 DEF Contract!Next
  <2>4. CASE Continues(c, Refused(calls[c]))
    <3>1. calls' = [calls EXCEPT ![c] = Refused(calls[c])] /\ newest' = newest
      BY <2>4 DEF Continues, uiVars
    <3>2. calls'[c] = Refused(calls[c]) /\ \A d \in Calls : d # c => calls'[d] = calls[d]
      BY <3>1 DEF Inv, TypeOK
    <3>3. calls'[c].phase = "errorBody" /\ calls'[c].data = calls[c].data
      BY <1>0, <2>1, <2>2, <3>2, HeadersKeepConsistent
    <3>4. /\ InFlight(calls'[c])
          /\ AsRequest(calls'[c], c, newest) = AsRequest(calls[c], c, newest)
      BY <2>1, <3>3 DEF InFlight, AsRequest
    <3>5. \A x : x \in InFlightRequests' <=> x \in InFlightRequests
      BY <2>1, <3>1, <3>2, <3>4, RequestsOfCalls
    <3> QED
      BY <3>5
  <2> QED
    BY <1>3, <2>3, <2>4 DEF HeadersArrive
<1>4. ASSUME NEW c \in Calls, BodyEnds(c) \/ ConnectionFails(c) \/ TimeoutFires(c)
      PROVE  [Contract!Next]_InFlightRequests
  <2>1. PICK call : /\ Settles(c, call)
                    /\ \/ calls[c].phase = "body" /\ call = BodyRead(calls[c])
                       \/ calls[c].phase = "body" /\ call = BodyFails(calls[c])
                       \/ calls[c].phase = "errorBody" /\ call = ErrorBodyRead(calls[c])
                       \/ calls[c].phase = "waiting" /\ call = NetworkFails(calls[c])
                       \/ calls[c].timer /\ call = AbortFromTimeout(calls[c])
    BY <1>4 DEF BodyEnds, ConnectionFails, TimeoutFires
  <2>2. call.phase = "settled"
    BY <1>0, <2>1, EndsKeepConsistent
  <2>3. calls' = [calls EXCEPT ![c] = call] /\ newest' = newest
    BY <2>1 DEF Settles
  <2>4. calls'[c] = call /\ \A d \in Calls : d # c => calls'[d] = calls[d]
    BY <2>3 DEF Inv, TypeOK
  <2>5. InFlight(calls[c]) /\ ~InFlight(calls'[c])
    BY <1>0, <2>1, <2>2, <2>4 DEF InFlight, Consistent
  <2> QED
    BY <2>3, <2>4, <2>5, EndSettles DEF Contract!Next
<1>5. CASE Unmount
  <2>1. /\ calls' = IF newest = None THEN calls
                    ELSE [calls EXCEPT ![newest] = AbortFromCaller(@)]
        /\ newest' = newest
    BY <1>5 DEF Unmount
  <2>2. CASE newest = None
    BY <1>1, <2>1, <2>2
  <2>3. CASE newest # None /\ ~calls[newest].listening
    <3>1. calls' = calls
      BY <2>1, <2>3 DEF AbortFromCaller, Inv, TypeOK
    <3> QED
      BY <1>1, <2>1, <3>1
  <2>4. CASE newest # None /\ calls[newest].listening
    <3>1. newest \in Calls
      BY <2>4 DEF Inv, TypeOK
    <3>2. calls[newest].timer /\ AbortFromCaller(calls[newest]) = Aborted(calls[newest])
      BY <1>0, <2>4, <3>1 DEF AbortFromCaller, Consistent
    <3>3. Aborted(calls[newest]).phase = "settled"
      BY <1>0, <3>1, <3>2, EndsKeepConsistent
    <3>4. /\ calls'[newest] = Aborted(calls[newest])
          /\ \A d \in Calls : d # newest => calls'[d] = calls[d]
      BY <2>1, <2>4, <3>1, <3>2 DEF Inv, TypeOK
    <3>5. InFlight(calls[newest]) /\ ~InFlight(calls'[newest])
      BY <1>0, <3>1, <3>2, <3>3, <3>4 DEF InFlight, Consistent
    <3> QED
      BY <2>1, <3>1, <3>4, <3>5, EndSettles DEF Contract!Next
  <2> QED
    BY <2>2, <2>3, <2>4
<1>6. CASE MarkDraining \/ QueueUsageChanges \/ \E link \in {"up", "erring", "silent"} : LinkChanges(link)
  BY <1>1, <1>6 DEF MarkDraining, QueueUsageChanges, LinkChanges, uiVars
<1>7. CASE UNCHANGED vars
  BY <1>1, <1>7 DEF vars, uiVars
<1> QED
  BY <1>2, <1>3, <1>4, <1>5, <1>6, <1>7 DEF Next

(* The client of client.ts under the polling hook implements the contract  *)
(* on which the modules of the pages are built.                            *)
THEOREM RequestRefinement == Spec => ImplementsRequests
<1>1. Init => Contract!Init
  <2> SUFFICES ASSUME Init PROVE InFlightRequests = {}
    BY DEF Contract!Init
  <2>1. \A c \in Calls : ~InFlight(calls[c])
    BY DEF Init, Unsent, InFlight
  <2> QED
    BY <2>1 DEF InFlightRequests
<1> QED
  BY <1>1, RequestSimulation, SpecInv, PTL DEF Spec, ImplementsRequests, Contract!Spec

=============================================================================
