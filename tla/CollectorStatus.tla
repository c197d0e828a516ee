--------------------------- MODULE CollectorStatus --------------------------
(***************************************************************************)
(* The readiness panel: web/src/hooks/useCollectorStatus.ts polling        *)
(* /readyz (api/handler_health.go) through web/src/api/client.ts, and the  *)
(* label web/src/components/SystemStatus.tsx gives to what it learns.      *)
(*                                                                         *)
(* A poll comes every 15 s and gives up after 5 s, so the timer of a call  *)
(* has fired before the next poll.                                         *)
(***************************************************************************)
CONSTANTS
    Calls,      \* the calls of getReadyz that can be in flight together
    None        \* null

VARIABLES
    collector,  \* the collector and the way to it
    calls,      \* Calls -> a call of ApiClient
    newest,     \* the call whose id is requestIdRef.current, None before it
    mounted,    \* the panel is on the page
    status,     \* the last answer, None before it
    error       \* an error message is set

Readiness == {"ready", "overloaded", "draining"}

ASSUME NoneAssumption == None \notin Calls /\ None \notin Readiness

INSTANCE ApiClient WITH Answers <- Readiness, NoAnswer <- None

uiVars == <<newest, mounted, status, error>>
vars == <<collector, calls, uiVars>>

TypeOK ==
    /\ collector \in [link : {"up", "erring", "silent"}, draining : BOOLEAN, pressed : BOOLEAN]
    /\ calls \in [Calls -> CallType]
    /\ newest \in Calls \cup {None}
    /\ mounted \in BOOLEAN
    /\ status \in Readiness \cup {None}
    /\ error \in BOOLEAN

Init ==
    /\ collector = [link |-> "up", draining |-> FALSE, pressed |-> FALSE]
    /\ calls = [c \in Calls |-> Unsent]
    /\ newest = None
    /\ mounted = TRUE
    /\ status = None
    /\ error = FALSE

-----------------------------------------------------------------------------
(* The collector.                                                          *)

Snapshot ==
    IF collector.draining THEN "draining"
    ELSE IF collector.pressed THEN "overloaded" ELSE "ready"

MarkDraining ==
    /\ ~collector.draining
    /\ collector' = [collector EXCEPT !.draining = TRUE]
    /\ UNCHANGED <<calls, uiVars>>

QueueUsageChanges ==
    /\ collector' = [collector EXCEPT !.pressed = ~@]
    /\ UNCHANGED <<calls, uiVars>>

(* A process that is gone, a proxy that answers for it, or a new process.  *)
LinkChanges(link) ==
    /\ link # collector.link
    /\ collector' = [link |-> link, draining |-> collector.draining /\ link # "up",
                     pressed |-> collector.pressed]
    /\ UNCHANGED <<calls, uiVars>>

-----------------------------------------------------------------------------
(* The hook.                                                               *)

(* Mutant of Refresh: the request id is not incremented.                   *)
RefreshKeepsId(c) ==
    /\ mounted
    /\ c # newest
    /\ \A d \in Calls : ~calls[d].timer
    /\ calls' = [calls EXCEPT ![c] = Sent]
    /\ UNCHANGED <<collector, newest, mounted, status, error>>

(* refresh, from the first timer or from the interval.                     *)
Refresh(c) ==
    /\ mounted
    /\ c # newest
    /\ \A d \in Calls : ~calls[d].timer
    /\ calls' = [calls EXCEPT ![c] = Sent]
    /\ newest' = c
    /\ UNCHANGED <<collector, mounted, status, error>>

(* Mutant of ShowResult: the request id is not compared.                   *)
ShowResultOfAny(c, call) ==
    IF ~mounted \/ call.result = "aborted"
    THEN UNCHANGED <<status, error>>
    ELSE IF call.result = "ok"
    THEN status' = call.data /\ error' = FALSE
    ELSE UNCHANGED status /\ error' = TRUE

(* The handlers of the promise of getReadyz.  An unmounted panel ignores   *)
(* its setters.                                                            *)
ShowResult(c, call) ==
    IF c # newest \/ ~mounted \/ call.result = "aborted"
    THEN UNCHANGED <<status, error>>
    ELSE IF call.result = "ok"
    THEN status' = call.data /\ error' = FALSE
    ELSE UNCHANGED status /\ error' = TRUE

Settles(c, call) ==
    /\ calls' = [calls EXCEPT ![c] = call]
    /\ ShowResult(c, call)
    /\ UNCHANGED <<collector, newest, mounted>>

Continues(c, call) ==
    /\ calls' = [calls EXCEPT ![c] = call]
    /\ UNCHANGED <<collector, uiVars>>

HeadersArrive(c) ==
    /\ calls[c].phase = "waiting"
    /\ \/ collector.link = "up" /\ Continues(c, Accepted(calls[c], Snapshot))
       \/ collector.link = "erring" /\ Continues(c, Refused(calls[c]))

BodyEnds(c) ==
    \/ calls[c].phase = "body" /\ Settles(c, BodyRead(calls[c]))
    \/ calls[c].phase = "errorBody" /\ Settles(c, ErrorBodyRead(calls[c]))

ConnectionFails(c) ==
    \/ calls[c].phase = "waiting" /\ Settles(c, NetworkFails(calls[c]))
    \/ calls[c].phase = "body" /\ Settles(c, BodyFails(calls[c]))

TimeoutFires(c) ==
    /\ calls[c].timer
    /\ Settles(c, AbortFromTimeout(calls[c]))

(* The cleanup of the effect: the error boundary has replaced the page.    *)
Unmount ==
    /\ mounted
    /\ mounted' = FALSE
    /\ calls' = IF newest = None THEN calls
                ELSE [calls EXCEPT ![newest] = AbortFromCaller(@)]
    /\ UNCHANGED <<collector, newest, status, error>>

-----------------------------------------------------------------------------
Next ==
    \/ MarkDraining
    \/ QueueUsageChanges
    \/ \E link \in {"up", "erring", "silent"} : LinkChanges(link)
    \/ \E c \in Calls :
          Refresh(c) \/ HeadersArrive(c) \/ BodyEnds(c) \/ ConnectionFails(c) \/ TimeoutFires(c)
    \/ Unmount

Spec == Init /\ [][Next]_vars

(* The browser's timers: the interval and the timeouts run.                *)
Timers ==
    /\ WF_vars(\E c \in Calls : Refresh(c))
    /\ \A c \in Calls : WF_vars(TimeoutFires(c))

FairSpec == Spec /\ Timers

-----------------------------------------------------------------------------
(* statusTone: what the panel says.                                        *)
Tone == IF error THEN "offline" ELSE IF status \in {"overloaded", "draining"} THEN status
        ELSE "ready"

(* When the newest poll has ended, the panel shows how that one ended: its *)
(* answer, or that the collector is offline, and never the answer of an    *)
(* older poll that came later.                                             *)
ShowsNewest ==
    mounted /\ newest # None => LET call == calls[newest] IN
        /\ call.result = "ok" => Tone = call.data
        /\ call.result \in {"http", "network", "timeout"} => Tone = "offline"

(* A settled call of the client holds no timer and no listener, and so     *)
(* does one of an unmounted panel: nothing fires into a page that is gone. *)
NothingLeftArmed ==
    \A c \in Calls :
        calls[c].timer \/ calls[c].listening => mounted /\ c = newest /\ InFlight(calls[c])

(* A collector that stops answering is reported offline, and stays so      *)
(* until it answers: calls that wait for headers time out, and nothing     *)
(* else than an answer clears the error.                                   *)
SilenceIsReported ==
    <>[](collector.link = "silent" /\ mounted) => <>[](Tone = "offline")

(* The calls as the pages see them.                                        *)
InFlightRequests ==
    {[arg |-> "readyz",
      phase |-> IF calls[c].phase = "body" THEN "body" ELSE "open",
      newest |-> c = newest,
      data |-> calls[c].data] : c \in {d \in Calls : InFlight(calls[d])}}

Contract == INSTANCE RequestContract
    WITH Args <- {"readyz"}, Data <- Readiness, NoData <- None, reqs <- InFlightRequests

(* The calls of client.ts behave as the pages' modules assume: abort() and *)
(* the timeout end a request before its headers only, and superseded       *)
(* requests may settle later.                                              *)
ImplementsRequests == Contract!Spec

=============================================================================
