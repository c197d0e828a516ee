------------------------------ MODULE ApiClient -----------------------------
(***************************************************************************)
(* web/src/api/client.ts: one call of fetchJSON as a record, and what each *)
(* event makes of it.                                                      *)
(*                                                                         *)
(*   phase      "idle", then "waiting" for the headers, "errorBody" while  *)
(*              buildErrorMessage reads the body of an error, "body" while *)
(*              the caller's promise follows res.json(), "settled"         *)
(*   timer      setTimeout(abortFromTimeout) is armed                      *)
(*   listening  abortFromCaller listens to the caller's signal             *)
(*   timedOut   abortedByTimeout                                           *)
(*   result     how the promise of a settled call ended                    *)
(*   data       what the server has answered                               *)
(*                                                                         *)
(* `return res.json()` does not await: its finally block runs when the     *)
(* headers are there, so neither the timer nor the caller's signal reach   *)
(* a call in phase "body".  The promises settle in microtasks, before the  *)
(* next event.                                                             *)
(***************************************************************************)
CONSTANTS
    Answers,    \* what a body can carry
    NoAnswer    \* the data of a call without one

Phases  == {"idle", "waiting", "errorBody", "body", "settled"}
Results == {"none", "ok", "http", "network", "timeout", "aborted"}

CallType == [phase : Phases, timer : BOOLEAN, listening : BOOLEAN,
             timedOut : BOOLEAN, result : Results, data : Answers \cup {NoAnswer}]

Unsent == [phase |-> "idle", timer |-> FALSE, listening |-> FALSE,
           timedOut |-> FALSE, result |-> "none", data |-> NoAnswer]

Sent == [Unsent EXCEPT !.phase = "waiting", !.timer = TRUE, !.listening = TRUE]

(* Mutant of Cleaned: the listener stays on the caller's signal.           *)
CleanedTimerOnly(call) == [call EXCEPT !.timer = FALSE]

(* The finally block: cleanup() of withTimeoutSignal.                      *)
Cleaned(call) == [call EXCEPT !.timer = FALSE, !.listening = FALSE]

(* An exception inside the try: the catch block names a timeout, whatever  *)
(* was thrown.                                                             *)
Thrown(call, error) ==
    [Cleaned(call) EXCEPT !.phase = "settled",
                          !.result = IF call.timedOut THEN "timeout" ELSE error]

(* The headers of an accepted answer (res.ok or an allowed status).        *)
Accepted(call, answer) == [Cleaned(call) EXCEPT !.phase = "body", !.data = answer]

(* The headers of any other answer: its body is awaited inside the try.    *)
Refused(call) == [call EXCEPT !.phase = "errorBody"]

(* buildErrorMessage returns, with or without the body.                    *)
ErrorBodyRead(call) == Thrown(call, "http")

NetworkFails(call) == Thrown(call, "network")

(* The abort ends the wait for the headers with its reason; while an error *)
(* body is read buildErrorMessage swallows it, and the status is reported. *)
Aborted(call) == Thrown(call, IF call.phase = "waiting" THEN "aborted" ELSE "http")

(* Mutant of AbortFromTimeout: abortedByTimeout is not set.                *)
AbortFromTimeoutUnmarked(call) == Aborted(call)

AbortFromTimeout(call) == Aborted([call EXCEPT !.timedOut = TRUE])

(* controller.abort() of a page: without a listener nothing happens.       *)
AbortFromCaller(call) == IF call.listening THEN Aborted(call) ELSE call

(* The end of the promise of res.json(), outside the try.                  *)
BodyRead(call)  == [call EXCEPT !.phase = "settled", !.result = "ok"]
BodyFails(call) == [call EXCEPT !.phase = "settled", !.result = "network", !.data = NoAnswer]

InFlight(call) == call.phase \in {"waiting", "errorBody", "body"}

=============================================================================
