-------------------------- MODULE AssemblerContract -------------------------
(***************************************************************************)
(* The assembler of internal/processor/assembler.go as the pipeline sees   *)
(* it: AddSpan and Stop, and an onComplete that may be called for an entry *)
(* at any moment.  Timers and their goroutines are left out.               *)
(*                                                                         *)
(* Assembler.tla is shown to implement this module; Pipeline.tla is built  *)
(* on it.                                                                  *)
(***************************************************************************)
CONSTANTS
    Traces,     \* trace ids
    Spans,      \* span objects
    traceOf     \* the TraceID field of a span

VARIABLES
    unsent,     \* spans no caller has passed to AddSpan yet
    pending,    \* the spans of the pending entry of a trace, {} for no entry
    building,   \* batches taken from pending, before onComplete returns
    completed,  \* batches onComplete has processed
    panicked,   \* batches whose onComplete panicked
    stopPc,     \* where the call of Stop is: "idle", "flush" or "done"
    stopIds,    \* the ids Stop has collected and not finalized yet
    stopSpans   \* history: the spans pending when Stop was called

batchVars == <<building, completed, panicked>>
stopVars  == <<stopPc, stopIds, stopSpans>>
vars == <<unsent, pending, batchVars, stopVars>>

Init ==
    /\ unsent = Spans
    /\ pending = [t \in Traces |-> {}]
    /\ building = {} /\ completed = {} /\ panicked = {}
    /\ stopPc = "idle" /\ stopIds = {} /\ stopSpans = {}

-----------------------------------------------------------------------------
AddSpan(s) ==
    /\ s \in unsent
    /\ unsent' = unsent \ {s}
    /\ pending' = [pending EXCEPT ![traceOf[s]] = @ \cup {s}]
    /\ UNCHANGED <<batchVars, stopVars>>

Take(t, caller) ==
    /\ building' = building \cup {[trace |-> t, spans |-> pending[t], by |-> caller]}
    /\ pending' = [pending EXCEPT ![t] = {}]

(* A timer of the trace has expired and its goroutine takes the entry.     *)
Finalize(t) ==
    /\ pending[t] # {}
    /\ Take(t, "timer")
    /\ UNCHANGED <<unsent, completed, panicked, stopVars>>

Complete(b) ==
    /\ b \in building
    /\ building' = building \ {b}
    /\ completed' = completed \cup {b}
    /\ UNCHANGED <<unsent, pending, panicked, stopVars>>

CompletePanics(b) ==
    /\ b \in building
    /\ building' = building \ {b}
    /\ panicked' = panicked \cup {b}
    /\ UNCHANGED <<unsent, pending, completed, stopVars>>

-----------------------------------------------------------------------------
(* Stop finalizes one after the other the entries it found; a timer may    *)
(* have taken one of them meanwhile.  It waits for its own batches only.   *)
StopBegin ==
    /\ stopPc = "idle"
    /\ stopPc' = "flush"
    /\ stopIds' = {t \in Traces : pending[t] # {}}
    /\ stopSpans' = UNION {pending[t] : t \in Traces}
    /\ UNCHANGED <<unsent, pending, batchVars>>

StopBuilding == \E b \in building : b.by = "stop"

StopFinalize(t) ==
    /\ stopPc = "flush"
    /\ t \in stopIds
    /\ ~StopBuilding
    /\ stopIds' = stopIds \ {t}
    /\ IF pending[t] = {} THEN UNCHANGED <<pending, building>> ELSE Take(t, "stop")
    /\ UNCHANGED <<unsent, completed, panicked, stopPc, stopSpans>>

StopReturns ==
    /\ stopPc = "flush"
    /\ stopIds = {}
    /\ ~StopBuilding
    /\ stopPc' = "done"
    /\ UNCHANGED <<unsent, pending, batchVars, stopIds, stopSpans>>

-----------------------------------------------------------------------------
Next ==
    \/ \E s \in Spans : AddSpan(s)
    \/ \E t \in Traces : Finalize(t) \/ StopFinalize(t)
    \/ \E b \in building : Complete(b) \/ CompletePanics(b)
    \/ StopBegin
    \/ StopReturns

Spec == Init /\ [][Next]_vars

=============================================================================
