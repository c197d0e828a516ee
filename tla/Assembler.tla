----------------------------- MODULE Assembler ------------------------------
(***************************************************************************)
(* The trace assembler, internal/processor/assembler.go.                   *)
(*                                                                         *)
(* Every step below is one critical section of a.mu, one expiry of a       *)
(* time.AfterFunc timer, or one run of the onComplete callback outside     *)
(* the lock.  Real time is left out: an armed timer may expire at any      *)
(* moment, and a timer goroutine may wait for a.mu as long as it likes.    *)
(***************************************************************************)
EXTENDS Naturals, FiniteSets

CONSTANTS
    Traces,     \* trace ids
    Spans,      \* span objects; each is passed to AddSpan at most once
    traceOf     \* the TraceID field of a span

ASSUME TraceOfType == traceOf \in [Spans -> Traces]

VARIABLES
    unsent,     \* spans no caller has passed to AddSpan yet
    pending,    \* a.pending: the spans of the entry of a trace, {} for no entry
    armed,      \* whether the timer of the entry in a.pending is running
    orphaned,   \* running timers whose entry has left a.pending already
    fired,      \* timer goroutines that have started finalize, before a.mu
    building,   \* batches taken from a.pending, before onComplete returns
    completed,  \* batches onComplete has processed
    panicked,   \* batches whose onComplete panicked; finalize recovers
    stopPc,     \* where the call of Stop is: "idle", "flush" or "done"
    stopIds,    \* the ids Stop has collected and not finalized yet
    stopSpans   \* history: the spans pending when Stop took a.mu

timerVars == <<armed, orphaned, fired>>
batchVars == <<building, completed, panicked>>
stopVars  == <<stopPc, stopIds, stopSpans>>
vars == <<unsent, pending, timerVars, batchVars, stopVars>>

-----------------------------------------------------------------------------
Batches == [trace : Traces, spans : SUBSET Spans, by : {"timer", "stop"}]

TypeOK ==
    /\ unsent \in SUBSET Spans
    /\ pending \in [Traces -> SUBSET Spans]
    /\ armed \in [Traces -> BOOLEAN]
    /\ orphaned \in [Traces -> Nat]
    /\ fired \in [Traces -> Nat]
    /\ building \in SUBSET Batches
    /\ completed \in SUBSET Batches
    /\ panicked \in SUBSET Batches
    /\ stopPc \in {"idle", "flush", "done"}
    /\ stopIds \in SUBSET Traces
    /\ stopSpans \in SUBSET Spans

Init ==
    /\ unsent = Spans
    /\ pending = [t \in Traces |-> {}]
    /\ armed = [t \in Traces |-> FALSE]
    /\ orphaned = [t \in Traces |-> 0]
    /\ fired = [t \in Traces |-> 0]
    /\ building = {}
    /\ completed = {}
    /\ panicked = {}
    /\ stopPc = "idle"
    /\ stopIds = {}
    /\ stopSpans = {}

-----------------------------------------------------------------------------
(* Mutant of AddSpan: no timer is started once Stop has been called.       *)
AddSpanNoTimerAfterStop(s) ==
    LET t == traceOf[s] IN
    /\ s \in unsent
    /\ unsent' = unsent \ {s}
    /\ pending' = [pending EXCEPT ![t] = @ \cup {s}]
    /\ armed' = [armed EXCEPT ![t] = @ \/ stopPc = "idle"]
    /\ UNCHANGED <<orphaned, fired, batchVars, stopVars>>

(* AddSpan: a new entry starts a timer, an existing one resets its timer;  *)
(* Reset also revives a timer that has expired but whose goroutine has not *)
(* reached a.mu.                                                           *)
AddSpan(s) ==
    LET t == traceOf[s] IN
    /\ s \in unsent
    /\ unsent' = unsent \ {s}
    /\ pending' = [pending EXCEPT ![t] = @ \cup {s}]
    /\ armed' = [armed EXCEPT ![t] = TRUE]
    /\ UNCHANGED <<orphaned, fired, batchVars, stopVars>>

(* The runtime fires the timer of the entry in a.pending.                  *)
TimerFires(t) ==
    /\ armed[t]
    /\ armed' = [armed EXCEPT ![t] = FALSE]
    /\ fired' = [fired EXCEPT ![t] = @ + 1]
    /\ UNCHANGED <<unsent, pending, orphaned, batchVars, stopVars>>

(* The runtime fires a timer that outlived its entry: finalize deletes the *)
(* entry without stopping its timer.                                       *)
OrphanFires(t) ==
    /\ orphaned[t] > 0
    /\ orphaned' = [orphaned EXCEPT ![t] = @ - 1]
    /\ fired' = [fired EXCEPT ![t] = @ + 1]
    /\ UNCHANGED <<unsent, pending, armed, batchVars, stopVars>>

(* Mutant of TakePending: the entry is not deleted from a.pending.         *)
TakePendingKeepsEntry(t, caller) ==
    /\ building' = IF pending[t] = {} THEN building ELSE building \cup
                      {[trace |-> t, spans |-> pending[t], by |-> caller]}
    /\ UNCHANGED <<pending, armed, orphaned>>

(* The critical section of finalize: take the spans and delete the entry,  *)
(* or return when there is none.                                           *)
TakePending(t, caller) ==
    IF pending[t] = {}
      THEN UNCHANGED <<pending, armed, orphaned, building>>
      ELSE /\ building' = building \cup
                  {[trace |-> t, spans |-> pending[t], by |-> caller]}
           /\ pending' = [pending EXCEPT ![t] = {}]
           /\ armed' = [armed EXCEPT ![t] = FALSE]
           /\ orphaned' = [orphaned EXCEPT ![t] = IF armed[t] THEN @ + 1 ELSE @]

(* A timer goroutine gets a.mu.  It finalizes whatever entry the trace has *)
(* now, be it the one whose timer started it or a later one.               *)
TimerFinalize(t) ==
    /\ fired[t] > 0
    /\ fired' = [fired EXCEPT ![t] = @ - 1]
    /\ TakePending(t, "timer")
    /\ UNCHANGED <<unsent, completed, panicked, stopVars>>

(* finalize after the lock: buildTree and onComplete; a panic of           *)
(* onComplete is recovered and logged, the trace is gone.                  *)
Complete(b) ==
    /\ b \in building
    /\ building' = building \ {b}
    /\ completed' = completed \cup {b}
    /\ UNCHANGED <<unsent, pending, timerVars, panicked, stopVars>>

CompletePanics(b) ==
    /\ b \in building
    /\ building' = building \ {b}
    /\ panicked' = panicked \cup {b}
    /\ UNCHANGED <<unsent, pending, timerVars, completed, stopVars>>

-----------------------------------------------------------------------------
(* Mutant of StopBegin: an entry whose timer Stop has stopped is skipped.  *)
StopBeginSkipsStopped ==
    /\ stopPc = "idle"
    /\ stopPc' = "flush"
    /\ stopIds' = {t \in Traces : pending[t] # {} /\ ~armed[t]}
    /\ stopSpans' = UNION {pending[t] : t \in Traces}
    /\ armed' = [t \in Traces |-> FALSE]
    /\ UNCHANGED <<unsent, pending, orphaned, fired, batchVars>>

(* Stop: under a.mu, stop the timers and note the ids; then, without it,   *)
(* finalize them one after the other.                                      *)
StopBegin ==
    /\ stopPc = "idle"
    /\ stopPc' = "flush"
    /\ stopIds' = {t \in Traces : pending[t] # {}}
    /\ stopSpans' = UNION {pending[t] : t \in Traces}
    /\ armed' = [t \in Traces |-> FALSE]
    /\ UNCHANGED <<unsent, pending, orphaned, fired, batchVars>>

StopBuilding == \E b \in building : b.by = "stop"

StopFinalize(t) ==
    /\ stopPc = "flush"
    /\ t \in stopIds
    /\ ~StopBuilding
    /\ stopIds' = stopIds \ {t}
    /\ TakePending(t, "stop")
    /\ UNCHANGED <<unsent, fired, completed, panicked, stopPc, stopSpans>>

(* Mutant of StopReturns: Stop returns without finalizing all its ids.     *)
StopReturnsEarly ==
    /\ stopPc = "flush"
    /\ ~StopBuilding
    /\ stopPc' = "done"
    /\ UNCHANGED <<unsent, pending, timerVars, batchVars, stopIds, stopSpans>>

StopReturns ==
    /\ stopPc = "flush"
    /\ stopIds = {}
    /\ ~StopBuilding
    /\ stopPc' = "done"
    /\ UNCHANGED <<unsent, pending, timerVars, batchVars, stopIds, stopSpans>>

-----------------------------------------------------------------------------
FinishBuilding == \E b \in building : Complete(b) \/ CompletePanics(b)

StopStep == StopReturns \/ \E t \in Traces : StopFinalize(t)

Next ==
    \/ \E s \in Spans : AddSpan(s)
    \/ \E t \in Traces : TimerFires(t) \/ OrphanFires(t) \/ TimerFinalize(t)
    \/ FinishBuilding
    \/ StopBegin
    \/ StopStep

Spec == Init /\ [][Next]_vars

(* The Go runtime fires an armed timer and runs a goroutine that is ready; *)
(* a.mu is not held for ever, and onComplete returns.  Nothing makes a     *)
(* caller send a span or call Stop.                                        *)
Fairness ==
    /\ \A t \in Traces :
          WF_vars(TimerFires(t)) /\ WF_vars(OrphanFires(t)) /\ WF_vars(TimerFinalize(t))
    /\ WF_vars(FinishBuilding)
    /\ WF_vars(StopStep)

FairSpec == Spec /\ Fairness

-----------------------------------------------------------------------------
(* The places a span can be.                                               *)
SpansOf(B) == UNION {b.spans : b \in B}
Pending    == UNION {pending[t] : t \in Traces}
HandedOn   == completed \cup panicked

(* No span is lost and none is handed on twice: a span is at any time in   *)
(* exactly one of the caller's hands, one pending entry or one batch.      *)
ExactlyOnce ==
    /\ \A s \in Spans :
          s \in unsent \cup Pending \cup SpansOf(building) \cup SpansOf(HandedOn)
    /\ unsent \cap (Pending \cup SpansOf(building) \cup SpansOf(HandedOn)) = {}
    /\ Pending \cap (SpansOf(building) \cup SpansOf(HandedOn)) = {}
    /\ SpansOf(building) \cap SpansOf(HandedOn) = {}
    /\ \A b, c \in building \cup HandedOn : b # c => b.spans \cap c.spans = {}

(* No entry is stranded: whatever the race between Reset, expiry, Stop and *)
(* the finalize of an older goroutine, an entry in a.pending always has a  *)
(* running timer, a timer goroutine on its way, or a Stop that has noted   *)
(* its id.                                                                 *)
NoStrandedEntry ==
    \A t \in Traces : pending[t] # {} =>
        armed[t] \/ fired[t] > 0 \/ (stopPc = "flush" /\ t \in stopIds)

(* When Stop returns, none of the spans that were pending when it was      *)
(* called is pending still, whoever finalized them.                        *)
StopFlushes == stopPc = "done" => stopSpans \cap Pending = {}

(* Every span passed to AddSpan is handed to onComplete in the end.        *)
EventuallyHandedOn ==
    \A s \in Spans : (s \in Pending) ~> (s \in SpansOf(HandedOn))

(* The assembler implements the grouping contract: what it has taken in    *)
(* and not handed on is what is pending or being built.                    *)
Grouping == INSTANCE SpanGrouping WITH
    held <- Pending \cup SpansOf(building),
    handedOn <- {b.spans : b \in HandedOn}

ImplementsGrouping == Grouping!Spec

(* Timers are invisible to the pipeline: the assembler implements the      *)
(* contract Pipeline.tla relies on, Stop included.                         *)
Contract == INSTANCE AssemblerContract

ImplementsContract == Contract!Spec

=============================================================================
