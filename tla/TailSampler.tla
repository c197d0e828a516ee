---------------------------- MODULE TailSampler -----------------------------
(***************************************************************************)
(* The tail-based sampler, internal/sampler/tail.go.                       *)
(*                                                                         *)
(* Every step is one critical section of s.mu, one expiry of a timer, or   *)
(* one run of the accept or reject callback outside the lock.  evaluate-   *)
(* Trace takes the lock twice, once to take the buffer and once to record  *)
(* the decision; the policies run in between.  As in Assembler.tla an      *)
(* armed timer may expire at any moment.                                   *)
(***************************************************************************)
EXTENDS Naturals, Sequences, FiniteSets, SequencesExt, FiniteSetsExt

CONSTANTS
    Traces,     \* trace ids
    Spans,      \* span objects; each is passed to AddSpan at most once
    traceOf,    \* the TraceID field of a span
    isError,    \* whether the status of a span is StatusError
    start, end, \* StartTime and EndTime of a span, both set
    hashKeeps,  \* whether the trace id passes the probabilistic policy
    Policies,   \* s.policies, a sequence of the names below
    Threshold,  \* of the latency policy
    MaxSize     \* s.maxSize

PolicyNames == {"error", "latency", "probabilistic"}

ASSUME TailConstants ==
    /\ traceOf \in [Spans -> Traces]
    /\ isError \in [Spans -> BOOLEAN]
    /\ start \in [Spans -> Nat]
    /\ end \in [Spans -> Nat]
    /\ hashKeeps \in [Traces -> BOOLEAN]
    /\ Policies \in Seq(PolicyNames)
    /\ Threshold \in Nat

ASSUME MaxSizeAssumption == MaxSize \in Nat \ {0}

VARIABLES
    unsent,     \* spans no caller has passed to AddSpan yet
    buffer,     \* s.buffer: the buffered spans of a trace, {} for no entry
    order,      \* the ids in s.buffer by firstAt
    decided,    \* s.decided: "keep", "drop", or "none" for no entry
    armed,      \* whether the timer of the entry in s.buffer is running
    orphaned,   \* running timers whose entry has left s.buffer already
    fired,      \* timer goroutines that have started evaluateTrace
    evals,      \* batches whose policies are being evaluated
    verdicts,   \* batches with a verdict, before accept or reject returns
    accepted,   \* spans passed to accept
    rejected,   \* spans dropped
    stopPc,     \* where the call of Stop is: "idle", "flush" or "done"
    stopIds     \* the ids Stop has collected and not evaluated yet

timerVars == <<armed, orphaned, fired>>
outVars   == <<accepted, rejected>>
stopVars  == <<stopPc, stopIds>>
vars == <<unsent, buffer, order, decided, timerVars, evals, verdicts, outVars, stopVars>>

-----------------------------------------------------------------------------
Decisions == {"keep", "drop"}
Callers   == {"timer", "stop", "sender"}
Batches   == [trace : Traces, spans : SUBSET Spans, by : Callers]
Verdicts  == [trace : Traces, spans : SUBSET Spans, by : Callers, verdict : Decisions]

TypeOK ==
    /\ unsent \in SUBSET Spans
    /\ buffer \in [Traces -> SUBSET Spans]
    /\ order \in Seq(Traces)
    /\ decided \in [Traces -> Decisions \cup {"none"}]
    /\ armed \in [Traces -> BOOLEAN]
    /\ orphaned \in [Traces -> Nat]
    /\ fired \in [Traces -> Nat]
    /\ evals \in SUBSET Batches
    /\ verdicts \in SUBSET Verdicts
    /\ accepted \in SUBSET Spans
    /\ rejected \in SUBSET Spans
    /\ stopPc \in {"idle", "flush", "done"}
    /\ stopIds \in SUBSET Traces

Init ==
    /\ unsent = Spans
    /\ buffer = [t \in Traces |-> {}]
    /\ order = <<>>
    /\ decided = [t \in Traces |-> "none"]
    /\ armed = [t \in Traces |-> FALSE]
    /\ orphaned = [t \in Traces |-> 0]
    /\ fired = [t \in Traces |-> 0]
    /\ evals = {} /\ verdicts = {}
    /\ accepted = {} /\ rejected = {}
    /\ stopPc = "idle" /\ stopIds = {}

-----------------------------------------------------------------------------
(* What a policy says about the spans of a trace.                          *)
Duration(spans) == Max({end[s] : s \in spans}) - Min({start[s] : s \in spans})

Votes(policy, t, spans) ==
    CASE policy = "error" ->
            IF \E s \in spans : isError[s] THEN "keep" ELSE "abstain"
      [] policy = "latency" ->
            IF Duration(spans) >= Threshold THEN "keep" ELSE "abstain"
      [] policy = "probabilistic" ->
            IF hashKeeps[t] THEN "keep" ELSE "drop"

(* Mutant of Verdict: the policies are asked from the last to the first.   *)
VerdictLastFirst(t, spans) ==
    LET asked == {p \in 1..Len(Policies) : Votes(Policies[p], t, spans) # "abstain"}
    IN IF asked = {} THEN "drop" ELSE Votes(Policies[Max(asked)], t, spans)

(* The first policy that does not abstain decides; the default is to drop. *)
Verdict(t, spans) ==
    LET asked == {p \in 1..Len(Policies) : Votes(Policies[p], t, spans) # "abstain"}
    IN IF asked = {} THEN "drop" ELSE Votes(Policies[Min(asked)], t, spans)

-----------------------------------------------------------------------------
(* AddSpan for a trace that has been decided: the span is dropped at once, *)
(* or passed to accept after s.mu is given up.                             *)
AddSpanDecided(s) ==
    LET t == traceOf[s] IN
    /\ s \in unsent
    /\ decided[t] # "none"
    /\ unsent' = unsent \ {s}
    /\ IF decided[t] = "keep"
         THEN /\ verdicts' = verdicts \cup
                     {[trace |-> t, spans |-> {s}, by |-> "sender", verdict |-> "keep"]}
              /\ UNCHANGED outVars
         ELSE /\ rejected' = rejected \cup {s}
              /\ UNCHANGED <<verdicts, accepted>>
    /\ UNCHANGED <<buffer, order, decided, timerVars, evals, stopVars>>

(* Mutant of NeedsRoom: a full buffer makes no room.                       *)
NeedsRoomOffByOne(t) == buffer[t] = {} /\ Len(order) > MaxSize

(* The condition under which AddSpan calls evictOldestLocked.              *)
NeedsRoom(t) == buffer[t] = {} /\ Len(order) >= MaxSize

(* Mutant of AddSpanBuffered: the old timer is stopped, no new one started *)
(* for an entry that was there.                                            *)
AddSpanBufferedKeepsTimer(s) ==
    LET t == traceOf[s] IN
    /\ s \in unsent
    /\ decided[t] = "none"
    /\ ~NeedsRoom(t)
    /\ buffer' = [buffer EXCEPT ![t] = @ \cup {s}]
    /\ order' = IF buffer[t] = {} THEN Append(order, t) ELSE order
    /\ armed' = [armed EXCEPT ![t] = buffer[t] = {}]
    /\ unsent' = unsent \ {s}
    /\ UNCHANGED <<decided, orphaned, fired, evals, verdicts, outVars, stopVars>>

(* AddSpan for a trace that has not: buffer the span and start a new timer *)
(* in place of the old one.                                                *)
AddSpanBuffered(s) ==
    LET t == traceOf[s] IN
    /\ s \in unsent
    /\ decided[t] = "none"
    /\ ~NeedsRoom(t)
    /\ buffer' = [buffer EXCEPT ![t] = @ \cup {s}]
    /\ order' = IF buffer[t] = {} THEN Append(order, t) ELSE order
    /\ armed' = [armed EXCEPT ![t] = TRUE]
    /\ unsent' = unsent \ {s}
    /\ UNCHANGED <<decided, orphaned, fired, evals, verdicts, outVars, stopVars>>

(* The same when the buffer is full: evictOldestLocked drops the trace     *)
(* with the smallest firstAt and records it as rejected, without the check *)
(* of the size of s.decided that recordDecisionLocked makes.               *)
AddSpanEvicting(s) ==
    LET t == traceOf[s]
        oldest == Head(order)
    IN
    /\ s \in unsent
    /\ decided[t] = "none"
    /\ NeedsRoom(t)
    /\ buffer' = [buffer EXCEPT ![oldest] = {}, ![t] = {s}]
    /\ order' = Append(Tail(order), t)
    /\ armed' = [armed EXCEPT ![oldest] = FALSE, ![t] = TRUE]
    /\ decided' = [decided EXCEPT ![oldest] = "drop"]
    /\ rejected' = rejected \cup buffer[oldest]
    /\ unsent' = unsent \ {s}
    /\ UNCHANGED <<orphaned, fired, evals, verdicts, accepted, stopVars>>

-----------------------------------------------------------------------------
TimerFires(t) ==
    /\ armed[t]
    /\ armed' = [armed EXCEPT ![t] = FALSE]
    /\ fired' = [fired EXCEPT ![t] = @ + 1]
    /\ UNCHANGED <<unsent, buffer, order, decided, orphaned, evals, verdicts, outVars, stopVars>>

OrphanFires(t) ==
    /\ orphaned[t] > 0
    /\ orphaned' = [orphaned EXCEPT ![t] = @ - 1]
    /\ fired' = [fired EXCEPT ![t] = @ + 1]
    /\ UNCHANGED <<unsent, buffer, order, decided, armed, evals, verdicts, outVars, stopVars>>

(* Mutant of TakeBuffer: the entry stays in s.buffer.                      *)
TakeBufferKeepsEntry(t, caller) ==
    /\ evals' = IF buffer[t] = {} THEN evals ELSE evals \cup
                   {[trace |-> t, spans |-> buffer[t], by |-> caller]}
    /\ UNCHANGED <<buffer, order, armed, orphaned>>

(* The first critical section of evaluateTrace.                            *)
TakeBuffer(t, caller) ==
    IF buffer[t] = {}
      THEN UNCHANGED <<buffer, order, armed, orphaned, evals>>
      ELSE /\ evals' = evals \cup {[trace |-> t, spans |-> buffer[t], by |-> caller]}
           /\ buffer' = [buffer EXCEPT ![t] = {}]
           /\ \E p \in 1..Len(order) : order[p] = t /\ order' = RemoveAt(order, p)
           /\ armed' = [armed EXCEPT ![t] = FALSE]
           /\ orphaned' = [orphaned EXCEPT ![t] = IF armed[t] THEN @ + 1 ELSE @]

TimerEvaluates(t) ==
    /\ fired[t] > 0
    /\ fired' = [fired EXCEPT ![t] = @ - 1]
    /\ TakeBuffer(t, "timer")
    /\ UNCHANGED <<unsent, decided, verdicts, outVars, stopVars>>

(* recordDecisionLocked: the whole map is cleared when it grows past twice *)
(* maxSize.                                                                *)
DecidedIds(d) == {t \in Traces : d[t] # "none"}

RecordDecision(t, verdict) ==
    LET d == [decided EXCEPT ![t] = verdict] IN
    decided' = IF Cardinality(DecidedIds(d)) > 2 * MaxSize
                 THEN [u \in Traces |-> IF u = t THEN verdict ELSE "none"]
                 ELSE d

(* The policies and the second critical section of evaluateTrace.          *)
Decide(e) ==
    LET verdict == Verdict(e.trace, e.spans) IN
    /\ e \in evals
    /\ evals' = evals \ {e}
    /\ RecordDecision(e.trace, verdict)
    /\ verdicts' = verdicts \cup
           {[trace |-> e.trace, spans |-> e.spans, by |-> e.by, verdict |-> verdict]}
    /\ UNCHANGED <<unsent, buffer, order, timerVars, outVars, stopVars>>

(* Mutant of Apply: a rejected batch is forgotten, not counted.            *)
ApplyAcceptOnly(v) ==
    /\ v \in verdicts
    /\ v.verdict = "keep"
    /\ verdicts' = verdicts \ {v}
    /\ accepted' = accepted \cup v.spans
    /\ UNCHANGED <<unsent, buffer, order, decided, timerVars, evals, rejected, stopVars>>

(* accept or reject, outside the lock.                                     *)
Apply(v) ==
    /\ v \in verdicts
    /\ verdicts' = verdicts \ {v}
    /\ IF v.verdict = "keep"
         THEN accepted' = accepted \cup v.spans /\ UNCHANGED rejected
         ELSE rejected' = rejected \cup v.spans /\ UNCHANGED accepted
    /\ UNCHANGED <<unsent, buffer, order, decided, timerVars, evals, stopVars>>

-----------------------------------------------------------------------------
(* Stop: stop the timers and note the ids under s.mu, then evaluate them   *)
(* one after the other.                                                    *)
StopBegin ==
    /\ stopPc = "idle"
    /\ stopPc' = "flush"
    /\ stopIds' = {t \in Traces : buffer[t] # {}}
    /\ armed' = [t \in Traces |-> FALSE]
    /\ UNCHANGED <<unsent, buffer, order, decided, orphaned, fired, evals, verdicts, outVars>>

StopBusy == \E b \in evals \cup verdicts : b.by = "stop"

StopEvaluates(t) ==
    /\ stopPc = "flush"
    /\ t \in stopIds
    /\ ~StopBusy
    /\ stopIds' = stopIds \ {t}
    /\ TakeBuffer(t, "stop")
    /\ UNCHANGED <<unsent, decided, fired, verdicts, outVars, stopPc>>

StopReturns ==
    /\ stopPc = "flush"
    /\ stopIds = {}
    /\ ~StopBusy
    /\ stopPc' = "done"
    /\ UNCHANGED <<unsent, buffer, order, decided, timerVars, evals, verdicts, outVars, stopIds>>

-----------------------------------------------------------------------------
AddSpan(s) == AddSpanDecided(s) \/ AddSpanBuffered(s) \/ AddSpanEvicting(s)

FinishEvaluation == (\E e \in evals : Decide(e)) \/ (\E v \in verdicts : Apply(v))

StopStep == StopReturns \/ \E t \in Traces : StopEvaluates(t)

Next ==
    \/ \E s \in Spans : AddSpan(s)
    \/ \E t \in Traces : TimerFires(t) \/ OrphanFires(t) \/ TimerEvaluates(t)
    \/ FinishEvaluation
    \/ StopBegin
    \/ StopStep

Spec == Init /\ [][Next]_vars

(* As in Assembler.tla: the runtime fires armed timers and runs ready      *)
(* goroutines; no caller has to send a span or call Stop.                  *)
Fairness ==
    /\ \A t \in Traces :
          WF_vars(TimerFires(t)) /\ WF_vars(OrphanFires(t)) /\ WF_vars(TimerEvaluates(t))
    /\ WF_vars(FinishEvaluation)
    /\ WF_vars(StopStep)

FairSpec == Spec /\ Fairness

-----------------------------------------------------------------------------
SpansOf(B) == UNION {b.spans : b \in B}
Buffer     == UNION {buffer[t] : t \in Traces}
InFlight   == SpansOf(evals) \cup SpansOf(verdicts)
Settled    == accepted \cup rejected

(* Every span gets one verdict: it is at any time in exactly one of the    *)
(* sender's hands, a buffer, one evaluation, accept or the bin.            *)
ExactlyOnce ==
    /\ \A s \in Spans : s \in unsent \cup Buffer \cup InFlight \cup Settled
    /\ unsent \cap (Buffer \cup InFlight \cup Settled) = {}
    /\ Buffer \cap (InFlight \cup Settled) = {}
    /\ InFlight \cap Settled = {}
    /\ accepted \cap rejected = {}
    /\ SpansOf(evals) \cap SpansOf(verdicts) = {}
    /\ \A b, c \in evals : b # c => b.spans \cap c.spans = {}
    /\ \A b, c \in verdicts : b # c => b.spans \cap c.spans = {}

(* At most maxSize traces are buffered, and the ids the eviction chooses   *)
(* from are the buffered ones, each once.                                  *)
BufferBounded ==
    /\ Len(order) <= MaxSize
    /\ \A t \in Traces : buffer[t] # {} <=> \E p \in 1..Len(order) : order[p] = t
    /\ \A p, q \in 1..Len(order) : order[p] = order[q] => p = q

(* A buffered trace always has a running timer, a goroutine on its way, or *)
(* a Stop that has noted its id.                                           *)
NoStrandedTrace ==
    \A t \in Traces : buffer[t] # {} =>
        armed[t] \/ fired[t] > 0 \/ (stopPc = "flush" /\ t \in stopIds)

(* SAMPLING.md "Can keep ALL error traces": with the error policy first,   *)
(* no evaluation votes an error span down; an error span is lost only to   *)
(* an eviction or to an earlier decision on its trace.                     *)
ErrorsNotVotedDown ==
    Len(Policies) > 0 /\ Policies[1] = "error" =>
        \A v \in verdicts : v.verdict = "drop" => \A s \in v.spans : ~isError[s]

(* Every buffered span is accepted or rejected in the end.                 *)
EventuallySettled ==
    \A s \in Spans : (s \in Buffer) ~> (s \in Settled)

=============================================================================
