------------------------------ MODULE Sampling ------------------------------
(***************************************************************************)
(* How api/pipeline.go samples: the loop of IngestSpans up to the channel, *)
(* the cache of head-sampling decisions, SwapSampler, and the Stop of the  *)
(* sampler in Shutdown.                                                    *)
(*                                                                         *)
(* A kept span is in `assembling' until onComplete of its trace, which     *)
(* clears the cached decision; Pipeline.tla models what is in between.  A  *)
(* tail sampler appears by what it promises: it buffers a span or treats   *)
(* it as its trace was decided, and accepts or rejects what it buffered    *)
(* when a timer expires or Stop is called; TailSampler.tla is the detail.  *)
(***************************************************************************)
EXTENDS Naturals, Sequences, FiniteSets, SequencesExt, FiniteSetsExt

CONSTANTS
    Traces, Spans, traceOf,
    isValid,            \* neither the trace id nor the span id is zero
    isRoot,             \* span.IsRoot()
    startTime,          \* span.StartTime, 0 for the zero time
    Requests,           \* calls of IngestSpans
    spansOf,            \* the spans of a call, in order
    Samplers,           \* sampler objects
    TailSamplers,       \* the TailSamplers among them
    AdaptiveSamplers,   \* the AdaptiveSamplers, whose Stop closes a channel
    FirstSampler,       \* the sampler NewPipeline is given
    results,            \* results[x][s]: what x.ShouldSample may say of s
    Swaps,              \* calls of SwapSampler
    swapTo,             \* the sampler, built for the call, that it installs
    DecisionsExpire,    \* whether traceDecisionTTL may elapse
    None

Decisions == {"keep", "drop"}
Shutdown  == "shutdown"
Stoppers  == Swaps \cup {Shutdown}

ASSUME SamplingConstants ==
    /\ traceOf \in [Spans -> Traces]
    /\ isValid \in [Spans -> BOOLEAN]
    /\ isRoot \in [Spans -> BOOLEAN]
    /\ startTime \in [Spans -> Nat]
    /\ spansOf \in [Requests -> Seq(Spans)]
    /\ TailSamplers \subseteq Samplers
    /\ AdaptiveSamplers \subseteq Samplers \ TailSamplers
    /\ FirstSampler \in Samplers
    /\ results \in [Samplers -> [Spans -> (SUBSET Decisions) \ {{}}]]
    /\ swapTo \in [Swaps -> Samplers \ {FirstSampler}]
    /\ \A a, b \in Swaps : swapTo[a] = swapTo[b] => a = b
    /\ DecisionsExpire \in BOOLEAN
    /\ None \notin Samplers
    /\ Shutdown \notin Swaps

(* A span object belongs to one call and occurs in it once.                *)
ASSUME SpansDistinct ==
    \A r, q \in Requests : \A i \in 1..Len(spansOf[r]), j \in 1..Len(spansOf[q]) :
        spansOf[r][i] = spansOf[q][j] => r = q /\ i = j

VARIABLES
    pc,         \* where a call of IngestSpans is in its loop
    idx,        \* the index of the span it works on
    read,       \* the sampler it has read for this span
    dropped,    \* spans dropped: invalid, or by a sampler
    assembling, \* the kept spans of a trace, before onComplete
    assembled,  \* spans of traces that have completed
    sampler,    \* p.sampler
    decisions,  \* p.traceDecisions: [result, by], or None
    buffered,   \* the spans in the buffer of a tail sampler
    stage,      \* where a call of SwapSampler, or Shutdown, is
    target,     \* the sampler it stops
    flushIds,   \* the ids that TailSampler.Stop has still to evaluate
    stopped     \* the adaptive samplers that have been stopped

reqVars  == <<pc, idx, read>>
outVars  == <<dropped, assembling, assembled>>
stopVars == <<stage, target, flushIds, stopped>>
vars == <<reqVars, outVars, sampler, decisions, buffered, stopVars>>

-----------------------------------------------------------------------------
TypeOK ==
    /\ pc \in [Requests -> {"loop", "decide"}]
    /\ idx \in [Requests -> Nat]
    /\ \A r \in Requests : idx[r] \in 1 .. Len(spansOf[r]) + (IF pc[r] = "loop" THEN 1 ELSE 0)
    /\ read \in [Requests -> Samplers \cup {None}]
    /\ dropped \in SUBSET Spans
    /\ assembling \in [Traces -> SUBSET Spans]
    /\ assembled \in SUBSET Spans
    /\ sampler \in Samplers
    /\ decisions \in [Traces -> [result : Decisions, by : Samplers \ TailSamplers] \cup {None}]
    /\ buffered \in [TailSamplers -> SUBSET Spans]
    /\ stage \in [Stoppers -> {"idle", "clear", "stop", "flush", "done", "panicked"}]
    /\ target \in [Stoppers -> Samplers \cup {None}]
    /\ flushIds \in [Stoppers -> SUBSET Traces]
    /\ stopped \in SUBSET AdaptiveSamplers

Init ==
    /\ pc = [r \in Requests |-> "loop"]
    /\ idx = [r \in Requests |-> 1]
    /\ read = [r \in Requests |-> None]
    /\ dropped = {} /\ assembled = {}
    /\ assembling = [t \in Traces |-> {}]
    /\ sampler = FirstSampler
    /\ decisions = [t \in Traces |-> None]
    /\ buffered = [x \in TailSamplers |-> {}]
    /\ stage = [a \in Stoppers |-> "idle"]
    /\ target = [a \in Stoppers |-> None]
    /\ flushIds = [a \in Stoppers |-> {}]
    /\ stopped = {}

-----------------------------------------------------------------------------
(* What becomes of a set of spans of one trace: they are dropped, or kept  *)
(* and go to the assembler.                                                *)
Settle(t, spans, decision) ==
    IF decision = "drop"
      THEN dropped' = dropped \cup spans /\ UNCHANGED <<assembling, assembled>>
      ELSE /\ assembling' = [assembling EXCEPT ![t] = @ \cup spans]
           /\ UNCHANGED <<dropped, assembled>>

Current(r) == spansOf[r][idx[r]]

(* The call is done with its current span and goes on to the next.         *)
Advance(r) ==
    /\ pc' = [pc EXCEPT ![r] = "loop"]
    /\ idx' = [idx EXCEPT ![r] = @ + 1]
    /\ read' = [read EXCEPT ![r] = None]

DropsInvalid(r) ==
    /\ pc[r] = "loop"
    /\ idx[r] <= Len(spansOf[r])
    /\ ~isValid[Current(r)]
    /\ Settle(traceOf[Current(r)], {Current(r)}, "drop")
    /\ Advance(r)
    /\ UNCHANGED <<sampler, decisions, buffered, stopVars>>

(* p.mu.RLock: the sampler for this span, whatever happens afterwards.     *)
ReadsSampler(r) ==
    /\ pc[r] = "loop"
    /\ idx[r] <= Len(spansOf[r])
    /\ isValid[Current(r)]
    /\ pc' = [pc EXCEPT ![r] = "decide"]
    /\ read' = [read EXCEPT ![r] = sampler]
    /\ UNCHANGED <<idx, outVars, sampler, decisions, buffered, stopVars>>

(* TailSampler.AddSpan: the span is buffered, or its trace was decided.    *)
TailAdds(r) ==
    LET s == Current(r) IN
    /\ pc[r] = "decide"
    /\ read[r] \in TailSamplers
    /\ \/ buffered' = [buffered EXCEPT ![read[r]] = @ \cup {s}] /\ UNCHANGED outVars
       \/ \E d \in Decisions : Settle(traceOf[s], {s}, d) /\ UNCHANGED buffered
    /\ Advance(r)
    /\ UNCHANGED <<sampler, decisions, stopVars>>

(* The span a trace is judged by: the root in the same call that starts    *)
(* first, if there is one; the zero time counts as unknown.                *)
DecisionSpan(r, s) ==
    LET batch == spansOf[r]
        roots == {i \in 1..Len(batch) : isRoot[batch[i]] /\ traceOf[batch[i]] = traceOf[s]}
        timed == {i \in roots : startTime[batch[i]] # 0}
        first == {i \in timed : \A j \in timed : startTime[batch[i]] <= startTime[batch[j]]}
    IN CASE first # {} -> batch[Min(first)]
         [] first = {} /\ roots # {} -> batch[Min(roots)]
         [] OTHER -> s

(* Mutant of HeadDecides: the cached decision is not looked up.            *)
HeadDecidesAfresh(r) ==
    LET s == Current(r)
        x == read[r]
    IN
    /\ pc[r] = "decide"
    /\ x \notin TailSamplers
    /\ \E d \in results[x][DecisionSpan(r, s)] :
          /\ decisions' = [decisions EXCEPT ![traceOf[s]] = [result |-> d, by |-> x]]
          /\ Settle(traceOf[s], {s}, d)
    /\ Advance(r)
    /\ UNCHANGED <<sampler, buffered, stopVars>>

(* traceSamplingDecisionForSpan, under traceDecisionMu: the cached         *)
(* decision, or that of the sampler read before, which is then cached.     *)
HeadDecides(r) ==
    LET s == Current(r)
        x == read[r]
        t == traceOf[s]
    IN
    /\ pc[r] = "decide"
    /\ x \notin TailSamplers
    /\ \/ /\ decisions[t] # None
          /\ Settle(t, {s}, decisions[t].result)
          /\ UNCHANGED decisions
       \/ /\ decisions[t] = None
          /\ \E d \in results[x][DecisionSpan(r, s)] :
                /\ decisions' = [decisions EXCEPT ![t] = [result |-> d, by |-> x]]
                /\ Settle(t, {s}, d)
    /\ Advance(r)
    /\ UNCHANGED <<sampler, buffered, stopVars>>

-----------------------------------------------------------------------------
(* traceDecisionTTL has passed since the entry was last used: a lookup     *)
(* ignores it and a sweep deletes it.                                      *)
DecisionExpires(t) ==
    /\ DecisionsExpire
    /\ decisions[t] # None
    /\ decisions' = [decisions EXCEPT ![t] = None]
    /\ UNCHANGED <<reqVars, outVars, sampler, buffered, stopVars>>

(* The assembler completes a trace; its callback clears the decision.      *)
Completes(t) ==
    /\ assembling[t] # {}
    /\ assembled' = assembled \cup assembling[t]
    /\ assembling' = [assembling EXCEPT ![t] = {}]
    /\ decisions' = [decisions EXCEPT ![t] = None]
    /\ UNCHANGED <<reqVars, dropped, sampler, buffered, stopVars>>

(* A tail sampler accepts or rejects what it has buffered of a trace.      *)
TailDecides(x, t) ==
    LET taken == {s \in buffered[x] : traceOf[s] = t} IN
    /\ buffered' = [buffered EXCEPT ![x] = @ \ taken]
    /\ \E d \in Decisions : Settle(t, taken, d)

(* Mutant of TailTimer: the timers of a sampler that was replaced are off. *)
TailTimerInstalled(x, t) ==
    /\ x = sampler
    /\ \E s \in buffered[x] : traceOf[s] = t
    /\ TailDecides(x, t)
    /\ UNCHANGED <<reqVars, sampler, decisions, stopVars>>

TailTimer(x, t) ==
    /\ \E s \in buffered[x] : traceOf[s] = t
    /\ TailDecides(x, t)
    /\ UNCHANGED <<reqVars, sampler, decisions, stopVars>>

-----------------------------------------------------------------------------
Moves(a, to) == stage' = [stage EXCEPT ![a] = to]

(* SwapSampler: under p.mu, then clearAllTraceDecisions, then old.Stop().  *)
SwapReplaces(a) ==
    /\ stage[a] = "idle"
    /\ target' = [target EXCEPT ![a] = sampler]
    /\ sampler' = swapTo[a]
    /\ Moves(a, "clear")
    /\ UNCHANGED <<reqVars, outVars, decisions, buffered, flushIds, stopped>>

SwapClears(a) ==
    /\ stage[a] = "clear"
    /\ decisions' = [t \in Traces |-> None]
    /\ Moves(a, "stop")
    /\ UNCHANGED <<reqVars, outVars, sampler, buffered, target, flushIds, stopped>>

(* Shutdown: GetSampler, then Stop.                                        *)
ShutdownReads ==
    /\ stage[Shutdown] = "idle"
    /\ target' = [target EXCEPT ![Shutdown] = sampler]
    /\ Moves(Shutdown, "stop")
    /\ UNCHANGED <<reqVars, outVars, sampler, decisions, buffered, flushIds, stopped>>

(* Stop of a head sampler: none for most, and for an adaptive one the      *)
(* close of a channel, which panics the second time.                       *)
StopsHead(a) ==
    /\ stage[a] = "stop"
    /\ target[a] \notin TailSamplers
    /\ Moves(a, IF target[a] \in stopped THEN "panicked" ELSE "done")
    /\ stopped' = stopped \cup ({target[a]} \cap AdaptiveSamplers)
    /\ UNCHANGED <<reqVars, outVars, sampler, decisions, buffered, target, flushIds>>

(* Stop of a tail sampler: note the buffered ids, then evaluate them.      *)
StopsTail(a) ==
    /\ stage[a] = "stop"
    /\ target[a] \in TailSamplers
    /\ Moves(a, "flush")
    /\ flushIds' = [flushIds EXCEPT ![a] = {traceOf[s] : s \in buffered[target[a]]}]
    /\ UNCHANGED <<reqVars, outVars, sampler, decisions, buffered, target, stopped>>

FlushesTail(a, t) ==
    /\ stage[a] = "flush"
    /\ t \in flushIds[a]
    /\ flushIds' = [flushIds EXCEPT ![a] = @ \ {t}]
    /\ TailDecides(target[a], t)
    /\ UNCHANGED <<reqVars, sampler, decisions, stage, target, stopped>>

TailStopped(a) ==
    /\ stage[a] = "flush"
    /\ flushIds[a] = {}
    /\ Moves(a, "done")
    /\ UNCHANGED <<reqVars, outVars, sampler, decisions, buffered, target, flushIds, stopped>>

-----------------------------------------------------------------------------
RequestStep(r) == DropsInvalid(r) \/ ReadsSampler(r) \/ TailAdds(r) \/ HeadDecides(r)

StopStep(a) ==
    StopsHead(a) \/ StopsTail(a) \/ TailStopped(a) \/ \E t \in Traces : FlushesTail(a, t)

Next ==
    \/ \E r \in Requests : RequestStep(r)
    \/ \E t \in Traces : DecisionExpires(t) \/ Completes(t)
    \/ \E x \in TailSamplers, t \in Traces : TailTimer(x, t)
    \/ \E a \in Swaps : SwapReplaces(a) \/ SwapClears(a)
    \/ ShutdownReads
    \/ \E a \in Stoppers : StopStep(a)

Spec == Init /\ [][Next]_vars

(* Calls in progress and armed timers go on; nobody has to call anything.  *)
Fairness ==
    /\ \A r \in Requests : WF_vars(RequestStep(r))
    /\ \A t \in Traces : WF_vars(Completes(t))
    /\ \A x \in TailSamplers, t \in Traces : WF_vars(TailTimer(x, t))
    /\ \A a \in Stoppers : WF_vars(StopStep(a))

FairSpec == Spec /\ Fairness

-----------------------------------------------------------------------------
Waiting == UNION {{spansOf[r][i] : i \in idx[r]..Len(spansOf[r])} : r \in Requests}

(* As long as the decision on a trace is cached, every span of the trace   *)
(* fares alike, whichever calls bring them and whichever sampler those     *)
(* have read: the entry changes only by being deleted, and a span is       *)
(* dropped or kept as the entry says.                                      *)
OneDecisionPerEntry ==
    [][/\ \A t \in Traces :
             decisions[t] # None /\ decisions'[t] # None => decisions'[t] = decisions[t]
       /\ \A r \in Requests : HeadDecides(r) =>
             decisions'[traceOf[Current(r)]].result =
                 IF Current(r) \in dropped' THEN "drop" ELSE "keep"]_vars

(* Every span a call has taken is dropped or assembled in the end, also    *)
(* one that is added to a tail sampler after SwapSampler or Shutdown has   *)
(* stopped it.                                                             *)
EventuallySettled ==
    \A s \in Spans : (s \notin Waiting) ~> (s \in dropped \cup assembled)

-----------------------------------------------------------------------------
(* docs/architecture.md:95 "keeps head-sampling decisions trace-consistent *)
(* in the pipeline so a trace is not partially dropped across spans".      *)
TraceNotSplit ==
    \A s, u \in Spans : traceOf[s] = traceOf[u] /\ isValid[s] =>
        ~(s \in dropped /\ u \in assembling[traceOf[u]] \cup assembled)

=============================================================================
