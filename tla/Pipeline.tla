------------------------------ MODULE Pipeline ------------------------------
(***************************************************************************)
(* The ingest pipeline from a sampled span to the store, and its end:      *)
(* the worker channel, the workers, onComplete and Shutdown of             *)
(* api/pipeline.go with the drain of cmd/collector/main.go.                *)
(*                                                                         *)
(* The assembler is AssemblerContract.tla.  What the sampler says of a     *)
(* span is left open; Sampling.tla models how it is asked.  The iterations *)
(* of the loop of IngestSpans share nothing here, so every span stands for *)
(* a request of its own.  Metrics, the event bus and the counters of Stats *)
(* are left out: no step reads them.                                       *)
(***************************************************************************)
EXTENDS Naturals, Sequences, FiniteSets, SequencesExt

CONSTANTS
    Traces, Spans, traceOf,
    transport,          \* of the request a span is in: "http" or "grpc"
    Workers,            \* the worker goroutines, workerCount of them
    QueueDepth,         \* workerQueueDepth
    None

ASSUME PipelineConstants ==
    /\ traceOf \in [Spans -> Traces]
    /\ transport \in [Spans -> {"http", "grpc"}]
    /\ QueueDepth \in Nat \ {0}
    /\ None \notin Spans /\ "exited" \notin Spans /\ None # "exited"

ASSUME WorkersAssumption == Workers # {}

VARIABLES
    unsent, pending, building, completed, panicked,     \* AssemblerContract
    stopPc, stopIds, stopSpans,
    upserted,   \* batches in building whose store.Upsert has returned
    stored,     \* the spans of the trace in the store, {} for none
    pc,         \* where the request of a span is
    dropped,    \* spans dropped as invalid or by the sampler
    queue,      \* p.workCh
    closed,     \* whether p.workCh is closed
    worker,     \* the span a worker processes, None, or "exited"
    buffered,   \* the spans a tail sampler has buffered
    accepting,  \* spans its accept callback has still to process: [span, by]
    shutdown,   \* where the body of Shutdown is
    caller,     \* the caller of Shutdown that sync.Once runs it for
    flushIds,   \* the ids TailSampler.Stop has still to evaluate
    main,       \* where main is
    expired,    \* whether the 10 seconds of shutdownCtx are over
    process,    \* "up", "exited" or "crashed"
    enqueued    \* history: the spans ever sent to p.workCh

asmVars    == <<unsent, pending, building, completed, panicked, stopPc, stopIds, stopSpans>>
storeVars  == <<upserted, stored>>
chanVars   == <<queue, closed, worker, enqueued>>
tailVars   == <<buffered, accepting>>
ingestVars == <<pc, dropped, chanVars, tailVars>>
downVars   == <<shutdown, caller, flushIds>>
mainVars   == <<main, expired, process>>
vars == <<asmVars, storeVars, ingestVars, downVars, mainVars>>

Asm == INSTANCE AssemblerContract

-----------------------------------------------------------------------------
Batches == [trace : Traces, spans : SUBSET Spans, by : {"timer", "stop"}]
Down    == {"idle", "sampler", "close", "wait", "assembler", "done", "timedOut"}

TypeOK ==
    /\ unsent \in SUBSET Spans
    /\ pending \in [Traces -> SUBSET Spans]
    /\ building \in SUBSET Batches
    /\ completed \in SUBSET Batches
    /\ panicked = {}
    /\ stopPc \in {"idle", "flush", "done"}
    /\ stopIds \in SUBSET Traces
    /\ stopSpans \in SUBSET Spans
    /\ upserted \in SUBSET building
    /\ stored \in [Traces -> SUBSET Spans]
    /\ pc \in [Spans -> {"client", "decide", "send", "inline", "answered", "panicked"}]
    /\ dropped \in SUBSET Spans
    /\ queue \in Seq(Spans) /\ Len(queue) <= QueueDepth
    /\ closed \in BOOLEAN
    /\ worker \in [Workers -> Spans \cup {None, "exited"}]
    /\ buffered \in SUBSET Spans
    /\ accepting \in SUBSET [span : Spans, by : {"timer", "stop"}]
    /\ shutdown \in Down
    /\ caller \in {None, "ctx", "main"}
    /\ flushIds \in SUBSET Traces
    /\ main \in {"serving", "signalled", "http", "grpc", "pipeline", "returned"}
    /\ expired \in BOOLEAN
    /\ process \in {"up", "exited", "crashed"}
    /\ enqueued \in SUBSET Spans

Init ==
    /\ Asm!Init
    /\ upserted = {} /\ stored = [t \in Traces |-> {}]
    /\ pc = [s \in Spans |-> "client"]
    /\ dropped = {} /\ enqueued = {}
    /\ queue = <<>> /\ closed = FALSE
    /\ worker = [w \in Workers |-> None]
    /\ buffered = {} /\ accepting = {}
    /\ shutdown = "idle" /\ caller = None /\ flushIds = {}
    /\ main = "serving" /\ expired = FALSE /\ process = "up"

-----------------------------------------------------------------------------
(* Requests.  srv.Shutdown and GracefulStop refuse new ones.               *)
Goes(s, to) == pc' = [pc EXCEPT ![s] = to]

Arrives(s) ==
    /\ pc[s] = "client"
    /\ main \in {"serving", "signalled"} \/ (main = "http" /\ transport[s] = "grpc")
    /\ Goes(s, "decide")
    /\ UNCHANGED <<asmVars, storeVars, dropped, chanVars, tailVars, downVars, mainVars>>

(* IngestSpans on one span up to the select: it is invalid or sampled out, *)
(* a head sampler keeps it, or a tail sampler takes it, which buffers it   *)
(* or, when its trace was decided, drops or processes it at once.          *)
Samples(s) ==
    /\ pc[s] = "decide"
    /\ \/ Goes(s, "answered") /\ dropped' = dropped \cup {s} /\ UNCHANGED buffered
       \/ Goes(s, "answered") /\ buffered' = buffered \cup {s} /\ UNCHANGED dropped
       \/ \E to \in {"send", "inline"} : Goes(s, to) /\ UNCHANGED <<dropped, buffered>>
    /\ UNCHANGED <<asmVars, storeVars, chanVars, accepting, downVars, mainVars>>

(* The select: a send to the channel, ...                                  *)
Enqueues(s) ==
    /\ pc[s] = "send"
    /\ ~closed
    /\ Len(queue) < QueueDepth
    /\ queue' = Append(queue, s)
    /\ enqueued' = enqueued \cup {s}
    /\ Goes(s, "answered")
    /\ UNCHANGED <<asmVars, storeVars, dropped, closed, worker, tailVars, downVars, mainVars>>

(* ... processSpan on the spot when the channel is full, ...               *)
FallsBack(s) ==
    /\ pc[s] = "send"
    /\ ~closed
    /\ Len(queue) >= QueueDepth
    /\ Goes(s, "inline")
    /\ UNCHANGED <<asmVars, storeVars, dropped, chanVars, tailVars, downVars, mainVars>>

(* ... or a panic when Shutdown has closed the channel.  An HTTP request   *)
(* is answered by middleware.Recoverer; nothing recovers a gRPC handler.   *)
SendPanics(s) ==
    /\ pc[s] = "send"
    /\ closed
    /\ Goes(s, "panicked")
    /\ process' = IF transport[s] = "grpc" THEN "crashed" ELSE process
    /\ UNCHANGED <<asmVars, storeVars, dropped, chanVars, tailVars, downVars, main, expired>>

(* processSpan by the request itself.                                      *)
ProcessesInline(s) ==
    /\ pc[s] = "inline"
    /\ Asm!AddSpan(s)
    /\ Goes(s, "answered")
    /\ UNCHANGED <<storeVars, dropped, chanVars, tailVars, downVars, mainVars>>

-----------------------------------------------------------------------------
(* The worker pool: range over p.workCh.                                   *)
WorkerTakes(w) ==
    /\ worker[w] = None
    /\ queue # <<>>
    /\ worker' = [worker EXCEPT ![w] = Head(queue)]
    /\ queue' = Tail(queue)
    /\ UNCHANGED <<asmVars, storeVars, pc, dropped, closed, enqueued, tailVars, downVars, mainVars>>

(* Mutant of WorkerProcesses: a worker drops its span when the channel is  *)
(* closed.                                                                 *)
WorkerProcessesUntilClosed(w) ==
    /\ worker[w] \in Spans
    /\ IF closed THEN UNCHANGED asmVars ELSE Asm!AddSpan(worker[w])
    /\ worker' = [worker EXCEPT ![w] = None]
    /\ UNCHANGED <<storeVars, pc, dropped, queue, closed, enqueued, tailVars, downVars, mainVars>>

WorkerProcesses(w) ==
    /\ worker[w] \in Spans
    /\ Asm!AddSpan(worker[w])
    /\ worker' = [worker EXCEPT ![w] = None]
    /\ UNCHANGED <<storeVars, pc, dropped, queue, closed, enqueued, tailVars, downVars, mainVars>>

(* Mutant of WorkerExits: a worker leaves when the channel is empty.       *)
WorkerExitsIdle(w) ==
    /\ worker[w] = None
    /\ queue = <<>>
    /\ worker' = [worker EXCEPT ![w] = "exited"]
    /\ UNCHANGED <<asmVars, storeVars, pc, dropped, queue, closed, enqueued, tailVars,
                   downVars, mainVars>>

(* The range ends when the channel is closed and empty.                    *)
WorkerExits(w) ==
    /\ worker[w] = None
    /\ closed
    /\ queue = <<>>
    /\ worker' = [worker EXCEPT ![w] = "exited"]
    /\ UNCHANGED <<asmVars, storeVars, pc, dropped, queue, closed, enqueued, tailVars,
                   downVars, mainVars>>

-----------------------------------------------------------------------------
(* A timer of the assembler, and its onComplete callback: store.Upsert     *)
(* replaces the trace, then the callback returns.                          *)
AssemblerTimer(t) ==
    /\ Asm!Finalize(t)
    /\ UNCHANGED <<storeVars, ingestVars, downVars, mainVars>>

Upserts(b) ==
    /\ b \in building \ upserted
    /\ stored' = [stored EXCEPT ![b.trace] = b.spans]
    /\ upserted' = upserted \cup {b}
    /\ UNCHANGED <<asmVars, ingestVars, downVars, mainVars>>

OnCompleteReturns(b) ==
    /\ b \in upserted
    /\ Asm!Complete(b)
    /\ upserted' = upserted \ {b}
    /\ UNCHANGED <<stored, ingestVars, downVars, mainVars>>

(* The tail sampler decides on what it has buffered of a trace; its accept *)
(* callback (handler_sampler.go) runs processSpan for each span.           *)
TailDecides(t, by) ==
    LET taken == {s \in buffered : traceOf[s] = t} IN
    /\ buffered' = buffered \ taken
    /\ \/ accepting' = accepting \cup [span : taken, by : {by}] /\ UNCHANGED dropped
       \/ dropped' = dropped \cup taken /\ UNCHANGED accepting

TailTimer(t) ==
    /\ \E s \in buffered : traceOf[s] = t
    /\ TailDecides(t, "timer")
    /\ UNCHANGED <<asmVars, storeVars, pc, chanVars, downVars, mainVars>>

TailProcesses(p) ==
    /\ p \in accepting
    /\ Asm!AddSpan(p.span)
    /\ accepting' = accepting \ {p}
    /\ UNCHANGED <<storeVars, pc, dropped, chanVars, buffered, downVars, mainVars>>

-----------------------------------------------------------------------------
(* The body of Shutdown runs once, for the first of two callers: the       *)
(* goroutine of StartWithContext, any time after the signal, or main when  *)
(* the servers have stopped.  It starts with Stop of the sampler.          *)
ShutdownBegins(by) ==
    /\ shutdown = "idle"
    /\ IF by = "ctx" THEN main # "serving" ELSE main = "pipeline"
    /\ caller' = by
    /\ shutdown' = "sampler"
    /\ flushIds' = {traceOf[s] : s \in buffered}
    /\ UNCHANGED <<asmVars, storeVars, ingestVars, mainVars>>

Flushing == \E p \in accepting : p.by = "stop"

SamplerFlushes(t) ==
    /\ shutdown = "sampler"
    /\ t \in flushIds
    /\ ~Flushing
    /\ flushIds' = flushIds \ {t}
    /\ TailDecides(t, "stop")
    /\ UNCHANGED <<asmVars, storeVars, pc, chanVars, shutdown, caller, mainVars>>

SamplerStopped ==
    /\ shutdown = "sampler"
    /\ flushIds = {}
    /\ ~Flushing
    /\ shutdown' = "close"
    /\ UNCHANGED <<asmVars, storeVars, ingestVars, caller, flushIds, mainVars>>

(* Mutant of ShutdownCloses: the channel is not closed.                    *)
ShutdownClosesNot ==
    /\ shutdown = "close"
    /\ shutdown' = "wait"
    /\ UNCHANGED <<asmVars, storeVars, ingestVars, caller, flushIds, mainVars>>

ShutdownCloses ==
    /\ shutdown = "close"
    /\ closed' = TRUE
    /\ shutdown' = "wait"
    /\ UNCHANGED <<asmVars, storeVars, pc, dropped, queue, worker, enqueued, tailVars,
                   caller, flushIds, mainVars>>

(* Mutant of ShutdownWaits: assembler.Stop without wg.Wait.                *)
ShutdownDoesNotWait ==
    /\ shutdown = "wait"
    /\ Asm!StopBegin
    /\ shutdown' = "assembler"
    /\ UNCHANGED <<storeVars, ingestVars, caller, flushIds, mainVars>>

(* wg.Wait is over: call assembler.Stop.                                   *)
ShutdownWaits ==
    /\ shutdown = "wait"
    /\ \A w \in Workers : worker[w] = "exited"
    /\ Asm!StopBegin
    /\ shutdown' = "assembler"
    /\ UNCHANGED <<storeVars, ingestVars, caller, flushIds, mainVars>>

(* main passes a context that expires, the other caller one that does not. *)
ShutdownTimesOut ==
    /\ shutdown = "wait"
    /\ caller = "main" /\ expired
    /\ shutdown' = "timedOut"
    /\ UNCHANGED <<asmVars, storeVars, ingestVars, caller, flushIds, mainVars>>

AssemblerFlushes(t) ==
    /\ Asm!StopFinalize(t)
    /\ UNCHANGED <<storeVars, ingestVars, downVars, mainVars>>

ShutdownReturns ==
    /\ Asm!StopReturns
    /\ shutdown' = "done"
    /\ UNCHANGED <<storeVars, ingestVars, caller, flushIds, mainVars>>

-----------------------------------------------------------------------------
(* main: the signal, srv.Shutdown, GracefulStop, Shutdown, return.         *)
Busy(kind) ==
    \E s \in Spans : transport[s] = kind /\ pc[s] \in {"decide", "send", "inline"}

MainGoes(from, to) ==
    /\ main = from
    /\ main' = to
    /\ UNCHANGED <<asmVars, storeVars, ingestVars, downVars, expired>>

Signal      == MainGoes("serving", "signalled") /\ UNCHANGED process
StopsHTTP   == MainGoes("signalled", "http") /\ UNCHANGED process
HTTPStopped == (~Busy("http") \/ expired) /\ MainGoes("http", "grpc") /\ UNCHANGED process
GRPCStopped == ~Busy("grpc") /\ MainGoes("grpc", "pipeline") /\ UNCHANGED process

(* main waits in sync.Once for the body, whoever runs it, and returns; the *)
(* process ends with every goroutine in it.                                *)
MainReturns ==
    /\ shutdown \in {"done", "timedOut"}
    /\ MainGoes("pipeline", "returned")
    /\ process' = "exited"

ContextExpires ==
    /\ main \in {"http", "grpc", "pipeline"}
    /\ ~expired
    /\ expired' = TRUE
    /\ UNCHANGED <<asmVars, storeVars, ingestVars, downVars, main, process>>

-----------------------------------------------------------------------------
(* Nothing runs once the process is down.                                  *)
RequestStep(s) ==
    /\ process = "up"
    /\ Samples(s) \/ Enqueues(s) \/ FallsBack(s) \/ SendPanics(s) \/ ProcessesInline(s)

WorkerStep(w) ==
    /\ process = "up"
    /\ WorkerTakes(w) \/ WorkerProcesses(w) \/ WorkerExits(w)

AssemblerStep(t) == process = "up" /\ AssemblerTimer(t)

TailStep(t) == process = "up" /\ TailTimer(t)

CallbackStep ==
    /\ process = "up"
    /\ \/ \E b \in building : Upserts(b) \/ OnCompleteReturns(b)
       \/ \E p \in accepting : TailProcesses(p)

ShutdownStep ==
    /\ process = "up"
    /\ \/ \E by \in {"ctx", "main"} : ShutdownBegins(by)
       \/ \E t \in Traces : SamplerFlushes(t) \/ AssemblerFlushes(t)
       \/ SamplerStopped \/ ShutdownCloses \/ ShutdownWaits \/ ShutdownTimesOut
       \/ ShutdownReturns

MainStep ==
    /\ process = "up"
    /\ StopsHTTP \/ HTTPStopped \/ GRPCStopped \/ MainReturns \/ ContextExpires

ClientStep == process = "up" /\ (Signal \/ \E s \in Spans : Arrives(s))

Next ==
    \/ ClientStep
    \/ \E s \in Spans : RequestStep(s)
    \/ \E w \in Workers : WorkerStep(w)
    \/ \E t \in Traces : AssemblerStep(t) \/ TailStep(t)
    \/ CallbackStep
    \/ ShutdownStep
    \/ MainStep

Spec == Init /\ [][Next]_vars

(* Every goroutine that can run does and armed timers fire.  No client has *)
(* to send anything and no signal has to come.                             *)
Fairness ==
    /\ \A s \in Spans : WF_vars(RequestStep(s))
    /\ \A w \in Workers : WF_vars(WorkerStep(w))
    /\ \A t \in Traces : WF_vars(AssemblerStep(t)) /\ WF_vars(TailStep(t))
    /\ WF_vars(CallbackStep)
    /\ WF_vars(ShutdownStep)
    /\ WF_vars(MainStep)

FairSpec == Spec /\ Fairness

-----------------------------------------------------------------------------
SpansIn(B)  == UNION {b.spans : b \in B}
Pending     == UNION {pending[t] : t \in Traces}
WithWorkers == {worker[w] : w \in Workers} \cap Spans

(* The places a span can be in, in the order in which it passes them.      *)
Places == <<
    {s \in Spans : pc[s] # "answered"},
    dropped, buffered, {p.span : p \in accepting},
    ToSet(queue), WithWorkers,
    Pending, SpansIn(building), SpansIn(completed) >>

(* No span is lost between the stages and none is processed twice: at any  *)
(* time a span is in exactly one place, in one copy.                       *)
ExactlyOnce ==
    /\ \A s \in Spans : Cardinality({p \in 1..Len(Places) : s \in Places[p]}) = 1
    /\ \A i, j \in 1..Len(queue) : queue[i] = queue[j] => i = j
    /\ \A v, w \in Workers : worker[v] \in Spans /\ worker[v] = worker[w] => v = w
    /\ \A b, c \in building \cup completed : b # c => b.spans \cap c.spans = {}
    /\ \A p, q \in accepting : p.span = q.span => p = q

(* "Shutdown drains worker processing" (pipeline.go:287): when it returns, *)
(* no span that ever went through p.workCh is in the channel, with a       *)
(* worker or pending in the assembler.                                     *)
ShutdownDrains ==
    shutdown = "done" => enqueued \cap (ToSet(queue) \cup WithWorkers \cup Pending) = {}

(* A span that has passed the sampler is handed to the store in the end,   *)
(* or dropped by a tail sampler, unless its request panics or the process  *)
(* ends first.                                                             *)
EventuallySettled ==
    \A s \in Spans : (pc[s] \in {"send", "answered"}) ~>
        (s \in dropped \cup SpansIn(completed) \/ pc[s] = "panicked" \/ process # "up")

(* After a signal the process ends, although main waits for gRPC requests  *)
(* and for the other caller of Shutdown without a deadline.                *)
ShutdownEnds == (main = "signalled") ~> (process # "up")

-----------------------------------------------------------------------------
(* docs/operations.md:132-137: the HTTP and gRPC servers drain before the  *)
(* workers do, so no request meets a closed channel.                       *)
NoIngestPanics == \A s \in Spans : pc[s] # "panicked"

=============================================================================
