# A TLA+ model of the trace collector and its console

This directory is a verification project for the two programs of this repository: the collector, a Go
service that takes spans over HTTP and gRPC, samples them, assembles them into traces and serves them
from a store; and the web console, which searches and shows them. It holds TLA+ modules translated
from the source, TLC configurations that check them on small instances, and TLAPS proofs of the
results that matter most for every instance.

`PROJECT.json` maps every definition to the lines it models, and lists runs, mutants, findings,
hazards and theorems.

## 1. Inventory

A span travels `handler -> Pipeline.IngestSpans -> sampler -> workCh -> worker -> Assembler ->
onComplete -> Store`. Everything between the handler and the store runs in goroutines that share the
structures below; queries read the store concurrently. The console runs in one JavaScript thread per
browser tab, so its hazards are of another kind: every page keeps requests, timers and a stream of
events in flight while the user, the routes and the collector's data change under them.

| Part | State | Operations | Hard behaviour | What makes it correct |
|---|---|---|---|---|
| Assembler `internal/processor/assembler.go` | `pending`: entry per trace, a timer per entry | `AddSpan`, `finalize` (timer goroutine), `Stop` | a timer goroutine waits for `a.mu` while `AddSpan` resets its timer; `finalize` deletes an entry without stopping the timer; `Stop` runs beside both | every span in exactly one batch, no entry stranded, `Stop` flushes, every span handed on |
| Memory store `internal/storage/memory.go` | traces, three indexes, a timeline by `ReceivedAt` | `Upsert`, `Delete`, `EvictOlderThan`, `Query`, `List` | updates that change every indexed field, eviction loops, out-of-order arrival | indexes and timeline agree with the traces; capacity; searches agree with a scan; loops end; the oldest leaves |
| Tail sampler `internal/sampler/tail.go` | `buffer`, `decided`, a timer per buffered trace | `AddSpan`, eviction, `evaluateTrace`, `Stop` | `evaluateTrace` gives the lock up between taking the buffer and recording the decision | one verdict per span, bounded buffer, nothing stranded, errors kept |
| Sampling `api/pipeline.go` | the sampler, `traceDecisions` | `IngestSpans`, `traceSamplingDecisionForSpan`, `SwapSampler`, expiry, `Stop` | sampler read under one lock and used under another; swap and shutdown at once | spans of a trace fare alike while a decision is cached; spans given to a replaced sampler are settled |
| Pipeline and shutdown `api/pipeline.go`, `cmd/collector/main.go` | `workCh`, workers, `shutdownOnce`, main's progress | send, fall back, process, `onComplete`, `Shutdown`, the drain of `main` | two callers of `Shutdown`, a channel closed while requests run, a context that expires | each span in one place; the channel is drained before the assembler stops; shutdown ends |
| Badger store `internal/storage/badger.go` | a memory store and a disk | write-through `Upsert` and `Delete`, `loadAll` | crash between the writes; two writers of one trace; evictions not on disk | after a restart memory is what the disk says |
| Head samplers `internal/sampler/*.go` | token bucket, sliding window, adaptive rate and its goroutine, rules | `ShouldSample`, `Record`, `adjust`, `Stop` | bucket and window at their limits | rate bounded; window sums what is in it |
| Analysis `internal/analysis`, `buildTree` | none | critical path, parallel groups, gaps, comparison, dependency graph, tree | several roots, missing parents, cycles, ties | equal to a reference definition |
| Metrics `internal/metrics` | windows, histograms, heatmap, SLO | `Record`, snapshots | ring-buffer advance after long pauses | what is reported is what is in the window |
| Replication `api/replication.go` | counters | one goroutine per peer | a timeout after the peer has stored the spans | counters add up |
| Alerts `api/alerts.go` | the state per rule | periodic evaluation | flapping, notifications | one notification per transition |
| Lifecycle and queries `api/lifecycle.go`, `api/handler_query.go` | the store | import, archive, delete, paging | an import that fails half way; ties in an unstable sort | all or a known part imported; pages disjoint |
| API client `web/src/api/client.ts` | per call: timer, listener, `abortedByTimeout` | `fetchJSON`, timeout, abort | timeout, abort, headers, error bodies and unmount race; a body is out of reach of both | no call ends twice, nothing stays armed, timeouts are told from aborts |
| Status panel `hooks/useCollectorStatus.ts`, `components/SystemStatus.tsx`, `api/handler_health.go` | last answer, error, request id | poll every 15 s, unmount | late polls; a collector that drains, overflows or is silent | the newest poll is shown; silence is reported |
| Event bus and stream `api/sse.go`, `hooks/useSSE.ts` | a channel of 100 events per subscriber, `EventSource`, reconnect timer | `Subscribe`, `Broadcast`, reconnect, close | a slow subscriber, reconnect against unmount | one stream per mounted page, bounded channel |
| Search `hooks/useSearch.ts`, `pages/Search.tsx`, `store/tracingStore.ts` | filters, results, loading, error, debounce timer, live traces | edit, reset, retry, Load more, navigate | answers out of order, aborts that keep their id, paging while editing, live traces | the list is that of the filters, each trace once; loading ends |
| Trace page `pages/TraceDetail.tsx`, `components/waterfall` | trace, selection, drawer, span index | load, keys, clicks, span filter | the route changes under the page; spans with any parents | the trace of the route; one row per span, depth first |
| Compare, timeline, map, metrics, sampler `web/src/pages` | what is loaded, timers, draft, canvas | load, poll, edit, preview, confirm, drag | partial failures, closures of old renders, polls that abort each other | section 4, run `console` |
| Shell `App.tsx`, `Nav.tsx`, `AppErrorBoundary.tsx` | the mounted page | navigate, crash, reload | unmounting with everything in flight | nothing of a page outlives it |
| Wire formats, auth, metrics text, demo, presentation | none that another part depends on | | | not modelled (section 8) |

The hazards of `PROJECT.json` list, line by line, what is hard to test in each of these.

## 2. Plan

Done: `SpanGrouping`, `AssemblerContract`, `Assembler`, `MemoryStore`, `TailSampler`, `Sampling`,
`Pipeline`; of the console `ApiClient`, `Requests`, `RequestContract`, `CollectorStatus`,
`EventStream`, `SearchPage`, `SpanRows`, `TraceDetail`, `PageLoad` and the five pages that `Console`
composes. All of them except `SpanRows` have proofs (section 7).

Next, most important first:

1. `BadgerStore`: memory and disk, two writers, crash and reload.
2. `TraceTree`, `Analysis`: `buildTree`, critical path, parallel groups, gaps, comparison and
   dependency graph as operators, compared with reference definitions on all small traces.
3. `SlidingWindow` (both copies), `RateLimit`, `Adaptive`; `Replication`, `Alerts`, `Lifecycle`.

## 3. Modules

| Module | Models |
|---|---|
| `SpanGrouping` | abstract: spans are held, then handed on in batches of one trace, each span once |
| `AssemblerContract` | abstract: the assembler without its timers, as the pipeline uses it |
| `Assembler`, `MCAssembler`, `AssemblerProofs` | `assembler.go` |
| `MemoryStore`, `MCMemoryStore`, `MemoryStoreProofs` | `memory.go` |
| `TailSampler`, `MCTailSampler`, `TailSamplerProofs` | `tail.go` |
| `Sampling`, `MCSampling`, `SamplingProofs` | `pipeline.go` up to the channel, `SwapSampler`, the sampler's `Stop` |
| `Pipeline`, `MCPipeline`, `PipelineProofs` | `pipeline.go` from the channel to the store, `Shutdown`, `main.go`; composes `AssemblerContract` |
| `ApiClient` | `client.ts`: one call as a record, and what each event makes of it |
| `Requests`, `RequestContract` | abstract: the calls of one page in flight, as operators and as a specification |
| `CollectorStatus`, `MCCollectorStatus`, `CollectorStatusProofs` | `useCollectorStatus.ts` on `ApiClient`, `SystemStatus.tsx`, `handler_health.go`; implements `RequestContract` |
| `EventStream` | `useSSE.ts` and one subscriber of `sse.go` |
| `SearchPage`, `MCSearchPage`, `SearchPageProofs` | `useSearch.ts`, `Search.tsx`, `search-helpers.ts`, `tracingStore.ts`, `FilterBar.tsx`; on `Requests` |
| `SpanRows` | `span-layout.ts`, with the properties of its result |
| `TraceDetail`, `MCTraceDetail` | `TraceDetail.tsx`, `WaterfallChart.tsx`, `FlameGraph.tsx`, `SpanDrawer.tsx`; on `SpanRows` and `PageLoad`; proofs in `ConsoleProofs` |
| `PageLoad` | what the pages share: loading, error and requests, started, settled, failed, cleaned up |
| `ComparePage`, `TimelinePage`, `ServiceMapPage`, `MetricsPage`, `SamplerPage` | the page of that name; on `PageLoad`, the timeline also on `EventStream` |
| `Console`, `MCConsole`, `ConsoleProofs` | `App.tsx`, `Nav.tsx`, `AppErrorBoundary.tsx`; composes the five pages |

**Assembler.** Each action is one critical section of `a.mu`, one expiry of a timer, or one
`onComplete`. `armed` says whether the timer of an entry runs, `fired` counts goroutines that have
entered `finalize` and not reached the lock, and `orphaned` counts timers whose entry is gone. There
is no clock: an armed timer may expire at any time, which covers every timeout and delay. `Stop` is
called once, as `Shutdown` does behind `sync.Once`.

**MemoryStore.** A writer holds `s.mu` for a whole call (`call`), but its eviction loop takes a step
per iteration, so that a loop without progress is a behaviour of the model and `EvictionProgresses`
says something. An empty set stands for an index key the map does not have. Names are sequences of
tokens, so that `service:operation` keys are concatenated and cut as in the code. `Query` is the set
it selects; sorting, paging and the duration and attribute filters are left out. A trace has a list of
services of its own next to its spans: the assembler makes it from the spans (`ServicesOf`), an import
or a restore takes it from the client, and `Upsert` indexes the list, whatever the spans say.

**TailSampler.** `evaluateTrace` is three steps: take the buffer (first lock), judge it and record
the decision (second lock), call accept or reject. The id hash of the probabilistic policy is a
constant per trace; `decided` is cleared as a whole where the code does so. Span times are set, so
the order dependence that zero times would bring is left out.

**Sampling.** One call of `IngestSpans` is a loop over its spans with a step between reading the
sampler (`p.mu`) and using it (`traceDecisionMu`). Assembly is one variable: a kept span is being
assembled until `onComplete`, which also clears the cached decision. A tail sampler is reduced to
what `TailSampler` guarantees: it buffers, and later accepts or rejects.

**Pipeline.** Every span stands for a request of its own. `Shutdown` may be run by the goroutine of
`StartWithContext` as soon as the signal comes, or by `main`, whichever is first; the other waits in
`sync.Once`. A send on the closed channel panics: an HTTP handler is recovered by the middleware, a
gRPC handler is not and ends the process. When `main` returns, nothing runs any more. The 10 seconds
of `shutdownCtx` may be over at any time: an open SSE stream alone makes `srv.Shutdown` use them up.
The `Stats` counters, metrics and published events are left out because no step reads them.

**ApiClient.** `fetchJSON` returns `res.json()` without awaiting it. Its `finally` block therefore
runs when the headers are there, and neither the timeout nor the caller's abort reaches a call whose
body is being read. The body of an error status, on the other hand, is awaited inside the `try`, where
an abort is swallowed and the status reported. Both facts shape every page: `abort()` does not stop a
superseded request for certain, so the request id decides what is shown. An action is one macrotask
of the browser with the microtasks (promise handlers) it starts.

**Requests** is what remains of this for a page: a request is open (abort ends it) or in its body
(nothing does), and is the newest one or superseded. `CollectorStatus` has the calls in detail and is
proved to implement `RequestContract`; the pages use the abstraction. A page that unmounts forgets
its requests, because setters of an unmounted component have no effect.

**SearchPage.** `setFilters` runs the cleanup of the effect, which aborts but does not change the
request id: an open request then settles as the newest one and clears `loading`. The stream is reduced
to "a stored trace may be announced". Three filters stand for all: choosing a service resets the
operation, and the switch for errors leaves "all" behind, which must count as no filter. Pages are
appended by `MergeTracePages`, what is shown is merged by `MergeUniqueTraces`, as in the two files.

**TraceDetail.** The collector's traces are chosen once, over all contents the run gives, and so is
whether it is silent, in which case the timeout ends every request and the page reports it. The keys
`j`, `k` and Escape work in every page state, as in the code. A jump in the browser's history changes
the id without remounting the page. `visit` in `span-layout.ts` has no bound. In `SpanRows` a path that
is longer than the trace has spans, and would go on for ever, is cut and seen by `Overflows`; the chart
then throws and the error boundary takes the place of the page until the user restarts it.

**Console.** One page is mounted at a time and the data of the collector that it shows are chosen
when it mounts, so the state space is the sum of the pages', not the product. `silent` is a collector,
or a proxy, that accepts connections and sends nothing. The polls of the metrics and sampler pages come
faster than the timeout of 15 s; their requests therefore have no timeout action. The position of a
node of the map is the layout that placed it, or "dragged"; a request of the sampler page remembers
whether the closure that started it saw unsaved edits.

**SamplerPage.** `samplerConfig` is what was PUT, `Reported` what GET makes of it, and `DraftOf` what the
form makes of that. "always" stands for the strategies without a parameter, "ratelimit" for those whose
parameters GET reports by the names PUT takes (`rate`, `tracesPerSec`, `targetRate`, `minRate`,
`maxRate`), "tail" for the two whose settings it does not (tail and rules). The draft has the setting of
the selected strategy only. `fetchConfig` may run at any time, since events, the interval of 3 s and the
timer of each new effect start it. A PUT that the page has given up and that is applied late is, to the
page, a change by somebody else.

## 4. Runs

| Run | Instance | Checks |
|---|---|---|
| `assembler` | 4 spans, 2 traces | `ExactlyOnce`, `NoStrandedEntry`, `EventuallyHandedOn`, and that the assembler implements `AssemblerContract` |
| `store` | 4 ids, room for 3, 6 trace values, one of them imported with a list of services that is not that of its spans and one of a service with a colon, 8 queries, 3 instants | `IndexesAgree`, `TimelineIsIndex`, `WithinCapacity`, `QueryAgreesWithScan`, `EvictionProgresses`, `EvictsOldest`, `RetentionComplete` |
| `tail` | 4 spans, 3 traces, room for 1 | `ExactlyOnce` (one verdict per span), `BufferBounded`, `NoStrandedTrace`, `ErrorsNotVotedDown`, `EventuallySettled` |
| `sampling` | 2 calls, 3 valid spans of one trace and an invalid one, 2 swaps, shutdown, expiry | `OneDecisionPerEntry`; `EventuallySettled`, also for spans given to a sampler that was stopped |
| `pipeline` | 2 spans of one trace (HTTP, gRPC), 2 workers, channel of 1, fair | `ExactlyOnce` over nine places, `ShutdownDrains`, `EventuallySettled`, `ShutdownEnds` |
| `status` | 2 calls in flight | `ShowsNewest`, `NothingLeftArmed`, `SilenceIsReported`, and that the calls implement `RequestContract` |
| `search` | 3 traces, 2 services and operations of which one each can be chosen, errors or all, 2 pages of 1, list of 2, 1 superseded request | `LoadingIsNewest`, `FirstPageIsCurrent`, `CardsAreRight`, `SearchSettles` |
| `trace` | 2 ids; 24 traces of three spans, each parent none, missing or a span, with distinct ids; 13 traces of three or four spans of which two share an id | `TraceIsOfRoute`, `RowsAreTree`, `TraceSettles` |
| `console` | 2 traces to compare, 3 to draw with a limit of 2 and a channel of 2, 4 graphs, 3 lists of metrics, 2 rates (one invalid), 2 settings of a tail sampler, 1 PUT, 1 superseded request | `ComparisonIsOfUrl`, `AnnouncedIsDrawn`, `CanvasIsOfGraph`, `HeatmapIsOfFocus`, `PreviewIsDraft`, `MapReportsSilence`, `FormFollowsCollector` |

Every property of a passing run has a mutant in `PROJECT.json`: a changed definition under which TLC
finds the property violated.

The bounds are chosen so that the interesting cases happen. Three spans of a trace let an entry be
finalized, replaced and finalized again while a goroutine of the first is under way. A store with one
id more than its room evicts on inserts and on updates, and three instants give ties and late arrivals.
A tail sampler with room for one trace evicts at every new trace. A channel of one is full after one
span, so sends, fallbacks and panics all occur with two spans; the liveness check of three takes too
long. Two swaps make a sampler that is replaced, stopped and still used. On the pages one superseded
request is enough to be wrong, since the guards compare each request with the newest one only, and a
second one would be treated alike. Pages of one trace and three traces give a second page, and an
arrival that shifts it. A graph of two services, two of one and an empty one let services come, go and
be exchanged, with equal numbers and different names. Three spans have every shape that matters to
the rows: a chain, siblings out of order, two roots, a missing parent, and a cycle. Ids that repeat give
a root that is dropped, a subtree that is repeated, and a recursion that does not end. The two settings
of a tail sampler are the fallback of the form and another one, so a form that shows what the collector
does not have is a state of the run.

Deadlock is not checked where the system may stop for good: when all spans are in, or the process has
ended.

## 5. Where code and documentation differ

Each of these is a run that TLC must find violated, with the documented statement as its property.

| Run | Statement | What happens |
|---|---|---|
| `sampling_split` | a trace is not partially dropped (`docs/architecture.md:95`) | `onComplete` clears the decision, late spans are sampled anew |
| `pipeline_panic` | servers drain before the workers (`docs/operations.md:132`) | the channel is closed while requests run |
| `console_silence` | Metrics and Sampler surface request failures (`docs/frontend-audit.md:48`) | each poll aborts the one before it, whose timeout never comes: a silent collector is not reported |

Other differences met while modelling, which the models exhibit and no run is kept for:

- `memory.go:64`: the loop counts the trace that is being replaced, so an update in a full store
  evicts an unrelated trace; the comment at `memory.go:44` says "if over maxSize".
- `memory.go:345`: `List` queries and loads under two locks; a trace replaced in between is returned
  although it no longer matches. `List` changes nothing and is left out of the model.
- `adaptive.go:109`: a swap and `Shutdown` may both stop an adaptive sampler; the second `close`
  panics (stage "panicked" of `Sampling`) and the process dies undrained.
- `pipeline.go:85`: spans that come after their trace was finalized make a second batch, and its
  `Upsert` replaces the stored trace by the late spans alone.
- `assembler.go:13` and `SAMPLING.md:284` promise a quiet period. A timer goroutine that waits for
  the lock (`fired > 0`) finalizes or evaluates the trace although `AddSpan` has just reset the timer.
- `tail.go:175-199`: a span that comes between the two locks of `evaluateTrace` is buffered anew and
  judged on its own, so a trace may be kept in part.
- `tail.go:146`: an eviction adds to `decided` without the check of `recordDecisionLocked`; only the
  next evaluation bounds the map by twice `maxSize`.
- `pipeline.go:142-152`: a call that read the sampler before a swap caches that sampler's decision
  after the swap has cleared the cache.
- `pipeline.go:293`, `main.go:106`: spans accepted after the sampler was stopped, and batches of timer
  goroutines before `Upsert`, are lost when `main` returns.
- `memory.go:527`: `operationFromKey` cuts at the first colon, so a search by operation alone misses a
  service with a colon in its name. `QueryAgreesWithScan` is about traces and searches whose service
  names have none; the run has a trace with one.
- `lifecycle.go:274`: an imported trace keeps the list of services the client sent. A search by service
  goes by that list: it misses the trace under a service that only its spans have, and finds it under
  one that none has. `QueryAgreesWithScan` compares with the list of the trace, not with its spans.
- `span-layout.ts:19-51`: neither the assembler nor an import makes span ids distinct, and a retried
  export files a span twice. Of two roots with one id the second has no row; a subtree below an id that
  occurs twice is drawn twice; and a span with the id of one of its own ancestors makes `visit` recurse
  until the stack is exhausted and the error boundary replaces the page. `RowsAreTree` promises one row per span
  for distinct ids only.
- `ServiceMap.tsx:230`: once an empty graph is loaded, the page shows "No dependencies yet" and never an
  error, and a page that has no graph yet shows the same words from the start of a retry or poll to its
  end, against `docs/frontend-audit.md:48`. `MapReportsSilence` leaves the empty graph out; without
  that hypothesis TLC refutes it in the same instance.
- `tail.go:253`, `rules.go:96`: GET reports `timeoutSec` for the `bufferTimeoutSec` of a tail sampler, no
  policies, and of a rule sampler only how many rules it has, although `README.md:118` calls the answer
  "Current sampler config + stats" and `docs/runbooks.md:17` sends the operator to the Sampler page for the
  settings. `Sampler.tsx:173-175` then fills the form with 10 s and one error policy, or with one rule for
  everything; to preview and confirm this form, which counts as clean, replaces the settings by these.
  `FormFollowsCollector` promises the strategy of such a sampler only; TLC refutes more.
- `useSearch.ts:91`: the error of a superseded search is shown although its id is not the current one.
- `Search.tsx:107`: Load more during the 300 ms of a debounce appends page two of the new filters to
  the results of the old ones, against "pagination merge" and "stale response protection" of
  `docs/frontend.md:58-59`. `FirstPageIsCurrent` and the filters in `CardsAreRight` are therefore
  about the first page only.
- `Search.tsx:68`: the operations of an earlier service that arrive last are offered for the current
  one; nothing compares them, and the abort comes too late for a body. The options are not modelled.
- `dependency.go:93`: the callee of an edge is what the caller's span names in `peer.service` and need
  not have a node; `ServiceMap.tsx:167` draws the edge all the same. `CanvasIsOfGraph` is about the
  ends that are services of the graph, and the run has a graph with an edge to another.
- `client.ts:101`: the body of an answer has no timeout and cannot be aborted; the test
  `client.test.ts:55`, 'times out requests that never resolve', is about headers.
- `Timeline.tsx:37` asks for the oldest 200 traces (`sortDesc: 'false'`), while the page speaks of
  "recent trace arrivals". Announcements that come while the stream reconnects, or into a full
  channel, are not made up for, so `AnnouncedIsDrawn` is about received ones.
- `TraceDetail.tsx:175`: the drawer, the selected span and the span index stay when the id changes, so
  the drawer may show a span of the trace before; `j` and `k` clip the index to the new trace.
- `Compare.tsx:39`: the three calls see the collector at three moments, against the "consistent
  snapshot" of `docs/frontend.md:48`.
- `Metrics.tsx:169`: when the selected service has no metrics any more, the page says "No metrics yet"
  and offers no selector, although others have some.
- `Sampler.tsx:190`, `:301`: an answer delivered between the first edit and the next closure overwrites
  the edit; edits made while a PUT is in flight count as saved; the next poll clears an error.

## 6. Fairness

Liveness is checked under weak fairness of what the Go runtime does by itself: an armed timer fires,
a runnable goroutine runs, a mutex that is released again and again is obtained in the end (Go's mutex
hands over to a starving waiter after 1 ms), and a callback returns. No fairness is assumed of
clients, of signals, of swaps, or of the expiry of decisions. In `Pipeline` the fair actions are one
per request, worker, trace timer, the callbacks, `Shutdown` and `main`; each goroutine is sequential,
so weak fairness of its disjunction is what running it means. Callbacks share one condition, which
suffices because every callback step makes one of finitely many batches or spans go forward.

In the console the fair actions are the browser's timers (debounce, polls, timeouts) and the end of
the newest request of the search and trace pages: its timeout ends it before the headers, and a body
that has begun is assumed to end. `SilenceIsReported` and `MapReportsSilence` assume timers only.
What is reported must also be seen: `MapReportsSilence` is about the error on the page (`MapErrorShown`).
`FormFollowsCollector` assumes strong fairness of the answer to the newest poll of the sampler page:
each poll aborts the one before it, and a collector that is not silent answers in less than the 3 s of
the interval, if not every time then again and again. Nothing is assumed of the user, of events or of
the collector's data.

## 7. Proofs

Checked by TLAPS for all values of the constants, from the named assumptions of the modules only.

**AssemblerProofs**, from `TraceOfType`. `Inv` is
`TypeOK /\ Pure /\ ExactlyOnce /\ NoStrandedEntry /\ StopCovers`. `ExactlyOnce` alone is not
inductive. Entries must be known to hold spans of their own trace only (`Pure`), otherwise two entries
might share a span; and no batch may be empty, since taking an entry makes a set element that must be
new. `StopFlushes` needs `StopCovers`: a span `Stop` saw is pending only while its trace is still in
`stopIds`. One step per action, one sub-step per conjunct the action disturbs. From it:
`TypeCorrect`, `NoLossNoDuplicate`, `NeverStranded`, `StopIsComplete`; `Refinement` to `SpanGrouping`
and `ContractRefinement` to `AssemblerContract`, which is what allows `Pipeline` to leave the timers
out.

**MemoryStoreProofs**, from `MaxSizeAssumption`, `TimesAssumption`, `TraceValuesAssumption`,
`NoneAssumption` and, for `QueryIsScan`, `NamesAssumption` and `QueriesAssumption`. The indexes, the
timeline, its order and the capacity are inductive together, once the set of stored ids is known to be
finite and the trace that a running `Upsert` has detached is excepted. Lemmas say what `RemoveAt` and
`InsertAt` do to a timeline and what the index operators do to an index that agrees with its traces.
From it: `TypeCorrect`, `IndexesCorrect`, `TimelineCorrect`, `CapacityRespected`, `EvictionTakesOldest`,
`RetentionIsComplete`. `EvictionTerminates` needs `MaxSize > 1` as well: in a store for one trace the
update of that trace empties the timeline while the trace still counts, and the loop of `Upsert` would
spin with the lock held. The default is 10000. `QueryIsScan` is about any lists of services, those of
imported traces included, and its two assumptions only give the types of names and queries. `KeyParts`
shows that the key of a service without a colon has one first colon, the one it was made with, so that
keys of different pairs differ and `operationFromKey` gives the operation back; with the indexes
correct, each filter selects the traces that satisfy it. The colon is a hypothesis of the property, per
trace and query, not of the theorem.

**TailSamplerProofs**, from `TailConstants` and `MaxSizeAssumption`. The four properties of the run are
inductive together with the types and `Pure` (as in the assembler). The eviction needs `BufferBounded`
to know that the head of `order` has an entry; `ListsWithout` says what taking an id out of `order`
leaves. `ErrorsAreKept` needs which policy is asked first: the least number that does not abstain
exists because the naturals are well founded (`LeastElement`), and with the error policy first it is
the number 1.

**SamplingProofs**, from `SamplingConstants` and `SpansDistinct` (a span object is brought by one
call). `OneDecisionPerEntry` reads off `dropped'` how a span fared, which says something only if the
span was not there before. The invariant therefore says where all spans are (`Conserved`): still to be
taken, in the buffer of a tail sampler, dropped, being assembled, or assembled. This needs that no two
tail samplers hold a span, replaced ones included, that a call decides with a sampler it has read, and
that a flush is of a tail sampler. `SpansConserved` is a result in its own right: no interleaving of
calls, swaps, expiries and stops loses a span or passes it on twice. A head decision is typed because
`DecisionSpan` picks the least position of a non-empty set.

**PipelineProofs**, from `PipelineConstants` and `WorkersAssumption` (there are four workers,
`pipeline.go:50`). `ExactlyOnce` counts places. The proof works with the equivalent statement that the
nine places partition the spans, kept because every step moves a set of spans from one place to
another (`MoveKeepsPartition`), and counts at the end (`PartitionCounts`). `ShutdownIsComplete` needs
what each stage of `Shutdown` has established (`Draining`): once the channel is closed nothing enters
it, once the workers are gone it is empty, and then `Stop` covers what they left pending. Without a
worker nothing would drain the channel, hence the assumption.

**CollectorStatusProofs**, from `NoneAssumption`. `Consistent` says what the phase of a call implies
for its timer, listener, result and data; with it `NothingLeftArmed` and `ShowsNewest` are inductive.
`RequestRefinement` maps the calls to requests, one step to one step or a stutter, and so carries the
abstraction that every page is built on from the two calls of the run to any number.

**SearchPageProofs**, from `SearchAssumption`. `LoadingIsNewest` needs that an open request is the
newest and the only one (`OneNewest`): otherwise an abort could end the loading of a request that
stays. `FirstPageIsCurrent` needs that the newest request is of the current filters unless the
debounce timer is armed (`OfFilters`), and that a request carries an answer to its own filters
(`Honest`), from a moment at which the list was a tail of today's.

`CardsStayRight` is about lists filtered and merged. `SearchPage` filters with `Keep`, the elements of
a list at a set of positions, which is defined by counting instead of recursion, so that no induction
over lists is needed: counting the kept positions up to each one is an injection of the positions into
as many numbers, hence onto them (`Ranks`, from the cardinality of finite sets), so every element
comes from a kept position of its own (`KeepProperties`, `KeepInjective`). The announced traces then
stay without a repetition and within the limit (`Lists`). The cards match the filters because the
results are a page of these filters (`FirstPageIsCurrent`) and announced traces are blended in only
when no filter is active; this needs that `None` is not the status `"error"`.

The same counting shows what the lists do not lose. `KeepIsFilter`: the element of every kept position
is in the result, in the order of the positions. `MergeUniqueIsUnion`: `mergeUniqueTraces` shows every
trace of its two groups exactly once; every trace has a first position in the concatenation, because
the natural numbers are well-founded. `MergePagesAppends`: `mergeTracePages` leaves what is loaded in
its place, adds every trace of the new page and repeats none. So `LoadMoreLosesNothing`: whatever
traces came between two pages, an answer of *Load more* loses no loaded trace and none of its own.

**ConsoleProofs**, from the assumptions of the page modules: `None` is none of the values it stands
beside, limits are natural numbers, the empty graph and the empty list are possible answers, the
fallback of the tail settings can be typed too. One lemma per operator of `PageLoad` (started, answered,
settled, failed, cleaned up), one invariant per page, and the fact that a page that is not mounted is
off; each action of a page keeps the invariant of its page, frame lemmas keep the others. What each page
needs beyond its property is what its requests in flight will do: of which pair, graph or focus their
answer is, and that a late one is not the newest. The timeline needs the moment: an announcement that
found no timer armed armed one, so a load that sees the trace is still to come.

The module also extends `TraceDetail`, whose loads follow the same lemmas. `TraceFollowsRoute` needs
that an accepted answer carries the trace its request asked for (`OwnTrace`) and that the newest request
is for the id of the route unless the timer of the effect is armed (`OfRoute`). A restart from the error
boundary begins with the timer armed and no request. No assumption on the constants is used: it holds
for any contents of the traces.

The proof of `CanvasFollowsGraph` did not go through for the statement that both ends of every edge
are nodes. It needed graphs whose edges end in their services, which the collector does not promise
(section 5); statement and instance were corrected.

The seven `TypeCorrect`, `StopIsComplete`, `Refinement`, `SpansConserved` and the four results on the
lists of the search page are proved and not checked again in a run: their properties are parts of
inductive invariants, follow from what the run checks, or are about operators.

Only model-checked: all liveness properties, since fairness and ENABLED are out of the prover's reach;
and `RowsAreTree`, about what the recursion of `Visit` in `SpanRows` computes, which would need
induction over the tree of a trace and is compared with its properties on all small traces.

## 8. What is not modelled

- Parsing and formatting (DTOs, OTLP, Zipkin, propagation headers, Prometheus text, OpenAPI): no
  behaviour over time. A request appears as the spans it carries.
- Authentication and configuration endpoints: stateless or read-only.
- Demo generator, load tests, deployment files: not part of the system.
- Styling, dark mode, sizes, animations, colours, the sorting of tables, copying a link, exporting a
  chart, and the third-party controls. Drawing appears as the set of bars, rows, nodes or fields drawn.
- The options of the selects of the search page; the single fields of tail policies and rules; of the
  sampler strategies, three stand for all (section 3).
- The enricher and the span model: defaults on one span.
- The parts of the plan in section 2 that are still open; their hazards carry a note.
