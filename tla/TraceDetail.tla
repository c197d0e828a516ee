----------------------------- MODULE TraceDetail ----------------------------
(***************************************************************************)
(* The trace page: web/src/pages/TraceDetail.tsx with WaterfallChart.tsx,  *)
(* FlameGraph.tsx and SpanDrawer.tsx.  The id of the route changes under   *)
(* the mounted page when the user jumps in the browser's history.  Whether *)
(* the collector is silent is chosen once.                                 *)
(***************************************************************************)
EXTENDS SpanRows, PageLoad

CONSTANTS
    Ids,            \* trace ids
    Contents,       \* what the traces may be: a set of functions on Ids
    Tagged          \* the ids of the spans the span filter can match

VARIABLES
    spansOf,        \* the collector's traces; chosen once
    id,             \* of the route
    trace,          \* the id of the trace that is loaded, None before it
    loadTimer,      \* the timer of the effect is armed
    traceLoad,      \* of getTrace
    selectedSpan, drawerOpen,
    spanIndex,      \* spanIndexRef
    spanFilter,     \* the span filter is not empty
    viewMode

collectorVars == <<spansOf, silent>>
routeVars == <<id, trace, loadTimer, traceLoad>>
spanVars == <<selectedSpan, drawerOpen, spanIndex>>
traceVars == <<collectorVars, routeVars, spanVars, spanFilter, viewMode>>

SpansOf(t) == Range(spansOf[t])

TraceTypeOK ==
    /\ id \in Ids /\ trace \in Ids \cup {None}
    /\ loadTimer \in BOOLEAN /\ traceLoad \in LoadType(Ids, Ids)
    /\ selectedSpan = None \/ \E t \in Ids : selectedSpan \in SpansOf(t)
    /\ drawerOpen \in BOOLEAN /\ spanIndex \in Nat
    /\ spanFilter \in BOOLEAN /\ viewMode \in {"waterfall", "flame"}

TraceInit ==
    /\ spansOf \in Contents /\ silent \in BOOLEAN
    /\ id \in Ids
    /\ trace = None /\ loadTimer = TRUE /\ traceLoad = NewLoad
    /\ selectedSpan = None /\ drawerOpen = FALSE /\ spanIndex = 0
    /\ spanFilter = FALSE /\ viewMode = "waterfall"

-----------------------------------------------------------------------------
(* What the page is: a state of its own, or the trace.  A chart whose rows *)
(* exhaust the stack throws in its effect, and the error boundary takes    *)
(* the place of the page.                                                  *)
PageShown ==
    IF traceLoad.loading /\ trace = None THEN "loading"
    ELSE IF traceLoad.error THEN "error"
    ELSE IF trace = None THEN "unavailable"
    ELSE IF Overflows(spansOf[trace]) THEN "crashed" ELSE "trace"

(* From the error boundary: Reload app, or Back to traces and to another   *)
(* trace from there.                                                       *)
Restart(i) ==
    /\ PageShown = "crashed"
    /\ id' = i
    /\ trace' = None /\ loadTimer' = TRUE /\ traceLoad' = NewLoad
    /\ selectedSpan' = None /\ drawerOpen' = FALSE /\ spanIndex' = 0
    /\ spanFilter' = FALSE /\ viewMode' = "waterfall"
    /\ UNCHANGED collectorVars

(* A jump in the history.                                                  *)
ChangeId(i) ==
    /\ i # id
    /\ id' = i
    /\ traceLoad' \in CleanedUp(traceLoad)
    /\ loadTimer' = TRUE
    /\ UNCHANGED <<collectorVars, trace, spanVars, spanFilter, viewMode>>

(* reloadTrace, from the timer of the effect or from Retry.                *)
ReloadTrace ==
    /\ \/ loadTimer /\ loadTimer' = FALSE
       \/ PageShown = "error" /\ UNCHANGED loadTimer
    /\ \E load \in Started(traceLoad, id) : traceLoad' = [load EXCEPT !.loading = TRUE]
    /\ UNCHANGED <<collectorVars, id, trace, spanVars, spanFilter, viewMode>>

TraceAnswered(r) ==
    /\ ~silent
    /\ r.phase = "open"
    /\ traceLoad' = Answered(traceLoad, r, r.arg)
    /\ UNCHANGED <<collectorVars, id, trace, loadTimer, spanVars, spanFilter, viewMode>>

(* Mutant of TraceDelivers: the request id is not compared.                *)
TraceDeliversAny(r) ==
    /\ r.phase = "body"
    /\ traceLoad' = Settled(traceLoad, r)
    /\ trace' = r.data
    /\ UNCHANGED <<collectorVars, id, loadTimer, spanVars, spanFilter, viewMode>>

TraceDelivers(r) ==
    /\ r.phase = "body"
    /\ traceLoad' = Settled(traceLoad, r)
    /\ trace' = IF r.newest THEN r.data ELSE trace
    /\ UNCHANGED <<collectorVars, id, loadTimer, spanVars, spanFilter, viewMode>>

(* Mutant of TraceFails: the error is only logged.                         *)
TraceFailsUnseen(r) ==
    /\ traceLoad' = Settled(traceLoad, r)
    /\ UNCHANGED <<collectorVars, id, trace, loadTimer, spanVars, spanFilter, viewMode>>

TraceFails(r) ==
    /\ traceLoad' = Failed(traceLoad, r)
    /\ UNCHANGED <<collectorVars, id, trace, loadTimer, spanVars, spanFilter, viewMode>>

-----------------------------------------------------------------------------
(* The keys work on every page state, on the trace that is loaded.         *)
SelectSpan(span) ==
    /\ selectedSpan' = span
    /\ drawerOpen' = TRUE
    /\ UNCHANGED <<collectorVars, routeVars, spanFilter, viewMode>>

SpanAt(i) == IF i < Len(spansOf[trace]) THEN spansOf[trace][i + 1] ELSE None

NextSpan ==
    /\ trace # None
    /\ spanIndex' = IF spanIndex + 1 < Len(spansOf[trace]) THEN spanIndex + 1
                    ELSE Len(spansOf[trace]) - 1
    /\ SelectSpan(SpanAt(spanIndex'))

PreviousSpan ==
    /\ trace # None
    /\ spanIndex' = IF spanIndex > 0 THEN spanIndex - 1 ELSE 0
    /\ SelectSpan(SpanAt(spanIndex'))

(* The span filter highlights the spans it matches and grays the others.   *)
Fill(span) ==
    IF spanFilter THEN IF span.spanId \in Tagged THEN "highlighted" ELSE "grayed"
    ELSE IF span.error THEN "error" ELSE "service"

(* One bar per row: on a line of its own, or on the line of its depth.     *)
WaterfallBars ==
    LET rows == BuildSpanRows(spansOf[trace])
    IN  {[span |-> rows[i].span, line |-> i, fill |-> Fill(rows[i].span)] : i \in DOMAIN rows}

FlameBars ==
    LET rows == BuildSpanRows(spansOf[trace])
    IN  {[span |-> rows[i].span, line |-> rows[i].depth, fill |-> Fill(rows[i].span)] :
            i \in DOMAIN rows}

Bars == IF viewMode = "waterfall" THEN WaterfallBars ELSE FlameBars

ClickBar(bar) ==
    /\ SelectSpan(bar.span)
    /\ UNCHANGED spanIndex

(* The error span that started first.                                      *)
RootCause ==
    LET errors == SelectSeq(spansOf[trace], LAMBDA s : s.error) IN
    IF errors = <<>> THEN None ELSE Head(SortSeq(errors, LAMBDA s, t : s.start < t.start))

ClickRootCause ==
    /\ PageShown = "trace"
    /\ RootCause # None
    /\ SelectSpan(RootCause)
    /\ UNCHANGED spanIndex

(* The drawer offers the parent only if it is a span of the loaded trace,  *)
(* and takes the first span with its id.                                   *)
ParentClick ==
    /\ PageShown = "trace"
    /\ drawerOpen /\ selectedSpan # None
    /\ LET parents == SelectSeq(spansOf[trace],
                                LAMBDA s : s.spanId = selectedSpan.parentSpanId)
       IN  parents # <<>> /\ selectedSpan' = Head(parents)
    /\ UNCHANGED <<collectorVars, routeVars, drawerOpen, spanIndex, spanFilter, viewMode>>

CloseDrawer ==
    /\ drawerOpen
    /\ drawerOpen' = FALSE
    /\ UNCHANGED <<collectorVars, routeVars, selectedSpan, spanIndex, spanFilter, viewMode>>

EditSpanFilter ==
    /\ PageShown = "trace"
    /\ spanFilter' = ~spanFilter
    /\ UNCHANGED <<collectorVars, routeVars, spanVars, viewMode>>

SetViewMode(mode) ==
    /\ PageShown = "trace"
    /\ viewMode' = mode
    /\ UNCHANGED <<collectorVars, routeVars, spanVars, spanFilter>>

-----------------------------------------------------------------------------
MountedNext ==
    \/ \E i \in Ids : ChangeId(i)
    \/ ReloadTrace
    \/ \E r \in traceLoad.reqs : TraceAnswered(r) \/ TraceDelivers(r) \/ TraceFails(r)
    \/ NextSpan \/ PreviousSpan
    \/ PageShown = "trace" /\ \E bar \in Bars : ClickBar(bar)
    \/ ClickRootCause
    \/ ParentClick
    \/ CloseDrawer
    \/ EditSpanFilter
    \/ \E mode \in {"waterfall", "flame"} : SetViewMode(mode)

TraceNext ==
    \/ PageShown # "crashed" /\ MountedNext
    \/ \E i \in Ids : Restart(i)

TraceSpec == TraceInit /\ [][TraceNext]_traceVars

(* Timers run; the newest request ends, by its timeout before the headers, *)
(* by the end of its body after them.                                      *)
TraceFairSpec ==
    /\ TraceSpec
    /\ WF_traceVars(PageShown # "crashed" /\ loadTimer /\ ReloadTrace)
    /\ WF_traceVars(PageShown # "crashed" /\ \E r \in Newest(traceLoad.reqs) :
                       TraceAnswered(r) \/ TraceDelivers(r) \/ TraceFails(r))

-----------------------------------------------------------------------------
(* When nothing is under way and no error is shown, the trace of the page  *)
(* is the one its route names, however late the answer for another id is.  *)
TraceIsOfRoute == ~loadTimer /\ Quiet(traceLoad) /\ ~traceLoad.error => trace = id

(* Drawing a trace whose spans have distinct ids ends, with one row for    *)
(* every span, whatever their parents are.  With duplicate ids the page    *)
(* may crash; if it does not, no id is lost.  The rows are in depth-first  *)
(* order with siblings by their start, and a span is flattened only if the *)
(* tree of the root cannot hold it.                                        *)
RowsAreTree ==
    trace # None =>
        LET spans == spansOf[trace]
            rows  == BuildSpanRows(spans)
            drawn == PageShown # "crashed"
        IN  /\ DistinctIds(spans) => drawn /\ OneRowPerSpan(spans, rows)
            /\ drawn => EveryIdHasRow(spans, rows) /\ DepthFirst(rows) /\ FlattenedOnlyOrphans(rows)

(* When the user no longer moves between traces, retries or restarts, the  *)
(* page ends with the trace or with an error that can be retried, a silent *)
(* collector included, unless the trace crashes it.                        *)
TraceSettles ==
    <>[][/\ id' = id
         /\ traceLoad.error => traceLoad'.error
         /\ PageShown = "crashed" => PageShown' = "crashed"]_traceVars
        => <>[](PageShown \in {"trace", "error", "crashed"})

=============================================================================
