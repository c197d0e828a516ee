----------------------------- MODULE TimelinePage ---------------------------
(***************************************************************************)
(* web/src/pages/Timeline.tsx on its stream of events.  Traces complete in *)
(* the order 1, 2, ... and trace n is announced by the event n.  The event *)
(* 0 announces a span: it takes a place in the channel of the subscriber   *)
(* and goes no further (ServeFilteredSSE).                                 *)
(***************************************************************************)
EXTENDS PageLoad, EventStream

CONSTANTS
    MaxTraces,      \* bound: the traces that complete
    TimelineLimit   \* the limit of the query

ASSUME TimelineAssumption == MaxTraces \in Nat /\ TimelineLimit \in Nat

VARIABLES
    completed,      \* the traces the collector has stored
    timelineShown,  \* state traces: the traces 1 .. timelineShown
    startTimer,     \* the timer of the effect is armed
    refreshTimer,   \* refreshTimerRef is set
    timelineLoad,
    announced       \* history: the newest trace whose event was received

timelineVars == <<completed, timelineShown, startTimer, refreshTimer, timelineLoad, announced, streamVars>>

TimelineTypeOK ==
    /\ completed \in 0 .. MaxTraces
    /\ timelineShown \in 0 .. TimelineLimit
    /\ startTimer \in BOOLEAN /\ refreshTimer \in BOOLEAN
    /\ timelineLoad \in LoadType({"traces"}, 0 .. TimelineLimit)
    /\ announced \in 0 .. MaxTraces
    /\ es \in {"none", "connecting", "subscribed"} /\ reconnect \in BOOLEAN
    /\ channel \in Seq(0 .. MaxTraces) /\ Len(channel) <= ChannelSize

TimelineOff ==
    /\ completed = 0 /\ timelineShown = 0 /\ announced = 0
    /\ startTimer = FALSE /\ refreshTimer = FALSE
    /\ timelineLoad = NewLoad /\ StreamOff

TimelineMount ==
    /\ completed' \in 0 .. MaxTraces /\ timelineShown' = 0 /\ announced' = 0
    /\ startTimer' = TRUE /\ refreshTimer' = FALSE
    /\ timelineLoad' = NewLoad /\ StreamConnect

TimelineUnmount ==
    /\ completed' = 0 /\ timelineShown' = 0 /\ announced' = 0
    /\ startTimer' = FALSE /\ refreshTimer' = FALSE
    /\ timelineLoad' = NewLoad /\ StreamClose

-----------------------------------------------------------------------------
(* The query sorts by receivedAt, ascending, and cuts.                     *)
OldestFirst == IF completed < TimelineLimit THEN completed ELSE TimelineLimit

(* A trace is stored and then announced to whoever is subscribed.          *)
TraceStored ==
    /\ completed < MaxTraces
    /\ completed' = completed + 1
    /\ StreamBroadcast(completed')
    /\ UNCHANGED <<timelineShown, startTimer, refreshTimer, timelineLoad, announced>>

(* A worker has processed a span of a trace that is not complete yet.      *)
SpanProcessed ==
    /\ StreamBroadcast(0)
    /\ UNCHANGED <<completed, timelineShown, startTimer, refreshTimer, timelineLoad, announced>>

(* draw: one bar per trace.                                                *)
DrawnBars == 1 .. timelineShown

(* What the page shows: the bars, or a page state.                         *)
TimelineView ==
    IF timelineShown > 0 THEN [view |-> "bars", traces |-> DrawnBars]
    ELSE [view |-> IF timelineLoad.loading THEN "loading"
                   ELSE IF timelineLoad.error THEN "error" ELSE "empty",
          traces |-> {}]

(* loadTraces, from either timer or from Retry.                            *)
LoadTraces ==
    /\ \/ startTimer /\ startTimer' = FALSE /\ UNCHANGED refreshTimer
       \/ refreshTimer /\ refreshTimer' = FALSE /\ UNCHANGED startTimer
       \/ TimelineView.view = "error" /\ UNCHANGED <<startTimer, refreshTimer>>
    /\ timelineLoad' \in Started(timelineLoad, "traces")
    /\ UNCHANGED <<completed, timelineShown, announced, streamVars>>

TimelineAnswered(r) ==
    /\ ~silent
    /\ r.phase = "open"
    /\ timelineLoad' = Answered(timelineLoad, r, OldestFirst)
    /\ UNCHANGED <<completed, timelineShown, startTimer, refreshTimer, announced, streamVars>>

TimelineDelivers(r) ==
    /\ r.phase = "body"
    /\ timelineLoad' = Settled(timelineLoad, r)
    /\ timelineShown' = IF r.newest THEN r.data ELSE timelineShown
    /\ UNCHANGED <<completed, startTimer, refreshTimer, announced, streamVars>>

TimelineFails(r) ==
    /\ timelineLoad' = Failed(timelineLoad, r)
    /\ UNCHANGED <<completed, timelineShown, startTimer, refreshTimer, announced, streamVars>>

(* Mutant of ScheduleReload: a load under way is taken for the reload.     *)
ScheduleReloadIfQuiet == refreshTimer' = (refreshTimer \/ Quiet(timelineLoad))

(* scheduleReload, on the event of a trace; one timer serves all events    *)
(* that come before it fires.                                              *)
ScheduleReload == refreshTimer' = TRUE

TimelineEvent ==
    /\ StreamMessage
    /\ IF Head(channel) = 0 THEN UNCHANGED <<refreshTimer, announced>>
       ELSE ScheduleReload /\ announced' = Head(channel)
    /\ UNCHANGED <<completed, timelineShown, startTimer, timelineLoad>>

(* The connection and its timer.                                           *)
TimelineStream ==
    /\ StreamSubscribes \/ StreamError \/ StreamReconnects
    /\ UNCHANGED <<completed, timelineShown, startTimer, refreshTimer, timelineLoad, announced>>

TimelineNext ==
    \/ TraceStored
    \/ SpanProcessed
    \/ LoadTraces
    \/ \E r \in timelineLoad.reqs :
          TimelineAnswered(r) \/ TimelineDelivers(r) \/ TimelineFails(r)
    \/ TimelineEvent
    \/ TimelineStream

-----------------------------------------------------------------------------
(* Every received announcement leads to a load that sees its trace: once   *)
(* no timer is armed and no request is under way, the traces announced so  *)
(* far are drawn (as far as the limit of the query goes), although events  *)
(* that come while a timer is armed are dropped and loads are superseded.  *)
AnnouncedIsDrawn ==
    ~startTimer /\ ~refreshTimer /\ Quiet(timelineLoad) /\ ~timelineLoad.error =>
        announced <= timelineShown \/ timelineShown = TimelineLimit

=============================================================================
