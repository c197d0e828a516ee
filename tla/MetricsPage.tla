----------------------------- MODULE MetricsPage ----------------------------
(***************************************************************************)
(* web/src/pages/Metrics.tsx: four calls at once, of which only the RED    *)
(* metrics are essential, repeated every five seconds and on every event.  *)
(* The heatmap is asked for the service in focus, which is the selected    *)
(* one or, before a selection, the first one of the metrics.               *)
(***************************************************************************)
EXTENDS Sequences, SequencesExt, PageLoad

CONSTANTS
    Measured,   \* the lists of services the collector may have metrics of
    Secondary   \* the calls next to getMetrics: "heatmap", "anomalies", "slos"

VARIABLES
    measured,           \* the services of the collector's metrics, in order
    shownMetrics,       \* state metrics, by its services
    selectedService,
    heatmapOf,          \* the service of heatmapData, None for all
    warnings,           \* the calls that are reported unavailable
    metricsTimer,       \* the timer of the effect is armed
    metricsLoad

metricsVars == <<measured, shownMetrics, selectedService, heatmapOf, warnings, metricsTimer,
                 metricsLoad>>

MetricsCalls == Secondary \cup {"metrics"}

Measurable == UNION {Range(l) : l \in Measured}

(* A collector without traces has no metrics; null is not a service.       *)
ASSUME MetricsAssumption ==
    /\ "heatmap" \in Secondary /\ "metrics" \notin Secondary
    /\ <<>> \in Measured /\ \A l \in Measured : l \in Seq(Measurable)
    /\ None \notin Measurable

(* A request is the Promise.allSettled of the calls: how each call stands  *)
(* (its headers accepted, failed or aborted), and the metrics it was given.*)
MetricsRequest ==
    [arg : Measurable \cup {None}, newest : BOOLEAN, data : Measured \cup {None},
     calls : [MetricsCalls -> {"open", "ok", "failed", "aborted"}]]

MetricsTypeOK ==
    /\ measured \in Measured /\ shownMetrics \in Measured \cup {<<>>}
    /\ selectedService \in Measurable \cup {None} /\ heatmapOf \in Measurable \cup {None}
    /\ warnings \subseteq Secondary
    /\ metricsTimer \in BOOLEAN
    /\ metricsLoad \in [loading : BOOLEAN, error : BOOLEAN, reqs : SUBSET MetricsRequest]

MetricsOff ==
    /\ measured = <<>>
    /\ shownMetrics = <<>> /\ selectedService = None /\ heatmapOf = None /\ warnings = {}
    /\ metricsTimer = FALSE /\ metricsLoad = NewLoad

MetricsMount ==
    /\ measured' \in Measured
    /\ metricsTimer' = TRUE
    /\ UNCHANGED <<shownMetrics, selectedService, heatmapOf, warnings, metricsLoad>>

MetricsUnmount ==
    /\ measured' = <<>>
    /\ shownMetrics' = <<>> /\ selectedService' = None /\ heatmapOf' = None /\ warnings' = {}
    /\ metricsTimer' = FALSE /\ metricsLoad' = NewLoad

-----------------------------------------------------------------------------
MeasuredChange(l) ==
    /\ l # measured
    /\ measured' = l
    /\ UNCHANGED <<shownMetrics, selectedService, heatmapOf, warnings, metricsTimer,
                   metricsLoad>>

Focus(selected, services) ==
    IF selected # None THEN selected ELSE IF services # <<>> THEN Head(services) ELSE None

EffectiveSelectedService == Focus(selectedService, shownMetrics)

(* abort(): the calls that are open end; the others are out of its reach.  *)
(* Whether a call ends with AbortError or with the status of the error it  *)
(* was reading matters for the metrics only.                               *)
AbortCalls(r, result) ==
    [r EXCEPT !.calls = [c \in MetricsCalls |-> IF @[c] = "open" THEN result ELSE @[c]]]

HasOpenCall(r) == \E c \in MetricsCalls : r.calls[c] = "open"

(* fetchMetrics: from the timer of the effect, its interval of 5 s, an     *)
(* event of any kind, or Retry.  A request has no time for its timeout of  *)
(* 15 s.  Of the superseded requests those end later that were answered in *)
(* full; one that lost a call has less to deliver and is left out.         *)
FetchMetrics(fromTimer) ==
    /\ fromTimer => metricsTimer
    /\ metricsTimer' = (metricsTimer /\ ~fromTimer)
    /\ LET stale == {[r EXCEPT !.newest = FALSE] :
                        r \in {q \in metricsLoad.reqs : Range(q.calls) = {"ok"}}}
           new   == [arg |-> EffectiveSelectedService, newest |-> TRUE, data |-> None,
                     calls |-> [c \in MetricsCalls |-> "open"]]
       IN  \E old \in {o \in SUBSET stale : Cardinality(o) <= MaxStale} :
              metricsLoad' = [metricsLoad EXCEPT !.error = FALSE, !.reqs = old \cup {new}]
    /\ UNCHANGED <<measured, shownMetrics, selectedService, heatmapOf, warnings>>

CallEnds(r, c, result) ==
    /\ ~silent
    /\ r.calls[c] = "open"
    /\ LET s == [r EXCEPT !.calls[c] = result,
                          !.data = IF c = "metrics" /\ result = "ok" THEN measured ELSE @]
       IN  metricsLoad' = [metricsLoad EXCEPT !.reqs = (@ \ {r}) \cup {s}]
    /\ UNCHANGED <<measured, shownMetrics, selectedService, heatmapOf, warnings,
                   metricsTimer>>

(* Mutant of FocusEffect: the effect does not depend on the focus.         *)
FocusEffectMissing(before, after, load) == metricsLoad' = load /\ UNCHANGED metricsTimer

(* The effect depends on the service in focus: when that changes, cleanup  *)
(* aborts the calls of the newest request, which keeps its id, and a new   *)
(* timer is armed.                                                         *)
FocusEffect(before, after, load) ==
    IF before = after
    THEN metricsLoad' = load /\ UNCHANGED metricsTimer
    ELSE /\ metricsTimer' = TRUE
         /\ \E result \in {"aborted", "failed"} :
               metricsLoad' = [load EXCEPT !.reqs = {AbortCalls(r, result) : r \in @}]

(* All four calls have settled.  A failed heatmap leaves the old one.      *)
MetricsSettle(r) ==
    /\ ~HasOpenCall(r)
    /\ LET settled == [metricsLoad EXCEPT !.loading = @ /\ ~r.newest, !.reqs = @ \ {r}]
           used    == r.newest /\ r.calls["metrics"] = "ok"
           failed  == r.newest /\ r.calls["metrics"] = "failed"
           next    == IF used THEN r.data ELSE shownMetrics
       IN  /\ shownMetrics' = next
           /\ heatmapOf' = IF used /\ r.calls["heatmap"] = "ok" THEN r.arg ELSE heatmapOf
           /\ warnings' = IF used THEN {c \in Secondary : r.calls[c] # "ok"} ELSE warnings
           /\ FocusEffect(EffectiveSelectedService, Focus(selectedService, next),
                          [settled EXCEPT !.error = @ \/ failed])
    /\ UNCHANGED <<measured, selectedService>>

-----------------------------------------------------------------------------
(* The user.  Without rows for the service in focus there is no selector.  *)
MetricsView ==
    IF metricsLoad.error /\ shownMetrics = <<>> THEN "error"
    ELSE IF metricsLoad.loading /\ shownMetrics = <<>> THEN "loading"
    ELSE IF EffectiveSelectedService \notin Range(shownMetrics) THEN "empty" ELSE "metrics"

SelectService(s) ==
    /\ MetricsView = "metrics"
    /\ s \in Range(shownMetrics)
    /\ selectedService' = s
    /\ FocusEffect(EffectiveSelectedService, s, metricsLoad)
    /\ UNCHANGED <<measured, shownMetrics, heatmapOf, warnings>>

MetricsNext ==
    \/ \E l \in Measured : MeasuredChange(l)
    \/ \E fromTimer \in BOOLEAN : FetchMetrics(fromTimer)
    \/ \E r \in metricsLoad.reqs :
          \/ \E c \in MetricsCalls : CallEnds(r, c, "ok") \/ CallEnds(r, c, "failed")
          \/ MetricsSettle(r)
    \/ \E s \in Measurable : SelectService(s)

-----------------------------------------------------------------------------
MetricsQuiet == ~metricsTimer /\ \A r \in metricsLoad.reqs : ~r.newest

(* When nothing is under way, the heatmap under the selector is that of    *)
(* the service in focus, unless the page says that the metrics or the      *)
(* heatmap could not be loaded: neither a late answer for another service  *)
(* nor a focus that moved with the metrics leaves another one's heatmap.   *)
HeatmapIsOfFocus ==
    MetricsView = "metrics" /\ MetricsQuiet /\ ~metricsLoad.error /\ "heatmap" \notin warnings
        => heatmapOf = EffectiveSelectedService

=============================================================================
