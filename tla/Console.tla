------------------------------- MODULE Console ------------------------------
(***************************************************************************)
(* The web console: the routes of web/src/App.tsx mount one page at a time *)
(* inside the error boundary of AppErrorBoundary.tsx.  Search and trace    *)
(* pages have modules of their own (SearchPage, TraceDetail) and are, with *)
(* the not-found page, "elsewhere" here.                                   *)
(*                                                                         *)
(* What the collector holds is kept for the page that shows it and chosen  *)
(* anew when the page mounts: pages share no data.                         *)
(***************************************************************************)
EXTENDS ComparePage, TimelinePage, ServiceMapPage, MetricsPage, SamplerPage

VARIABLE page       \* the mounted page

vars == <<page, silent, compareVars, timelineVars, mapVars, metricsVars, samplerVars>>

Routes == {"elsewhere", "compare", "timeline", "map", "metrics", "sampler"}

TypeOK ==
    /\ page \in Routes \cup {"crashed"} /\ silent \in BOOLEAN
    /\ CompareTypeOK /\ TimelineTypeOK /\ MapTypeOK /\ MetricsTypeOK /\ SamplerTypeOK

Init ==
    /\ page = "elsewhere" /\ silent = FALSE
    /\ CompareOff /\ TimelineOff /\ MapOff /\ MetricsOff /\ SamplerOff

-----------------------------------------------------------------------------
(* Mounting one page leaves the others off.                                *)
Mount(p) ==
    /\ page' = p
    /\ IF p = "compare" THEN \E ids \in Pairs : CompareMount(ids) ELSE UNCHANGED compareVars
    /\ IF p = "timeline" THEN TimelineMount ELSE UNCHANGED timelineVars
    /\ IF p = "map" THEN MapMount ELSE UNCHANGED mapVars
    /\ IF p = "metrics" THEN MetricsMount ELSE UNCHANGED metricsVars
    /\ IF p = "sampler" THEN SamplerMount ELSE UNCHANGED samplerVars
    /\ UNCHANGED silent

Unmount(p) ==
    /\ IF page = "compare" THEN CompareUnmount ELSE UNCHANGED compareVars
    /\ IF page = "timeline" THEN TimelineUnmount ELSE UNCHANGED timelineVars
    /\ IF page = "map" THEN MapUnmount ELSE UNCHANGED mapVars
    /\ IF page = "metrics" THEN MetricsUnmount ELSE UNCHANGED metricsVars
    /\ IF page = "sampler" THEN SamplerUnmount ELSE UNCHANGED samplerVars
    /\ page' = p
    /\ UNCHANGED silent

(* A link of the navigation bar, by way of "elsewhere", and the bar of a   *)
(* trace in the timeline.                                                  *)
Open(p) == page = "elsewhere" /\ p # "elsewhere" /\ Mount(p)
Leave   == page \in Routes \ {"elsewhere"} /\ Unmount("elsewhere")

(* Rendering throws, or a chunk of a lazy page cannot be loaded: the       *)
(* boundary replaces the whole tree, navigation bar included.              *)
Crash == page \in Routes /\ Unmount("crashed")

(* Reload app and Back to traces load the document anew.                   *)
Reload(p) == page = "crashed" /\ Mount(p)

FallsSilent ==
    /\ silent' = ~silent
    /\ UNCHANGED <<page, compareVars, timelineVars, mapVars, metricsVars, samplerVars>>

OnCompare(A) ==
    page = "compare" /\ A /\ UNCHANGED <<page, silent, timelineVars, mapVars, metricsVars, samplerVars>>
OnTimeline(A) ==
    page = "timeline" /\ A /\ UNCHANGED <<page, silent, compareVars, mapVars, metricsVars, samplerVars>>
OnMap(A) ==
    page = "map" /\ A /\ UNCHANGED <<page, silent, compareVars, timelineVars, metricsVars, samplerVars>>
OnMetrics(A) ==
    page = "metrics" /\ A /\ UNCHANGED <<page, silent, compareVars, timelineVars, mapVars, samplerVars>>
OnSampler(A) ==
    page = "sampler" /\ A /\ UNCHANGED <<page, silent, compareVars, timelineVars, mapVars, metricsVars>>

CompareStep  == OnCompare(CompareNext)
TimelineStep == OnTimeline(TimelineNext)
MapStep      == OnMap(MapNext)
MetricsStep  == OnMetrics(MetricsNext)
SamplerStep  == OnSampler(SamplerNext)

Next ==
    \/ \E p \in Routes : Open(p) \/ Reload(p)
    \/ Leave
    \/ Crash
    \/ FallsSilent
    \/ CompareStep
    \/ TimelineStep
    \/ MapStep
    \/ MetricsStep
    \/ SamplerStep

Spec == Init /\ [][Next]_vars

(* The browser's timers: those of the pages' polls, and the timeouts of    *)
(* the calls that wait for headers as long as nothing aborts them.  A      *)
(* collector that is not silent answers a poll before the next one, if not *)
(* every time then again and again.                                        *)
FairSpec ==
    /\ Spec
    /\ WF_vars(OnMap(LoadGraph("poll")))
    /\ WF_vars(OnMap(\E r \in OpenOnes(mapLoad.reqs) : MapFails(r)))
    /\ WF_vars(OnMetrics(\E fromTimer \in BOOLEAN : FetchMetrics(fromTimer)))
    /\ WF_vars(OnSampler(FetchConfig))
    /\ SF_vars(OnSampler(\E r \in Newest(samplerLoad.reqs) : ConfigAnswered(r)))
    /\ SF_vars(OnSampler(\E r \in Newest(samplerLoad.reqs) : ConfigDelivers(r)))

-----------------------------------------------------------------------------
(* While the collector is silent, a page of the service map without a      *)
(* graph, or with one that has services, shows the error again and again:  *)
(* every poll times out before the next one.  With an empty graph loaded   *)
(* it goes on to show "No dependencies yet" (ServiceMap.tsx:230).          *)
MapReportsSilence ==
    <>[](page = "map" /\ silent /\ (mapGraph = None \/ ServicesOf(mapGraph) # {}))
    => []<>MapErrorShown

(* A form without unsaved edits comes to show the sampler the collector    *)
(* has, so that to confirm it would change nothing, and stays so: neither  *)
(* the closures of older renders, nor aborted and late polls, nor a        *)
(* confirmed or cancelled draft keep an older one.  Of tail and rule       *)
(* samplers this is true of the strategy only, as the collector does not   *)
(* report their settings: the form shows the fallbacks.                    *)
FormFollowsCollector ==
    /\ <>[](page = "sampler" /\ Clean /\ ~silent)
    /\ <>[][samplerConfig' = samplerConfig]_vars
    => <>[](/\ draft.type = samplerConfig.type
            /\ samplerConfig.type # "tail" => draft = samplerConfig)

-----------------------------------------------------------------------------
(* docs/frontend-audit.md: "Metrics [...] and Sampler now surface request  *)
(* failures to users".                                                     *)
PollsReportSilence ==
    /\ <>[](page = "metrics" /\ silent) => <>metricsLoad.error
    /\ <>[](page = "sampler" /\ silent) => <>samplerLoad.error

=============================================================================
