----------------------------- MODULE SearchPage -----------------------------
(***************************************************************************)
(* The trace search: web/src/hooks/useSearch.ts and the list of            *)
(* web/src/pages/Search.tsx with search-helpers.ts and tracingStore.ts,    *)
(* against a collector that stores and announces traces meanwhile.         *)
(*                                                                         *)
(* Of the filters the model has the service, the operation, which is reset *)
(* with it, the status, whose "all" means no filter, and the offset; the   *)
(* attribute, the durations and the time window are edited like the status *)
(* and are undefined or leave traces out.  Announced traces come at any    *)
(* time or never (EventStream.tla says when).  The options of the selects  *)
(* are left out.                                                           *)
(***************************************************************************)
EXTENDS Integers, SequencesExt, Requests

CONSTANTS
    Traces, Services, Operations,
    arrivals,       \* the traces in the order in which they complete
    serviceOf,      \* [Traces -> services]
    operationOf,    \* [Traces -> operations]
    hasError,       \* [Traces -> BOOLEAN]
    PageSize,       \* PAGE_SIZE
    LiveLimit,      \* LIVE_TRACE_LIMIT, and the cut of the visible list
    MaxOffset,      \* bound: Load more is not clicked beyond it
    MaxStale,       \* bound: superseded requests still in flight
    None            \* undefined, null, "all"

ASSUME SearchAssumption ==
    /\ arrivals \in Seq(Traces)
    /\ PageSize \in Nat /\ LiveLimit \in Nat /\ MaxOffset \in Nat
    /\ None # "error"

VARIABLES
    stored,         \* the collector's traces, newest first
    liveTraces,     \* of the global store
    mounted,        \* the route is "/"
    filters, results, loading, error,   \* the state of useSearch
    debounce,       \* its timer is armed
    reqs            \* its calls of getTraces in flight

vars == <<stored, liveTraces, mounted, filters, results, loading, error, debounce, reqs>>

Filters == [service : Services \cup {None}, operation : Operations \cup {None},
            status : {None, "all", "error"}, offset : 0 .. MaxOffset]
NoFilters == [service |-> None, operation |-> None, status |-> None, offset |-> 0]

TypeOK ==
    /\ stored \in Seq(Traces) /\ liveTraces \in Seq(Traces)
    /\ mounted \in BOOLEAN /\ loading \in BOOLEAN /\ error \in BOOLEAN /\ debounce \in BOOLEAN
    /\ filters \in Filters
    /\ results # None => results.traces \in Seq(Traces) /\ results.hasMore \in BOOLEAN
    /\ \A r \in reqs : r.arg \in Filters /\ (r.phase = "open" <=> r.data = NoData)

(* The page has mounted: its effect has armed the debounce timer.          *)
Init ==
    /\ stored = <<>> /\ liveTraces = <<>>
    /\ mounted = TRUE
    /\ filters = NoFilters /\ results = None /\ loading = FALSE /\ error = FALSE
    /\ debounce = TRUE /\ reqs = {}

-----------------------------------------------------------------------------
(* The elements of a list at some positions, in their order.               *)
Keep(list, positions) ==
    LET rank(i) == Cardinality({j \in positions : j <= i})
    IN  [k \in 1 .. Cardinality(positions) |-> list[CHOOSE i \in positions : rank(i) = k]]

(* The collector: the filtered list, one page of it, and a new trace.      *)

Matches(f, t) ==
    /\ f.service \in {None, serviceOf[t]}
    /\ f.operation \in {None, operationOf[t]}
    /\ f.status = "error" => hasError[t]

Page(f, list) ==
    LET found == Keep(list, {i \in DOMAIN list : Matches(f, list[i])})
        last  == f.offset + PageSize
    IN  [traces |-> SubSeq(found, f.offset + 1, IF last < Len(found) THEN last ELSE Len(found)),
         hasMore |-> last < Len(found)]

TraceCompletes ==
    /\ Len(stored) < Len(arrivals)
    /\ stored' = <<arrivals[Len(stored) + 1]>> \o stored
    /\ UNCHANGED <<liveTraces, mounted, filters, results, loading, error, debounce, reqs>>

(* addLiveTrace of the global store, on the event of a stored trace.       *)
Cut(list) == SubSeq(list, 1, IF LiveLimit < Len(list) THEN LiveLimit ELSE Len(list))

AddLiveTrace(t) ==
    /\ mounted
    /\ liveTraces' = Cut(<<t>> \o Keep(liveTraces, {i \in DOMAIN liveTraces : liveTraces[i] # t}))
    /\ UNCHANGED <<stored, mounted, filters, results, loading, error, debounce, reqs>>

-----------------------------------------------------------------------------
(* useSearch.                                                              *)

(* Mutant of SetFilters: an aborted request does not end the loading.      *)
SetFiltersKeepsLoading(f) ==
    /\ mounted
    /\ filters' = f
    /\ reqs' = AfterAbort(reqs)
    /\ error' \in {error, error \/ OpenOnes(reqs) # {}}
    /\ debounce' = TRUE
    /\ UNCHANGED <<stored, liveTraces, mounted, results, loading>>

(* setFilters: the cleanup of the effect aborts the request but keeps its  *)
(* id, so an open one settles as the newest, with AbortError or with the   *)
(* HTTP error whose body it was reading; then the timer is armed anew.     *)
SetFilters(f) ==
    /\ mounted
    /\ filters' = f
    /\ reqs' = AfterAbort(reqs)
    /\ loading' = (loading /\ OpenOnes(reqs) = {})
    /\ error' \in {error, error \/ OpenOnes(reqs) # {}}
    /\ debounce' = TRUE
    /\ UNCHANGED <<stored, liveTraces, mounted, results>>

(* The 300 ms are over: the request starts.                                *)
DebounceFires ==
    /\ debounce
    /\ debounce' = FALSE
    /\ loading' = TRUE
    /\ error' = FALSE
    /\ \E old \in Surviving(reqs, MaxStale) : reqs' = old \cup {Issued(filters)}
    /\ UNCHANGED <<stored, liveTraces, mounted, filters, results>>

SearchAnswered(r) ==
    /\ r.phase = "open"
    /\ reqs' = AfterHeaders(reqs, r, Page(r.arg, stored))
    /\ UNCHANGED <<stored, liveTraces, mounted, filters, results, loading, error, debounce>>

(* mergeTracePages: what is new is appended.                               *)
MergeTracePages(existing, incoming) ==
    existing \o Keep(incoming, {i \in DOMAIN incoming :
                                  /\ incoming[i] \notin Range(existing)
                                  /\ \A j \in 1 .. i - 1 : incoming[j] # incoming[i]})

(* Mutant of SearchDelivers: the request id is not compared.               *)
SearchDeliversAny(r) ==
    /\ r.phase = "body"
    /\ reqs' = AfterSettle(reqs, r)
    /\ loading' = (loading /\ ~r.newest)
    /\ results' = IF r.arg.offset <= 0 \/ results = None THEN r.data
                  ELSE [r.data EXCEPT !.traces = MergeTracePages(results.traces, @)]
    /\ UNCHANGED <<stored, liveTraces, mounted, filters, error, debounce>>

(* then and finally.  Only the newest answer is used: it replaces the      *)
(* results, or is appended to them if it was asked for with an offset.     *)
SearchDelivers(r) ==
    /\ r.phase = "body"
    /\ reqs' = AfterSettle(reqs, r)
    /\ loading' = (loading /\ ~r.newest)
    /\ results' = IF ~r.newest THEN results
                  ELSE IF r.arg.offset <= 0 \/ results = None THEN r.data
                  ELSE [r.data EXCEPT !.traces = MergeTracePages(results.traces, @)]
    /\ UNCHANGED <<stored, liveTraces, mounted, filters, error, debounce>>

(* Mutant of SearchFails: a failed search is repeated at once.             *)
SearchFailsRepeats(r) ==
    /\ reqs' = AfterSettle(reqs, r)
    /\ loading' = (loading /\ ~r.newest)
    /\ error' = TRUE
    /\ debounce' = TRUE
    /\ UNCHANGED <<stored, liveTraces, mounted, filters, results>>

(* catch and finally: a timeout, a lost connection or an error status of   *)
(* an open request, a broken body of another.  The error is set whatever   *)
(* the id of the request.                                                  *)
SearchFails(r) ==
    /\ reqs' = AfterSettle(reqs, r)
    /\ loading' = (loading /\ ~r.newest)
    /\ error' = TRUE
    /\ UNCHANGED <<stored, liveTraces, mounted, filters, results, debounce>>

-----------------------------------------------------------------------------
(* The user: FilterBar, the shortcut r, Retry, Load more and the routes.   *)

ChooseService(s) ==
    SetFilters([filters EXCEPT !.service = s, !.operation = None, !.offset = 0])

ChooseOperation(o) ==
    /\ filters.service # None
    /\ SetFilters([filters EXCEPT !.operation = o, !.offset = 0])

(* The switch "Errors": off is "all", not undefined.                       *)
ShowErrors(checked) ==
    SetFilters([filters EXCEPT !.status = IF checked THEN "error" ELSE "all", !.offset = 0])

Reset == SetFilters(NoFilters)

Retry == error /\ SetFilters(filters)

LoadMore ==
    /\ results # None /\ results.hasMore
    /\ ~loading
    /\ filters.offset + PageSize <= MaxOffset
    /\ SetFilters([filters EXCEPT !.offset = @ + PageSize])

(* A trace card or a link of the navigation: the page goes, with its timer *)
(* and the effect of its requests; the store with the live traces stays.   *)
Leave ==
    /\ mounted
    /\ mounted' = FALSE
    /\ filters' = NoFilters /\ results' = None /\ loading' = FALSE /\ error' = FALSE
    /\ debounce' = FALSE /\ reqs' = {}
    /\ UNCHANGED <<stored, liveTraces>>

Return ==
    /\ ~mounted
    /\ mounted' = TRUE
    /\ debounce' = TRUE
    /\ UNCHANGED <<stored, liveTraces, filters, results, loading, error, reqs>>

UserActs ==
    \/ \E s \in Services \cup {None} : ChooseService(s)
    \/ \E o \in Operations \cup {None} : ChooseOperation(o)
    \/ \E checked \in BOOLEAN : ShowErrors(checked)
    \/ Reset
    \/ Retry
    \/ LoadMore
    \/ Leave
    \/ Return

-----------------------------------------------------------------------------
Next ==
    \/ TraceCompletes
    \/ \E i \in DOMAIN stored : AddLiveTrace(stored[i])
    \/ DebounceFires
    \/ \E r \in reqs : SearchAnswered(r) \/ SearchDelivers(r) \/ SearchFails(r)
    \/ UserActs

Spec == Init /\ [][Next]_vars

(* Timers run; the newest search ends, by its timeout before the headers,  *)
(* by the end of its body after them.                                      *)
FairSpec ==
    /\ Spec
    /\ WF_vars(DebounceFires)
    /\ WF_vars(\E r \in Newest(reqs) : SearchAnswered(r) \/ SearchDelivers(r) \/ SearchFails(r))

-----------------------------------------------------------------------------
(* What the page shows.                                                    *)

(* Mutant of MergeUniqueTraces: the groups are concatenated.               *)
MergeTracesPlain(group1, group2) == group1 \o group2

(* mergeUniqueTraces: of the cards of one trace the first.                 *)
MergeUniqueTraces(group1, group2) ==
    LET all == group1 \o group2
    IN  Keep(all, {i \in DOMAIN all : \A j \in 1 .. i - 1 : all[j] # all[i]})

HasActiveFilters ==
    \/ filters.service # None
    \/ filters.operation # None
    \/ filters.status \notin {None, "all"}

Visible ==
    LET live == IF ~HasActiveFilters /\ filters.offset = 0 THEN liveTraces ELSE <<>>
    IN  Cut(MergeUniqueTraces(live, IF results = None THEN <<>> ELSE results.traces))

Idle == mounted /\ ~debounce /\ Newest(reqs) = {}

(* "Refreshing" is shown exactly while the newest search is in flight,     *)
(* whatever aborts, superseded answers and failures came in between: a     *)
(* stuck flag would also disable Load more for good.                       *)
LoadingIsNewest == loading <=> mounted /\ Newest(reqs) # {}

(* Once the page is idle without an error, its results are the first page  *)
(* of the current filters as the collector had it at some moment, however  *)
(* late the answers to earlier filters come.                               *)
FirstPageIsCurrent ==
    Idle /\ ~error /\ filters.offset = 0 =>
        \E i \in 1 .. Len(stored) + 1 : results = Page(filters, SubSeq(stored, i, Len(stored)))

(* No trace has two cards, and no list outgrows its limit, however pages,  *)
(* live arrivals and repeated loads overlap; on an idle first page every   *)
(* card matches the filters, the announced traces blended in included.     *)
CardsAreRight ==
    /\ IsInjective(liveTraces) /\ Len(liveTraces) <= LiveLimit
    /\ LET cards == Visible IN
       /\ IsInjective(cards) /\ Len(cards) <= LiveLimit
       /\ Idle /\ ~error /\ filters.offset = 0 => \A t \in Range(cards) : Matches(filters, t)

(* When the user stops editing, the search comes to an end.                *)
SearchSettles == <>[][~UserActs]_vars => <>[](mounted => ~debounce /\ ~loading)

=============================================================================
