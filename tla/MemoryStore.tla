---------------------------- MODULE MemoryStore -----------------------------
(***************************************************************************)
(* The in-memory trace store, internal/storage/memory.go.                  *)
(*                                                                         *)
(* A writer holds s.mu from the first to the last step of its call, kept   *)
(* in `call`; the two eviction loops take one step per iteration, so that  *)
(* a loop that never ends is a behaviour of the model.  Readers hold s.mu  *)
(* for one step.  List is the exception: it takes the lock twice.          *)
(*                                                                         *)
(* A trace is what the store looks at: its spans as <<service, operation>> *)
(* pairs, its list of services, whether ErrorCount > 0, its tenant and its *)
(* ReceivedAt.  The services are those of the spans when the assembler has *)
(* made the trace; an imported or restored trace brings its own list       *)
(* (lifecycle.go), which nothing compares with its spans.  A name is a     *)
(* sequence of tokens, so that the "service:operation" keys collide in the *)
(* model when they collide in the code.                                    *)
(***************************************************************************)
EXTENDS Naturals, Sequences, FiniteSets, SequencesExt

CONSTANTS
    Ids,            \* trace ids
    TraceValues,    \* the traces a caller may pass to Upsert
    Services, Operations,   \* names, sequences of tokens
    Queries,        \* the queries a caller may pass to Query and List
    Times,          \* instants: ReceivedAt values and retention cutoffs
    MaxSize,        \* s.maxSize
    None            \* no trace, no call, no filter

ASSUME MaxSizeAssumption == MaxSize \in Nat \ {0}

ASSUME TimesAssumption == Times \subseteq Nat

ASSUME TraceValuesAssumption ==
    \A tr \in TraceValues :
        /\ tr.spans \subseteq Services \X Operations
        /\ tr.services \subseteq Services
        /\ tr.err \in BOOLEAN
        /\ tr.at \in Times

ASSUME NamesAssumption ==
    /\ Services \cup Operations \subseteq Seq(STRING)
    /\ None \notin Services \cup Operations
    /\ None \notin BOOLEAN

ASSUME QueriesAssumption ==
    \A q \in Queries :
        /\ q.service \in Services \cup {None}
        /\ q.operation \in Operations \cup {None}
        /\ q.err \in BOOLEAN \cup {None}

VARIABLES
    traces,     \* s.traces: a trace, or None for an id that is not stored
    idx,        \* s.byService, s.byOperation and s.byError
    timeline,   \* s.timeline
    call        \* the call that holds s.mu for writing, None for none

vars == <<traces, idx, timeline, call>>

-----------------------------------------------------------------------------
(* What the assembler makes of trace.Services: the names that are not      *)
(* empty of the services of the spans.                                     *)
ServicesOf(spans) == {sp[1] : sp \in spans} \ {<<>>}

(* fmt.Sprintf("%s:%s", service, operation)                                *)
OpKey(svc, op) == svc \o <<":">> \o op

KeysOf(tr) == {OpKey(sp[1], sp[2]) : sp \in tr.spans}

OpKeys == {OpKey(svc, op) : svc \in Services, op \in Operations}

Stored == {i \in Ids : traces[i] # None}

UpsertCalls == [op : {"upsert"}, id : Ids, trace : TraceValues]
RetainCalls == [op : {"retain"}, cutoff : Times]

ASSUME NoneAssumption == None \notin TraceValues \cup UpsertCalls \cup RetainCalls

TypeOK ==
    /\ traces \in [Ids -> TraceValues \cup {None}]
    /\ idx \in [svc : [Services -> SUBSET Ids],
                oper : [OpKeys -> SUBSET Ids],
                err : SUBSET Ids]
    /\ timeline \in Seq([id : Ids, at : Times])
    /\ call \in UpsertCalls \cup RetainCalls \cup {None}

Init ==
    /\ traces = [i \in Ids |-> None]
    /\ idx = [svc |-> [v \in Services |-> {}],
              oper |-> [k \in OpKeys |-> {}],
              err |-> {}]
    /\ timeline = <<>>
    /\ call = None

-----------------------------------------------------------------------------
(* The index after the entries of one trace are added or removed; a key    *)
(* with an empty set stands for a key the map does not have.               *)
AddToIndexes(ix, i, tr) ==
    [svc |-> [v \in Services |->
                IF v \in tr.services THEN ix.svc[v] \cup {i} ELSE ix.svc[v]],
     oper |-> [k \in OpKeys |->
                IF k \in KeysOf(tr) THEN ix.oper[k] \cup {i} ELSE ix.oper[k]],
     err |-> IF tr.err THEN ix.err \cup {i} ELSE ix.err]

(* Mutant of RemoveFromIndexes: the operation index is forgotten.          *)
RemoveFromIndexesNotOper(ix, i, tr) ==
    [svc |-> [v \in Services |->
                IF v \in tr.services THEN ix.svc[v] \ {i} ELSE ix.svc[v]],
     oper |-> ix.oper,
     err |-> ix.err \ {i}]

RemoveFromIndexes(ix, i, tr) ==
    [svc |-> [v \in Services |->
                IF v \in tr.services THEN ix.svc[v] \ {i} ELSE ix.svc[v]],
     oper |-> [k \in OpKeys |->
                IF k \in KeysOf(tr) THEN ix.oper[k] \ {i} ELSE ix.oper[k]],
     err |-> ix.err \ {i}]

(* The loop that drops the first timeline entry of an id.                  *)
DropFromTimeline(i) ==
    \/ /\ \A p \in 1..Len(timeline) : timeline[p].id # i
       /\ UNCHANGED timeline
    \/ \E p \in 1..Len(timeline) :
          /\ timeline[p].id = i
          /\ \A q \in 1..(p - 1) : timeline[q].id # i
          /\ timeline' = RemoveAt(timeline, p)

(* Mutant of Evict: the newest trace leaves.                               *)
EvictNewest ==
    IF timeline = <<>>
      THEN UNCHANGED <<traces, idx, timeline>>
      ELSE LET i == Last(timeline).id IN
           /\ timeline' = Front(timeline)
           /\ traces' = [traces EXCEPT ![i] = None]
           /\ idx' = RemoveFromIndexes(idx, i, traces[i])

(* Mutant of Evict: the trace stays in s.traces.                           *)
EvictKeepsTrace ==
    IF timeline = <<>>
      THEN UNCHANGED <<traces, idx, timeline>>
      ELSE LET i == Head(timeline).id IN
           /\ timeline' = Tail(timeline)
           /\ idx' = RemoveFromIndexes(idx, i, traces[i])
           /\ UNCHANGED traces

(* evict: the head of the timeline leaves, its trace and index entries     *)
(* with it; an empty timeline leaves everything as it is.                  *)
Evict ==
    IF timeline = <<>>
      THEN UNCHANGED <<traces, idx, timeline>>
      ELSE LET i == Head(timeline).id IN
           /\ timeline' = Tail(timeline)
           /\ IF traces[i] = None
                THEN UNCHANGED <<traces, idx>>
                ELSE /\ traces' = [traces EXCEPT ![i] = None]
                     /\ idx' = RemoveFromIndexes(idx, i, traces[i])

-----------------------------------------------------------------------------
(* Upsert takes s.mu; the old version of the trace leaves the indexes and  *)
(* the timeline, but stays in s.traces.                                    *)
UpsertBegin(i, tr) ==
    /\ call = None
    /\ call' = [op |-> "upsert", id |-> i, trace |-> tr]
    /\ IF traces[i] = None
         THEN UNCHANGED <<idx, timeline>>
         ELSE /\ idx' = RemoveFromIndexes(idx, i, traces[i])
              /\ DropFromTimeline(i)
    /\ UNCHANGED <<traces>>

(* Mutant of AtCapacity: one trace too many.                               *)
AtCapacityOffByOne == Cardinality(Stored) > MaxSize

(* The condition of the eviction loop of Upsert.                           *)
AtCapacity == Cardinality(Stored) >= MaxSize

UpsertEvict ==
    /\ call # None /\ call.op = "upsert"
    /\ AtCapacity
    /\ Evict
    /\ UNCHANGED <<call>>

(* Mutant of InsertIntoTimeline: the entry is appended.                    *)
InsertIntoTimelineLast(i, at) == timeline' = Append(timeline, [id |-> i, at |-> at])

(* sort.Search finds the first entry that is later, and the new entry goes *)
(* before it.                                                              *)
InsertIntoTimeline(i, at) ==
    \E p \in 1..(Len(timeline) + 1) :
        /\ \A q \in 1..(p - 1) : timeline[q].at <= at
        /\ \A q \in p..Len(timeline) : timeline[q].at > at
        /\ timeline' = InsertAt(timeline, p, [id |-> i, at |-> at])

(* Mutant of UpsertStore: byError is never cleared or set on an update.    *)
UpsertStoreStaleError ==
    /\ call # None /\ call.op = "upsert"
    /\ ~AtCapacity
    /\ traces' = [traces EXCEPT ![call.id] = call.trace]
    /\ idx' = [AddToIndexes(idx, call.id, call.trace) EXCEPT !.err = idx.err]
    /\ InsertIntoTimeline(call.id, call.trace.at)
    /\ call' = None

(* The rest of Upsert, once there is room.                                 *)
UpsertStore ==
    /\ call # None /\ call.op = "upsert"
    /\ ~AtCapacity
    /\ traces' = [traces EXCEPT ![call.id] = call.trace]
    /\ idx' = AddToIndexes(idx, call.id, call.trace)
    /\ InsertIntoTimeline(call.id, call.trace.at)
    /\ call' = None

(* Delete; an id that is not stored changes nothing.                       *)
Delete(i) ==
    /\ call = None
    /\ traces[i] # None
    /\ traces' = [traces EXCEPT ![i] = None]
    /\ idx' = RemoveFromIndexes(idx, i, traces[i])
    /\ DropFromTimeline(i)
    /\ UNCHANGED <<call>>

-----------------------------------------------------------------------------
(* EvictOlderThan, called by the retention goroutine at every tick.        *)
RetainBegin(cutoff) ==
    /\ call = None
    /\ call' = [op |-> "retain", cutoff |-> cutoff]
    /\ UNCHANGED <<traces, idx, timeline>>

(* Mutant of Expired: the last entry never expires.                        *)
ExpiredNotLast == Len(timeline) > 1 /\ Head(timeline).at < call.cutoff

Expired == timeline # <<>> /\ Head(timeline).at < call.cutoff

RetainEvict ==
    /\ call # None /\ call.op = "retain"
    /\ Expired
    /\ Evict
    /\ UNCHANGED <<call>>

RetainReturns ==
    /\ call # None /\ call.op = "retain"
    /\ ~Expired
    /\ call' = None
    /\ UNCHANGED <<traces, idx, timeline>>

-----------------------------------------------------------------------------
(* operationFromKey: what follows the first ":" of a key.                  *)
OperationFromKey(key) ==
    LET colon == CHOOSE p \in 1..Len(key) :
                    key[p] = ":" /\ \A q \in 1..(p - 1) : key[q] # ":"
    IN SubSeq(key, colon + 1, Len(key))

ByServiceFilter(q) == IF q.service = None THEN Stored ELSE idx.svc[q.service]

ByOperationFilter(q) ==
    CASE q.operation = None -> Ids
      [] q.operation # None /\ q.service # None ->
            idx.oper[OpKey(q.service, q.operation)]
      [] OTHER ->
            UNION {idx.oper[k] : k \in {k \in OpKeys : OperationFromKey(k) = q.operation}}

ByErrorFilter(q) ==
    CASE q.err = None -> Ids
      [] q.err = TRUE -> idx.err
      [] q.err = FALSE -> Ids \ idx.err

(* The filters Query evaluates on the trace itself; those on duration and  *)
(* attributes are more of the same kind and left out.                      *)
TenantFilter(tr, q) == q.tenant = None \/ tr.tenant = q.tenant

RemainingFilters(tr, q) ==
    /\ TenantFilter(tr, q)
    /\ q.from = None \/ tr.at >= q.from
    /\ q.to = None \/ tr.at <= q.to

(* Query: the ids it returns.  Sorting and paging choose among these.  A   *)
(* query for one id looks at its tenant only.                              *)
Query(q) ==
    IF q.id # None THEN {i \in Stored : i = q.id /\ TenantFilter(traces[i], q)}
    ELSE {i \in Stored :
        /\ i \in ByServiceFilter(q) \cap ByOperationFilter(q) \cap ByErrorFilter(q)
        /\ RemainingFilters(traces[i], q)}

-----------------------------------------------------------------------------
EvictStep == UpsertEvict \/ RetainEvict

Next ==
    \/ \E i \in Ids, tr \in TraceValues : UpsertBegin(i, tr)
    \/ UpsertEvict
    \/ UpsertStore
    \/ \E i \in Ids : Delete(i)
    \/ \E cutoff \in Times : RetainBegin(cutoff)
    \/ RetainEvict
    \/ RetainReturns

Spec == Init /\ [][Next]_vars

-----------------------------------------------------------------------------
(* The trace a running Upsert replaces: out of the indexes already, in     *)
(* s.traces still.                                                         *)
Detached == IF call # None /\ call.op = "upsert" THEN {call.id} ELSE {}

(* Every secondary index holds exactly the stored traces that belong in    *)
(* it, after any history of inserts, updates, deletes and evictions.       *)
IndexesAgree ==
    LET live == Stored \ Detached IN
    /\ \A v \in Services : idx.svc[v] = {i \in live : v \in traces[i].services}
    /\ \A k \in OpKeys : idx.oper[k] = {i \in live : k \in KeysOf(traces[i])}
    /\ idx.err = {i \in live : traces[i].err}

(* The timeline has one entry for each stored trace, with its ReceivedAt.  *)
TimelineAgrees ==
    /\ \A p \in 1..Len(timeline) :
          LET e == timeline[p] IN
          e.id \in Stored \ Detached /\ traces[e.id].at = e.at
    /\ \A p, q \in 1..Len(timeline) : timeline[p].id = timeline[q].id => p = q
    /\ \A i \in Stored \ Detached : \E p \in 1..Len(timeline) : timeline[p].id = i

(* The timeline is sorted, which sort.Search and both eviction loops need. *)
TimelineSorted ==
    \A p, q \in 1..Len(timeline) : p <= q => timeline[p].at <= timeline[q].at

(* The timeline is an index too: the stored traces in the order of their   *)
(* ReceivedAt, each once, whatever order they came and changed in.         *)
TimelineIsIndex == TimelineAgrees /\ TimelineSorted

(* The store never holds more than maxSize traces.                         *)
WithinCapacity == Cardinality(Stored) <= MaxSize

(* What a search asks of a trace: its list names the service, and one of   *)
(* its spans has the operation, in that service if both are given.         *)
Satisfies(tr, q) ==
    /\ q.service = None \/ q.service \in tr.services
    /\ q.operation = None \/ \E sp \in tr.spans :
          sp[2] = q.operation /\ (q.service = None \/ sp[1] = q.service)
    /\ q.err = None \/ tr.err = q.err
    /\ RemainingFilters(tr, q)

Plain(name) == \A p \in 1..Len(name) : name[p] # ":"

(* Query through the indexes finds a trace exactly if a look at the trace  *)
(* itself would find it, after any history and for imported traces too, as *)
(* long as no name of a service in the trace or in the query has a colon,  *)
(* at which operationFromKey would cut (memory.go:527).                    *)
QueryAgreesWithScan ==
    call = None => \A q \in Queries, i \in Stored :
        /\ q.id = None
        /\ q.service # None => Plain(q.service)
        /\ \A sp \in traces[i].spans : Plain(sp[1])
        => (i \in Query(q) <=> Satisfies(traces[i], q))

(* The eviction loop of Upsert always finds a victim, so it cannot spin    *)
(* with s.mu held; true of a store with room for two traces or more.       *)
EvictionProgresses ==
    call # None /\ call.op = "upsert" /\ AtCapacity => timeline # <<>>

(* memory.go:136: eviction takes the oldest trace: nothing received before *)
(* it stays behind, except the trace a running Upsert is replacing.        *)
EvictsOldest ==
    [][\A i \in Ids : EvictStep /\ traces[i] # None /\ traces'[i] = None =>
          \A j \in Stored' \ Detached : traces[i].at <= traces[j].at]_vars

(* When EvictOlderThan returns, nothing received before the cutoff stays.  *)
RetentionComplete ==
    [][RetainReturns => \A i \in Stored : traces[i].at >= call.cutoff]_vars

=============================================================================
