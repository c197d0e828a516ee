--------------------------- MODULE PipelineProofs ----------------------------
(***************************************************************************)
(* Proofs about Pipeline.tla for every set of traces, spans and workers    *)
(* and every depth of the queue.                                           *)
(*                                                                         *)
(* Inv is inductive.  ExactlyOnce counts the places of a span; the proof   *)
(* works with the equivalent statement that the places are a partition of  *)
(* the spans (Partition), which every step keeps because it moves a set of *)
(* spans from one place to another (MoveKeepsPartition).  ShutdownDrains   *)
(* needs to know what each stage of Shutdown has established and that the  *)
(* spans of the channel go one way (Draining).                             *)
(***************************************************************************)
EXTENDS Pipeline, FiniteSetTheorems, TLAPS

(* The places are pairwise disjoint and cover the spans.                   *)
Partition(P) ==
    /\ \A i, j \in 1..9 : i # j => P[i] \cap P[j] = {}
    /\ \A s \in Spans : \E i \in 1..9 : s \in P[i]

(* The entries and the batches are of one trace each, batches not empty.   *)
Pure ==
    /\ \A t \in Traces : \A s \in pending[t] : traceOf[s] = t
    /\ \A b \in building \cup completed :
          b.spans # {} /\ \A s \in b.spans : traceOf[s] = b.trace

(* No place holds two copies of a span.                                    *)
Single ==
    /\ \A i, j \in 1..Len(queue) : queue[i] = queue[j] => i = j
    /\ \A v, w \in Workers : worker[v] \in Spans /\ worker[v] = worker[w] => v = w
    /\ \A b, c \in building \cup completed : b # c => b.spans \cap c.spans = {}
    /\ \A p, q \in accepting : p.span = q.span => p = q

(* A span that went through p.workCh never goes back to a place before it; *)
(* what Shutdown has closed or waited for stays so; and once the workers   *)
(* have left, such a span is pending only if Stop has yet to take it.      *)
Draining ==
    /\ \A i \in 1..4 : enqueued \cap Places[i] = {}
    /\ shutdown \in {"wait", "assembler", "done", "timedOut"} => closed
    /\ (\E w \in Workers : worker[w] = "exited") => closed /\ queue = <<>>
    /\ stopPc = "flush" => shutdown = "assembler"
    /\ shutdown \in {"assembler", "done"} =>
          /\ \A w \in Workers : worker[w] = "exited"
          /\ \A t \in Traces : \A s \in enqueued \cap pending[t] : stopPc = "flush" /\ t \in stopIds

Inv == TypeOK /\ Pure /\ Partition(Places) /\ Single /\ Draining

-----------------------------------------------------------------------------
(* In a partition every span is in exactly one place, which is what        *)
(* ExactlyOnce counts.                                                     *)
LEMMA PartitionCounts ==
  ASSUME NEW P, Partition(P), NEW s \in Spans
  PROVE  Cardinality({p \in 1..9 : s \in P[p]}) = 1
<1>1. PICK i \in 1..9 : s \in P[i]
  BY DEF Partition
<1>2. \A p \in 1..9 : s \in P[p] => p = i
  BY <1>1 DEF Partition
<1>3. {p \in 1..9 : s \in P[p]} = {i}
  BY <1>1, <1>2
<1> QED
  BY <1>3, FS_Singleton

(* Moving some of the spans of one place to another keeps a partition.     *)
LEMMA MoveKeepsPartition ==
  ASSUME NEW P, NEW Q, Partition(P),
         NEW a \in 1..9, NEW b \in 1..9, a # b,
         NEW S, S \subseteq P[a],
         Q[a] = P[a] \ S, Q[b] = P[b] \cup S,
         \A i \in 1..9 : i # a /\ i # b => Q[i] = P[i]
  PROVE  Partition(Q)
<1>1. ASSUME NEW i \in 1..9, NEW j \in 1..9, i # j, NEW x \in Q[i], x \in Q[j] PROVE FALSE
  <2>1. \A k \in 1..9 : x \in Q[k] =>
           \/ k = b /\ x \in S
           \/ x \in P[k] /\ ~(k = a /\ x \in S)
    OBVIOUS
  <2>2. \A k \in 1..9 : x \in P[k] /\ x \in S => k = a
    BY DEF Partition
  <2> QED
    BY <1>1, <2>1, <2>2 DEF Partition
<1>2. ASSUME NEW s \in Spans PROVE \E i \in 1..9 : s \in Q[i]
  <2>1. PICK i \in 1..9 : s \in P[i]
    BY DEF Partition
  <2>2. CASE s \in S
    BY <2>2
  <2>3. CASE s \notin S
    BY <2>1, <2>3
  <2> QED
    BY <2>2, <2>3
<1> QED
  BY <1>1, <1>2 DEF Partition

(* The places, one by one.                                                 *)
LEMMA PlacesAre ==
  /\ Len(Places) = 9
  /\ Places[1] = {s \in Spans : pc[s] # "answered"}
  /\ Places[2] = dropped
  /\ Places[3] = buffered
  /\ Places[4] = {p.span : p \in accepting}
  /\ Places[5] = ToSet(queue)
  /\ Places[6] = WithWorkers
  /\ Places[7] = Pending
  /\ Places[8] = SpansIn(building)
  /\ Places[9] = SpansIn(completed)
  BY DEF Places

(* The same in the next state.                                             *)
LEMMA PlacesAreNext ==
  /\ Places'[1] = {s \in Spans : pc'[s] # "answered"}
  /\ Places'[2] = dropped'
  /\ Places'[3] = buffered'
  /\ Places'[4] = {p.span : p \in accepting'}
  /\ Places'[5] = ToSet(queue')
  /\ Places'[6] = WithWorkers'
  /\ Places'[7] = Pending'
  /\ Places'[8] = SpansIn(building')
  /\ Places'[9] = SpansIn(completed')
  BY DEF Places, SpansIn

(* What a send to the channel and a receive from it do to its contents.    *)
LEMMA QueueContents ==
  ASSUME NEW q \in Seq(Spans)
  PROVE  /\ \A s \in Spans : ToSet(Append(q, s)) = ToSet(q) \cup {s}
         /\ q # <<>> /\ (\A i, j \in 1..Len(q) : q[i] = q[j] => i = j) =>
               /\ Head(q) \in ToSet(q)
               /\ ToSet(Tail(q)) = ToSet(q) \ {Head(q)}
<1>1. ASSUME NEW s \in Spans PROVE ToSet(Append(q, s)) = ToSet(q) \cup {s}
  <2>1. /\ Len(Append(q, s)) = Len(q) + 1 /\ DOMAIN Append(q, s) = 1..(Len(q) + 1)
        /\ Append(q, s)[Len(q) + 1] = s
        /\ \A i \in 1..Len(q) : Append(q, s)[i] = q[i]
    OBVIOUS
  <2>2. DOMAIN q = 1..Len(q)
    OBVIOUS
  <2> QED
    BY <2>1, <2>2 DEF ToSet
<1>2. ASSUME q # <<>>, \A i, j \in 1..Len(q) : q[i] = q[j] => i = j
      PROVE  Head(q) \in ToSet(q) /\ ToSet(Tail(q)) = ToSet(q) \ {Head(q)}
  <2>1. /\ DOMAIN q = 1..Len(q) /\ 1 \in 1..Len(q) /\ Head(q) = q[1]
        /\ DOMAIN Tail(q) = 1..(Len(q) - 1)
        /\ \A i \in 1..(Len(q) - 1) : Tail(q)[i] = q[i + 1]
    BY <1>2
  <2>2. ASSUME NEW x \in ToSet(Tail(q)) PROVE x \in ToSet(q) /\ x # Head(q)
    <3>1. PICK i \in 1..(Len(q) - 1) : x = q[i + 1]
      BY <2>1 DEF ToSet
    <3>2. i + 1 \in 1..Len(q) /\ i + 1 # 1
      OBVIOUS
    <3> QED
      BY <1>2, <2>1, <3>1, <3>2 DEF ToSet
  <2>3. ASSUME NEW x \in ToSet(q), x # Head(q) PROVE x \in ToSet(Tail(q))
    <3>1. PICK i \in 1..Len(q) : x = q[i]
      BY <2>1 DEF ToSet
    <3>2. i - 1 \in 1..(Len(q) - 1) /\ (i - 1) + 1 = i
      BY <2>1, <2>3, <3>1
    <3>3. Tail(q)[i - 1] = x
      BY <2>1, <3>1, <3>2
    <3> QED
      BY <2>1, <3>2, <3>3 DEF ToSet
  <2>4. Head(q) \in ToSet(q)
    BY <2>1 DEF ToSet
  <2> QED
    BY <2>2, <2>3, <2>4
<1> QED
  BY <1>1, <1>2

-----------------------------------------------------------------------------
(* The step moves the spans in S from place a to place b.                  *)
Moves(a, b, S) ==
    /\ S \subseteq Places[a]
    /\ Places'[a] = Places[a] \ S
    /\ Places'[b] = Places[b] \cup S
    /\ \A i \in 1..9 : i # a /\ i # b => Places'[i] = Places[i]

(* Such a step keeps the partition, and the spans of the channel where     *)
(* they may be unless it moves spans from behind the channel before it.    *)
LEMMA MovesKeep ==
  ASSUME Partition(Places), \A i \in 1..4 : enqueued \cap Places[i] = {},
         NEW a \in 1..9, NEW b \in 1..9, a # b, NEW S, Moves(a, b, S)
  PROVE  /\ Partition(Places)'
         /\ enqueued' = enqueued /\ (b \in 1..4 => a \in 1..4) =>
               \A i \in 1..4 : enqueued' \cap Places'[i] = {}
<1>1. Partition(Places')
  BY MoveKeepsPartition DEF Moves
<1>2. Partition(Places)'
  BY <1>1 DEF Partition
<1>3. ASSUME enqueued' = enqueued, b \in 1..4 => a \in 1..4, NEW i \in 1..4
      PROVE  enqueued' \cap Places'[i] = {}
  <2>1. i \in 1..9
    OBVIOUS
  <2>2. CASE i = a
    BY <1>3, <2>2 DEF Moves
  <2>3. CASE i = b
    BY <1>3, <2>3 DEF Moves
  <2>4. CASE i # a /\ i # b
    BY <1>3, <2>1, <2>4 DEF Moves
  <2> QED
    BY <2>2, <2>3, <2>4
<1> QED
  BY <1>2, <1>3

(* The initial state satisfies the inductive invariant.                    *)
LEMMA InitInv == Init => Inv
<1> SUFFICES ASSUME Init PROVE Inv
  OBVIOUS
<1> USE PipelineConstants DEF Init, Asm!Init
<1>1. TypeOK
  <2>1. /\ unsent \in SUBSET Spans /\ pending \in [Traces -> SUBSET Spans]
        /\ building \in SUBSET Batches /\ completed \in SUBSET Batches /\ panicked = {}
        /\ stopPc \in {"idle", "flush", "done"}
        /\ stopIds \in SUBSET Traces /\ stopSpans \in SUBSET Spans
        /\ upserted \in SUBSET building /\ stored \in [Traces -> SUBSET Spans]
    OBVIOUS
  <2>2. queue \in Seq(Spans) /\ Len(queue) <= QueueDepth
    OBVIOUS
  <2> QED
    BY <2>1, <2>2 DEF TypeOK, Down
<1>2. Pure /\ Single
  BY DEF Pure, Single
<1>3. /\ Places[1] = Spans
      /\ \A i \in 2..9 : Places[i] = {}
  <2>1. Places[1] = Spans /\ Places[2] = {} /\ Places[3] = {} /\ Places[4] = {}
    BY PlacesAre
  <2>2. Places[5] = {}
    BY PlacesAre DEF ToSet
  <2>3. Places[6] = {}
    BY PlacesAre DEF WithWorkers
  <2>4. Places[7] = {} /\ Places[8] = {} /\ Places[9] = {}
    BY PlacesAre DEF Pending, SpansIn
  <2> QED
    BY <2>1, <2>2, <2>3, <2>4
<1>4. Partition(Places)
  BY <1>3 DEF Partition
<1>5. Draining
  BY DEF Draining
<1> QED
  BY <1>1, <1>2, <1>4, <1>5 DEF Inv

-----------------------------------------------------------------------------
(* A step that moves no span, no batch and no worker.                      *)
LEMMA QuietKeeps ==
  ASSUME Inv,
         UNCHANGED <<pending, building, completed, dropped, queue, closed, worker,
                     buffered, accepting, enqueued, stopPc, stopIds>>,
         \A s \in Spans : pc'[s] = "answered" <=> pc[s] = "answered",
         \/ shutdown' = shutdown
         \/ shutdown # "assembler" /\ shutdown' \in {"sampler", "close"}
         \/ shutdown = "wait" /\ shutdown' = "timedOut"
  PROVE  Pure' /\ Partition(Places)' /\ Single' /\ Draining'
<1> USE DEF Inv
<1>1. Pure' /\ Single'
  BY DEF Pure, Single
<1>2. \A i \in 1..9 : Places'[i] = Places[i]
  <2>1. Places'[1] = Places[1]
    BY PlacesAre, PlacesAreNext
  <2>2. /\ Places'[2] = Places[2] /\ Places'[3] = Places[3] /\ Places'[4] = Places[4]
        /\ Places'[5] = Places[5] /\ Places'[8] = Places[8] /\ Places'[9] = Places[9]
    BY PlacesAre, PlacesAreNext
  <2>3. Places'[6] = Places[6] /\ Places'[7] = Places[7]
    BY PlacesAre, PlacesAreNext DEF WithWorkers, Pending
  <2> QED
    BY <2>1, <2>2, <2>3
<1>3. Moves(1, 2, {})
  BY <1>2 DEF Moves
<1>4. Partition(Places)' /\ \A i \in 1..4 : enqueued' \cap Places'[i] = {}
  BY <1>3, MovesKeep DEF Draining
<1>5. Draining'
  BY <1>4 DEF Draining
<1> QED
  BY <1>1, <1>4, <1>5

-----------------------------------------------------------------------------
(* AddSpan of the assembler puts one span into the entry of its trace.     *)
LEMMA AddSpanAdds ==
  ASSUME Inv, NEW s \in Spans, Asm!AddSpan(s)
  PROVE  /\ pending' \in [Traces -> SUBSET Spans] /\ unsent' \in SUBSET Spans
         /\ Pending' = Pending \cup {s}
         /\ \A t \in Traces : pending'[t] \subseteq pending[t] \cup {s}
         /\ UNCHANGED <<building, completed, panicked, stopPc, stopIds, stopSpans>>
         /\ Pure'
<1> USE PipelineConstants DEF Inv
<1>1. /\ unsent' = unsent \ {s}
      /\ pending' = [pending EXCEPT ![traceOf[s]] = @ \cup {s}]
      /\ UNCHANGED <<building, completed, panicked, stopPc, stopIds, stopSpans>>
  BY DEF Asm!AddSpan, Asm!batchVars, Asm!stopVars
<1>2. pending \in [Traces -> SUBSET Spans] /\ traceOf[s] \in Traces
  BY DEF TypeOK
<1>3. pending' \in [Traces -> SUBSET Spans] /\ unsent' \in SUBSET Spans
  BY <1>1, <1>2 DEF TypeOK
<1>4. Pending' = Pending \cup {s}
  BY <1>1, <1>2 DEF Pending
<1>5. \A t \in Traces : pending'[t] \subseteq pending[t] \cup {s}
  BY <1>1, <1>2
<1>6. \A t \in Traces : s \in pending'[t] /\ s \notin pending[t] => t = traceOf[s]
  BY <1>1, <1>2
<1>7. Pure'
  BY <1>1, <1>5, <1>6 DEF Pure
<1> QED
  BY <1>1, <1>3, <1>4, <1>5, <1>7

(* Once the workers have left, a span that AddSpan is called for did not   *)
(* go through the channel, so the entries of Stop's concern do not grow.   *)
LEMMA AddSpanKeepsDraining ==
  ASSUME Inv, NEW s \in Spans, Asm!AddSpan(s),
         UNCHANGED <<queue, closed, enqueued, shutdown>>,
         \A i \in 1..4 : enqueued' \cap Places'[i] = {},
         \/ s \notin enqueued /\ worker' = worker
         \/ \E w \in Workers : worker[w] = s /\ worker' = [worker EXCEPT ![w] = None]
  PROVE  Draining'
<1> USE PipelineConstants DEF Inv
<1>1. /\ \A t \in Traces : pending'[t] \subseteq pending[t] \cup {s}
      /\ UNCHANGED <<stopPc, stopIds>>
  BY AddSpanAdds
<1>2. CASE s \notin enqueued /\ worker' = worker
  BY <1>1, <1>2 DEF Draining
<1>3. ASSUME NEW w \in Workers, worker[w] = s, worker' = [worker EXCEPT ![w] = None]
      PROVE  Draining'
  <2>1. worker[w] # "exited"
    BY <1>3
  <2>2. shutdown \notin {"assembler", "done"}
    BY <2>1 DEF Draining
  <2>3. \A v \in Workers : worker'[v] = "exited" => worker[v] = "exited"
    BY <1>3 DEF TypeOK
  <2> QED
    BY <1>1, <2>2, <2>3 DEF Draining
<1> QED
  BY <1>2, <1>3

(* A timer or Stop takes the entry of a trace, whole, as a new batch.      *)
LEMMA TakeMoves ==
  ASSUME Inv, NEW t \in Traces, NEW by \in {"timer", "stop"},
         pending[t] # {}, Asm!Take(t, by),
         UNCHANGED <<completed, pc, dropped, queue, worker, buffered, accepting>>
  PROVE  /\ pending' = [pending EXCEPT ![t] = {}]
         /\ pending' \in [Traces -> SUBSET Spans]
         /\ building' \in SUBSET Batches /\ building \subseteq building'
         /\ Moves(7, 8, pending[t])
         /\ Pure' /\ Single'
<1> USE PipelineConstants DEF Inv
<1> DEFINE nb == [trace |-> t, spans |-> pending[t], by |-> by]
<1>1. building' = building \cup {nb} /\ pending' = [pending EXCEPT ![t] = {}]
  BY DEF Asm!Take
<1>2. pending \in [Traces -> SUBSET Spans] /\ pending' \in [Traces -> SUBSET Spans]
  BY <1>1 DEF TypeOK
<1>3. nb \in Batches /\ nb.spans = pending[t] /\ nb.trace = t
  BY <1>2 DEF Batches
<1> HIDE DEF nb
<1>4. building' \in SUBSET Batches /\ building \subseteq building'
  BY <1>1, <1>3 DEF TypeOK
<1>5. Pending' = Pending \ pending[t] /\ pending[t] \subseteq Pending
  <2>1. \A u \in Traces : u # t => pending'[u] = pending[u] /\ pending[t] \cap pending[u] = {}
    BY <1>1, <1>2 DEF Pure
  <2>2. pending'[t] = {}
    BY <1>1, <1>2
  <2> QED
    BY <2>1, <2>2 DEF Pending
<1>6. SpansIn(building') = SpansIn(building) \cup pending[t]
  BY <1>1, <1>3 DEF SpansIn
<1>7. Moves(7, 8, pending[t])
  <2>1. /\ Places'[1] = Places[1] /\ Places'[2] = Places[2] /\ Places'[3] = Places[3]
        /\ Places'[4] = Places[4] /\ Places'[5] = Places[5] /\ Places'[9] = Places[9]
    BY PlacesAre, PlacesAreNext
  <2>2. Places'[6] = Places[6]
    BY PlacesAre, PlacesAreNext DEF WithWorkers
  <2>3. pending[t] \subseteq Places[7] /\ Places'[7] = Places[7] \ pending[t]
    BY <1>5, PlacesAre, PlacesAreNext
  <2>4. Places'[8] = Places[8] \cup pending[t]
    BY <1>6, PlacesAre, PlacesAreNext
  <2> QED
    BY <2>1, <2>2, <2>3, <2>4 DEF Moves
<1>8. Pure'
  <2>1. \A u \in Traces : \A s \in pending'[u] : traceOf[s] = u
    BY <1>1, <1>2 DEF Pure
  <2>2. nb.spans # {} /\ \A s \in nb.spans : traceOf[s] = nb.trace
    BY <1>3 DEF Pure
  <2> QED
    BY <1>1, <2>1, <2>2 DEF Pure
<1>9. \A b \in building \cup completed : b.spans \cap nb.spans = {}
  <2>1. \A b \in building \cup completed : b.spans \subseteq Places[8] \cup Places[9]
    BY PlacesAre DEF SpansIn
  <2>2. Places[7] \cap (Places[8] \cup Places[9]) = {}
    BY DEF Partition
  <2> QED
    BY <1>3, <1>5, <2>1, <2>2, PlacesAre
<1>10. Single'
  <2>1. \A b, c \in (building \cup completed)' : b # c => b.spans \cap c.spans = {}
    BY <1>1, <1>9 DEF Single
  <2> QED
    BY <2>1 DEF Single
<1> QED
  BY <1>1, <1>2, <1>4, <1>7, <1>8, <1>10

-----------------------------------------------------------------------------
(* The steps of a request.                                                 *)
LEMMA RequestKeepsInv ==
  ASSUME Inv, NEW s \in Spans, Arrives(s) \/ RequestStep(s)
  PROVE  Inv'
<1> USE PipelineConstants DEF Inv
<1> DEFINE open == {x \in Spans : pc[x] # "answered"}
<1>0. /\ pc \in [Spans -> {"client", "decide", "send", "inline", "answered", "panicked"}]
      /\ Places[1] = open
  BY PlacesAre DEF TypeOK
<1>1. ASSUME NEW from, NEW to \in {"decide", "send", "inline", "panicked"},
             from # "answered", pc[s] = from, Goes(s, to),
             UNCHANGED <<asmVars, storeVars, dropped, chanVars, tailVars, downVars, main, expired>>,
             process' \in {"up", "exited", "crashed"}
      PROVE  Inv'
  <2>1. TypeOK'
    BY <1>0, <1>1 DEF TypeOK, Goes, asmVars, storeVars, chanVars, tailVars, downVars
  <2>2. \A x \in Spans : pc'[x] = "answered" <=> pc[x] = "answered"
    BY <1>0, <1>1 DEF Goes
  <2> QED
    BY <1>1, <2>1, <2>2, QuietKeeps DEF asmVars, storeVars, chanVars, tailVars, downVars
<1>2. CASE Arrives(s)
  BY <1>1, <1>2 DEF Arrives, mainVars, TypeOK
<1>3. CASE FallsBack(s)
  BY <1>1, <1>3 DEF FallsBack, mainVars, TypeOK
<1>4. CASE SendPanics(s)
  BY <1>1, <1>4 DEF SendPanics, TypeOK
<1>5. ASSUME pc[s] # "answered", Goes(s, "answered")
      PROVE  /\ pc' \in [Spans -> {"client", "decide", "send", "inline", "answered", "panicked"}]
             /\ s \in Places[1]
             /\ Places'[1] = Places[1] \ {s}
  <2>1. pc' = [pc EXCEPT ![s] = "answered"]
    BY <1>5 DEF Goes
  <2>2. \A x \in Spans : pc'[x] # "answered" <=> pc[x] # "answered" /\ x # s
    BY <1>0, <2>1
  <2> QED
    BY <1>0, <1>5, <2>1, <2>2, PlacesAreNext
<1>6. ASSUME pc[s] = "decide", Goes(s, "answered"),
             \/ dropped' = dropped \cup {s} /\ UNCHANGED buffered
             \/ buffered' = buffered \cup {s} /\ UNCHANGED dropped,
             UNCHANGED <<asmVars, storeVars, chanVars, accepting, downVars, mainVars>>
      PROVE  Inv'
  <2> USE DEF asmVars, storeVars, chanVars, downVars, mainVars
  <2>1. TypeOK'
    BY <1>5, <1>6 DEF TypeOK
  <2>2. Pure' /\ Single'
    BY <1>6 DEF Pure, Single
  <2>3. /\ Places'[4] = Places[4] /\ Places'[5] = Places[5]
        /\ Places'[8] = Places[8] /\ Places'[9] = Places[9]
    BY <1>6, PlacesAre, PlacesAreNext
  <2>4. Places'[6] = Places[6] /\ Places'[7] = Places[7]
    BY <1>6, PlacesAre, PlacesAreNext DEF WithWorkers, Pending
  <2>5. s \in Places[1] /\ Places'[1] = Places[1] \ {s}
    BY <1>5, <1>6
  <2>6. \E b \in {2, 3} : Moves(1, b, {s})
    <3>1. CASE dropped' = dropped \cup {s} /\ UNCHANGED buffered
      <4>1. Places'[2] = Places[2] \cup {s} /\ Places'[3] = Places[3]
        BY <3>1, PlacesAre, PlacesAreNext
      <4>2. Moves(1, 2, {s})
        BY <2>3, <2>4, <2>5, <4>1 DEF Moves
      <4> QED
        BY <4>2
    <3>2. CASE buffered' = buffered \cup {s} /\ UNCHANGED dropped
      <4>1. Places'[3] = Places[3] \cup {s} /\ Places'[2] = Places[2]
        BY <3>2, PlacesAre, PlacesAreNext
      <4>2. Moves(1, 3, {s})
        BY <2>3, <2>4, <2>5, <4>1 DEF Moves
      <4> QED
        BY <4>2
    <3> QED
      BY <1>6, <3>1, <3>2
  <2>7. Partition(Places)' /\ \A i \in 1..4 : enqueued' \cap Places'[i] = {}
    BY <1>6, <2>6, MovesKeep DEF Draining
  <2>8. Draining'
    BY <1>6, <2>7 DEF Draining
  <2> QED
    BY <2>1, <2>2, <2>7, <2>8
<1>7. CASE Samples(s)
  <2>1. CASE \E to \in {"send", "inline"} : Goes(s, to) /\ UNCHANGED <<dropped, buffered>>
    BY <1>1, <1>7, <2>1 DEF Samples, tailVars, mainVars, TypeOK
  <2>2. CASE ~(\E to \in {"send", "inline"} : Goes(s, to) /\ UNCHANGED <<dropped, buffered>>)
    BY <1>6, <1>7, <2>2 DEF Samples
  <2> QED
    BY <2>1, <2>2
<1>8. CASE Enqueues(s)
  <2> USE DEF asmVars, storeVars, tailVars, downVars, mainVars
  <2>1. /\ pc[s] = "send" /\ ~closed /\ Len(queue) < QueueDepth
        /\ queue' = Append(queue, s) /\ enqueued' = enqueued \cup {s}
        /\ Goes(s, "answered")
        /\ UNCHANGED <<asmVars, storeVars, dropped, closed, worker, tailVars, downVars, mainVars>>
    BY <1>8 DEF Enqueues
  <2>2. queue \in Seq(Spans)
    BY DEF TypeOK
  <2>3. /\ queue' \in Seq(Spans) /\ Len(queue') = Len(queue) + 1
        /\ queue'[Len(queue) + 1] = s
        /\ \A k \in 1..Len(queue) : queue'[k] = queue[k]
    BY <2>1, <2>2
  <2>4. TypeOK'
    <3>1. Len(queue') <= QueueDepth
      BY <2>1, <2>2, <2>3
    <3> QED
      BY <1>5, <2>1, <2>3, <3>1 DEF TypeOK
  <2>5. s \in Places[1] /\ Places'[1] = Places[1] \ {s}
    BY <1>5, <2>1
  <2>6. Places'[5] = Places[5] \cup {s}
    BY <2>1, <2>2, QueueContents, PlacesAre, PlacesAreNext
  <2>7. /\ Places'[2] = Places[2] /\ Places'[3] = Places[3] /\ Places'[4] = Places[4]
        /\ Places'[8] = Places[8] /\ Places'[9] = Places[9]
    BY <2>1, PlacesAre, PlacesAreNext
  <2>8. Places'[6] = Places[6] /\ Places'[7] = Places[7]
    BY <2>1, PlacesAre, PlacesAreNext DEF WithWorkers, Pending
  <2>9. Moves(1, 5, {s})
    BY <2>5, <2>6, <2>7, <2>8 DEF Moves
  <2>10. Partition(Places)'
    BY <2>9, MovesKeep DEF Draining
  <2>11. \A i \in 1..4 : enqueued' \cap Places'[i] = {}
    <3>1. s \notin Places[2] /\ s \notin Places[3] /\ s \notin Places[4]
      BY <2>5 DEF Partition
    <3>2. \A i \in 1..4 : enqueued \cap Places[i] = {}
      BY DEF Draining
    <3>3. enqueued' \cap Places'[1] = {} /\ enqueued' \cap Places'[2] = {}
      BY <2>1, <2>5, <2>7, <3>1, <3>2
    <3>4. enqueued' \cap Places'[3] = {} /\ enqueued' \cap Places'[4] = {}
      BY <2>1, <2>7, <3>1, <3>2
    <3> QED
      BY <3>3, <3>4
  <2>12. Draining'
    BY <2>1, <2>11 DEF Draining
  <2>13. \A i, j \in 1..Len(queue') : queue'[i] = queue'[j] => i = j
    <3>1. \A k \in 1..Len(queue) : queue[k] # s
      <4>1. s \notin ToSet(queue)
        BY <2>5, PlacesAre DEF Partition
      <4>2. DOMAIN queue = 1..Len(queue)
        BY <2>2
      <4> QED
        BY <4>1, <4>2 DEF ToSet
    <3> QED
      BY <2>2, <2>3, <3>1 DEF Single
  <2>14. Pure' /\ Single'
    BY <2>1, <2>13 DEF Pure, Single
  <2> QED
    BY <2>4, <2>10, <2>12, <2>14
<1>9. CASE ProcessesInline(s)
  <2> USE DEF storeVars, chanVars, tailVars, downVars, mainVars
  <2>1. /\ pc[s] = "inline" /\ Asm!AddSpan(s) /\ Goes(s, "answered")
        /\ UNCHANGED <<storeVars, dropped, chanVars, tailVars, downVars, mainVars>>
    BY <1>9 DEF ProcessesInline
  <2>2. /\ pending' \in [Traces -> SUBSET Spans] /\ unsent' \in SUBSET Spans
        /\ Pending' = Pending \cup {s}
        /\ UNCHANGED <<building, completed, panicked, stopPc, stopIds, stopSpans>>
        /\ Pure'
    BY <2>1, AddSpanAdds
  <2>3. TypeOK'
    BY <1>5, <2>1, <2>2 DEF TypeOK
  <2>4. s \in Places[1] /\ Places'[1] = Places[1] \ {s}
    BY <1>5, <2>1
  <2>5. /\ Places'[2] = Places[2] /\ Places'[3] = Places[3] /\ Places'[4] = Places[4]
        /\ Places'[5] = Places[5] /\ Places'[8] = Places[8] /\ Places'[9] = Places[9]
    BY <2>1, <2>2, PlacesAre, PlacesAreNext
  <2>6. Places'[6] = Places[6] /\ Places'[7] = Places[7] \cup {s}
    BY <2>1, <2>2, PlacesAre, PlacesAreNext DEF WithWorkers
  <2>7. Moves(1, 7, {s})
    BY <2>4, <2>5, <2>6 DEF Moves
  <2>8. Partition(Places)' /\ \A i \in 1..4 : enqueued' \cap Places'[i] = {}
    BY <2>1, <2>7, MovesKeep DEF Draining
  <2>9. s \notin enqueued
    BY <2>4 DEF Draining
  <2>10. Draining'
    BY <2>1, <2>8, <2>9, AddSpanKeepsDraining
  <2>11. Single'
    BY <2>1, <2>2 DEF Single
  <2> QED
    BY <2>2, <2>3, <2>8, <2>10, <2>11
<1> QED
  BY <1>2, <1>3, <1>4, <1>7, <1>8, <1>9 DEF RequestStep

-----------------------------------------------------------------------------
(* The steps of a worker.                                                  *)
LEMMA WorkerKeepsInv ==
  ASSUME Inv, NEW w \in Workers, WorkerStep(w)
  PROVE  Inv'
<1> USE PipelineConstants DEF Inv
<1>0. worker \in [Workers -> Spans \cup {None, "exited"}] /\ queue \in Seq(Spans)
  BY DEF TypeOK
<1>1. CASE WorkerTakes(w)
  <2> USE DEF asmVars, storeVars, tailVars, downVars, mainVars
  <2> DEFINE s == Head(queue)
  <2>1. /\ worker[w] = None /\ queue # <<>>
        /\ worker' = [worker EXCEPT ![w] = s] /\ queue' = Tail(queue)
        /\ UNCHANGED <<asmVars, storeVars, pc, dropped, closed, enqueued, tailVars, downVars, mainVars>>
    BY <1>1 DEF WorkerTakes
  <2>2. /\ queue' \in Seq(Spans) /\ Len(queue') = Len(queue) - 1
        /\ \A k \in 1..Len(queue') : queue'[k] = queue[k + 1]
        /\ s \in Spans
    BY <1>0, <2>1
  <2>3. s \in ToSet(queue) /\ ToSet(queue') = ToSet(queue) \ {s}
    BY <1>0, <2>1, QueueContents DEF Single
  <2> HIDE DEF s
  <2>4. TypeOK'
    <3>1. Len(queue') <= QueueDepth
      BY <1>0, <2>2 DEF TypeOK
    <3>2. worker' \in [Workers -> Spans \cup {None, "exited"}]
      BY <1>0, <2>1, <2>2
    <3> QED
      BY <2>1, <2>2, <3>1, <3>2 DEF TypeOK
  <2>5. WithWorkers' = WithWorkers \cup {s}
    <3>1. worker'[w] = s /\ \A v \in Workers : v # w => worker'[v] = worker[v]
      BY <1>0, <2>1
    <3>2. worker[w] \notin Spans
      BY <2>1
    <3> QED
      BY <2>2, <3>1, <3>2 DEF WithWorkers
  <2>6. /\ Places'[1] = Places[1] /\ Places'[2] = Places[2] /\ Places'[3] = Places[3]
        /\ Places'[4] = Places[4] /\ Places'[8] = Places[8] /\ Places'[9] = Places[9]
    BY <2>1, PlacesAre, PlacesAreNext
  <2>7. Places'[7] = Places[7]
    BY <2>1, PlacesAre, PlacesAreNext DEF Pending
  <2>8. /\ s \in Places[5] /\ Places'[5] = Places[5] \ {s}
        /\ Places'[6] = Places[6] \cup {s}
    BY <2>3, <2>5, PlacesAre, PlacesAreNext
  <2>9. Moves(5, 6, {s})
    BY <2>6, <2>7, <2>8 DEF Moves
  <2>10. Partition(Places)' /\ \A i \in 1..4 : enqueued' \cap Places'[i] = {}
    BY <2>1, <2>9, MovesKeep DEF Draining
  <2>11. Draining'
    <3>1. ~\E v \in Workers : worker[v] = "exited"
      BY <2>1 DEF Draining
    <3>2. ~\E v \in Workers : worker'[v] = "exited"
      BY <1>0, <2>1, <2>2, <3>1
    <3> QED
      BY <2>1, <2>10, <3>1, <3>2 DEF Draining
  <2>12. \A v \in Workers : worker[v] # s
    <3>1. s \notin WithWorkers
      BY <2>8, PlacesAre DEF Partition
    <3> QED
      BY <2>2, <3>1 DEF WithWorkers
  <2>13. \A u, v \in Workers : worker'[u] \in Spans /\ worker'[u] = worker'[v] => u = v
    BY <1>0, <2>1, <2>12 DEF Single
  <2>14. \A i, j \in 1..Len(queue') : queue'[i] = queue'[j] => i = j
    <3> SUFFICES ASSUME NEW i \in 1..Len(queue'), NEW j \in 1..Len(queue'), queue'[i] = queue'[j]
                 PROVE  i = j
      OBVIOUS
    <3>1. i + 1 \in 1..Len(queue) /\ j + 1 \in 1..Len(queue)
      BY <1>0, <2>2
    <3>2. queue[i + 1] = queue[j + 1]
      BY <2>2
    <3>3. i + 1 = j + 1
      BY <3>1, <3>2 DEF Single
    <3> QED
      BY <3>3
  <2>15. Pure' /\ Single'
    BY <2>1, <2>13, <2>14 DEF Pure, Single
  <2> QED
    BY <2>4, <2>10, <2>11, <2>15
<1>2. CASE WorkerProcesses(w)
  <2> USE DEF storeVars, tailVars, downVars, mainVars
  <2> DEFINE s == worker[w]
  <2>1. /\ s \in Spans /\ Asm!AddSpan(s)
        /\ worker' = [worker EXCEPT ![w] = None]
        /\ UNCHANGED <<storeVars, pc, dropped, queue, closed, enqueued, tailVars, downVars, mainVars>>
    BY <1>2 DEF WorkerProcesses
  <2>2. /\ pending' \in [Traces -> SUBSET Spans] /\ unsent' \in SUBSET Spans
        /\ Pending' = Pending \cup {s}
        /\ UNCHANGED <<building, completed, panicked, stopPc, stopIds, stopSpans>>
        /\ Pure'
    BY <2>1, AddSpanAdds
  <2>3. worker' \in [Workers -> Spans \cup {None, "exited"}]
    BY <1>0, <2>1
  <2>4. TypeOK'
    BY <2>1, <2>2, <2>3 DEF TypeOK
  <2>5. WithWorkers' = WithWorkers \ {s} /\ s \in WithWorkers
    <3>1. worker'[w] = None /\ \A v \in Workers : v # w => worker'[v] = worker[v]
      BY <1>0, <2>1
    <3>2. \A v \in Workers : v # w => worker[v] # s
      BY <2>1 DEF Single
    <3> QED
      BY <2>1, <3>1, <3>2 DEF WithWorkers
  <2>6. /\ Places'[1] = Places[1] /\ Places'[2] = Places[2] /\ Places'[3] = Places[3]
        /\ Places'[4] = Places[4] /\ Places'[5] = Places[5]
        /\ Places'[8] = Places[8] /\ Places'[9] = Places[9]
    BY <2>1, <2>2, PlacesAre, PlacesAreNext
  <2>7. /\ s \in Places[6] /\ Places'[6] = Places[6] \ {s}
        /\ Places'[7] = Places[7] \cup {s}
    BY <2>2, <2>5, PlacesAre, PlacesAreNext
  <2>8. Moves(6, 7, {s})
    BY <2>6, <2>7 DEF Moves
  <2>9. Partition(Places)' /\ \A i \in 1..4 : enqueued' \cap Places'[i] = {}
    BY <2>1, <2>8, MovesKeep DEF Draining
  <2>10. Draining'
    BY <2>1, <2>9, AddSpanKeepsDraining
  <2>11. \A u, v \in Workers : worker'[u] \in Spans /\ worker'[u] = worker'[v] => u = v
    BY <1>0, <2>1 DEF Single
  <2>12. Single'
    BY <2>1, <2>2, <2>11 DEF Single
  <2> QED
    BY <2>2, <2>4, <2>9, <2>10, <2>12
<1>3. CASE WorkerExits(w)
  <2> USE DEF asmVars, storeVars, tailVars, downVars, mainVars
  <2>1. /\ worker[w] = None /\ closed /\ queue = <<>>
        /\ worker' = [worker EXCEPT ![w] = "exited"]
        /\ UNCHANGED <<asmVars, storeVars, pc, dropped, queue, closed, enqueued, tailVars,
                       downVars, mainVars>>
    BY <1>3 DEF WorkerExits
  <2>2. worker' \in [Workers -> Spans \cup {None, "exited"}]
    BY <1>0, <2>1
  <2>3. TypeOK'
    BY <2>1, <2>2 DEF TypeOK
  <2>4. /\ worker'[w] = "exited" /\ worker[w] \notin Spans /\ worker'[w] \notin Spans
        /\ \A v \in Workers : v # w => worker'[v] = worker[v]
    BY <1>0, <2>1
  <2>5. WithWorkers' = WithWorkers
    BY <2>4 DEF WithWorkers
  <2>6. /\ Places'[1] = Places[1] /\ Places'[2] = Places[2] /\ Places'[3] = Places[3]
        /\ Places'[4] = Places[4] /\ Places'[5] = Places[5] /\ Places'[6] = Places[6]
        /\ Places'[8] = Places[8] /\ Places'[9] = Places[9]
    BY <2>1, <2>5, PlacesAre, PlacesAreNext
  <2>7. Places'[7] = Places[7]
    BY <2>1, PlacesAre, PlacesAreNext DEF Pending
  <2>8. Moves(6, 7, {})
    BY <2>6, <2>7 DEF Moves
  <2>9. Partition(Places)' /\ \A i \in 1..4 : enqueued' \cap Places'[i] = {}
    BY <2>1, <2>8, MovesKeep DEF Draining
  <2>10. Draining'
    BY <2>1, <2>4, <2>9 DEF Draining
  <2>11. Pure' /\ Single'
    BY <2>1, <2>4 DEF Pure, Single
  <2> QED
    BY <2>3, <2>9, <2>10, <2>11
<1> QED
  BY <1>1, <1>2, <1>3 DEF WorkerStep

-----------------------------------------------------------------------------
(* The tail sampler decides on the spans it has buffered of a trace.       *)
LEMMA TailDecidesKeeps ==
  ASSUME Inv, NEW t \in Traces, NEW by \in {"timer", "stop"}, TailDecides(t, by),
         UNCHANGED <<asmVars, storeVars, pc, chanVars, shutdown>>
  PROVE  /\ Pure' /\ Partition(Places)' /\ Single' /\ Draining'
         /\ dropped' \in SUBSET Spans /\ buffered' \in SUBSET Spans
         /\ accepting' \in SUBSET [span : Spans, by : {"timer", "stop"}]
<1> USE DEF Inv, asmVars, storeVars, chanVars
<1> DEFINE taken == {s \in buffered : traceOf[s] = t}
           new   == [span : taken, by : {by}]
<1>1. /\ buffered' = buffered \ taken
      /\ \/ accepting' = accepting \cup new /\ UNCHANGED dropped
         \/ dropped' = dropped \cup taken /\ UNCHANGED accepting
  BY DEF TailDecides
<1>2. taken \subseteq buffered /\ taken \subseteq Spans
  BY DEF TypeOK
<1>3. \A p \in new : p.span \in taken /\ p.by = by
  OBVIOUS
<1>4. \A s \in taken : \E p \in new : p.span = s
  <2> SUFFICES ASSUME NEW s \in taken PROVE \E p \in new : p.span = s
    OBVIOUS
  <2>1. [span |-> s, by |-> by] \in new /\ [span |-> s, by |-> by].span = s
    OBVIOUS
  <2> QED
    BY <2>1
<1>5. new \subseteq [span : Spans, by : {"timer", "stop"}]
  BY <1>2
<1>6. \A p, q \in new : p.span = q.span => p = q
  OBVIOUS
<1> HIDE DEF taken, new
<1>7. /\ dropped' \in SUBSET Spans /\ buffered' \in SUBSET Spans
      /\ accepting' \in SUBSET [span : Spans, by : {"timer", "stop"}]
  BY <1>1, <1>2, <1>5 DEF TypeOK
<1>8. /\ Places'[1] = Places[1] /\ Places'[5] = Places[5]
      /\ Places'[8] = Places[8] /\ Places'[9] = Places[9]
  BY PlacesAre, PlacesAreNext
<1>9. Places'[6] = Places[6] /\ Places'[7] = Places[7]
  BY PlacesAre, PlacesAreNext DEF WithWorkers, Pending
<1>10. taken \subseteq Places[3] /\ Places'[3] = Places[3] \ taken
  BY <1>1, <1>2, PlacesAre, PlacesAreNext
<1>11. \E b \in {2, 4} : Moves(3, b, taken)
  <2>1. CASE accepting' = accepting \cup new /\ UNCHANGED dropped
    <3>1. {p.span : p \in accepting'} = {p.span : p \in accepting} \cup taken
      BY <1>3, <1>4, <2>1
    <3>2. Places'[4] = Places[4] \cup taken /\ Places'[2] = Places[2]
      BY <2>1, <3>1, PlacesAre, PlacesAreNext
    <3>3. Moves(3, 4, taken)
      BY <1>8, <1>9, <1>10, <3>2 DEF Moves
    <3> QED
      BY <3>3
  <2>2. CASE dropped' = dropped \cup taken /\ UNCHANGED accepting
    <3>1. Places'[2] = Places[2] \cup taken /\ Places'[4] = Places[4]
      BY <2>2, PlacesAre, PlacesAreNext
    <3>2. Moves(3, 2, taken)
      BY <1>8, <1>9, <1>10, <3>1 DEF Moves
    <3> QED
      BY <3>2
  <2> QED
    BY <1>1, <2>1, <2>2
<1>12. Partition(Places)' /\ \A i \in 1..4 : enqueued' \cap Places'[i] = {}
  BY <1>11, MovesKeep DEF Draining
<1>13. Draining'
  BY <1>12 DEF Draining
<1>14. \A p, q \in accepting' : p.span = q.span => p = q
  <2>1. \A p \in accepting : p.span \notin taken
    <3>1. \A p \in accepting : p.span \in Places[4]
      BY PlacesAre
    <3>2. Places[3] \cap Places[4] = {}
      BY DEF Partition
    <3> QED
      BY <1>10, <3>1, <3>2
  <2> QED
    BY <1>1, <1>3, <1>6, <2>1 DEF Single
<1>15. Pure' /\ Single'
  BY <1>14 DEF Pure, Single
<1> QED
  BY <1>7, <1>12, <1>13, <1>15

(* The timers and the callbacks of the assembler and of the tail sampler.  *)
LEMMA CallbackKeepsInv ==
  ASSUME Inv, (\E t \in Traces : AssemblerStep(t) \/ TailStep(t)) \/ CallbackStep
  PROVE  Inv'
<1> USE PipelineConstants DEF Inv
<1>1. ASSUME NEW t \in Traces, AssemblerTimer(t) PROVE Inv'
  <2> USE DEF storeVars, ingestVars, chanVars, tailVars, downVars, mainVars
  <2>1. /\ pending[t] # {} /\ Asm!Take(t, "timer")
        /\ UNCHANGED <<unsent, completed, panicked, stopPc, stopIds, stopSpans>>
        /\ UNCHANGED <<storeVars, ingestVars, downVars, mainVars>>
    BY <1>1 DEF AssemblerTimer, Asm!Finalize, Asm!stopVars
  <2>2. /\ pending' = [pending EXCEPT ![t] = {}]
        /\ pending' \in [Traces -> SUBSET Spans]
        /\ building' \in SUBSET Batches /\ building \subseteq building'
        /\ Moves(7, 8, pending[t])
        /\ Pure' /\ Single'
    BY <2>1, TakeMoves
  <2>3. TypeOK'
    BY <2>1, <2>2 DEF TypeOK
  <2>4. Partition(Places)' /\ \A i \in 1..4 : enqueued' \cap Places'[i] = {}
    BY <2>1, <2>2, MovesKeep DEF Draining
  <2>5. \A u \in Traces : pending'[u] \subseteq pending[u]
    BY <2>2 DEF TypeOK
  <2>6. Draining'
    BY <2>1, <2>4, <2>5 DEF Draining
  <2> QED
    BY <2>2, <2>3, <2>4, <2>6
<1>2. ASSUME NEW b \in building, Upserts(b) PROVE Inv'
  <2> USE DEF asmVars, ingestVars, chanVars, tailVars, downVars, mainVars
  <2>1. /\ stored' = [stored EXCEPT ![b.trace] = b.spans]
        /\ upserted' = upserted \cup {b}
        /\ UNCHANGED <<asmVars, ingestVars, downVars, mainVars>>
    BY <1>2 DEF Upserts
  <2>2. b.trace \in Traces /\ b.spans \in SUBSET Spans
    BY DEF TypeOK, Batches
  <2>3. TypeOK'
    BY <2>1, <2>2 DEF TypeOK
  <2> QED
    BY <2>1, <2>3, QuietKeeps
<1>3. ASSUME NEW b \in building, OnCompleteReturns(b) PROVE Inv'
  <2> USE DEF ingestVars, chanVars, tailVars, downVars, mainVars
  <2>1. /\ building' = building \ {b} /\ completed' = completed \cup {b}
        /\ upserted' = upserted \ {b}
        /\ UNCHANGED <<unsent, pending, panicked, stopPc, stopIds, stopSpans>>
        /\ UNCHANGED <<stored, ingestVars, downVars, mainVars>>
    BY <1>3 DEF OnCompleteReturns, Asm!Complete, Asm!stopVars
  <2>2. TypeOK'
    BY <2>1 DEF TypeOK
  <2>3. (building \cup completed)' = building \cup completed
    BY <2>1
  <2>4. Pure' /\ Single'
    BY <2>1, <2>3 DEF Pure, Single
  <2>5. SpansIn(building') = SpansIn(building) \ b.spans /\ b.spans \subseteq SpansIn(building)
    <3>1. \A c \in building : c # b => c.spans \cap b.spans = {}
      BY DEF Single
    <3> QED
      BY <2>1, <3>1 DEF SpansIn
  <2>6. SpansIn(completed') = SpansIn(completed) \cup b.spans
    BY <2>1 DEF SpansIn
  <2>7. /\ Places'[1] = Places[1] /\ Places'[2] = Places[2] /\ Places'[3] = Places[3]
        /\ Places'[4] = Places[4] /\ Places'[5] = Places[5]
    BY <2>1, PlacesAre, PlacesAreNext
  <2>8. Places'[6] = Places[6] /\ Places'[7] = Places[7]
    BY <2>1, PlacesAre, PlacesAreNext DEF WithWorkers, Pending
  <2>9. /\ b.spans \subseteq Places[8] /\ Places'[8] = Places[8] \ b.spans
        /\ Places'[9] = Places[9] \cup b.spans
    BY <2>5, <2>6, PlacesAre, PlacesAreNext
  <2>10. Moves(8, 9, b.spans)
    BY <2>7, <2>8, <2>9 DEF Moves
  <2>11. Partition(Places)' /\ \A i \in 1..4 : enqueued' \cap Places'[i] = {}
    BY <2>1, <2>10, MovesKeep DEF Draining
  <2>12. Draining'
    BY <2>1, <2>11 DEF Draining
  <2> QED
    BY <2>2, <2>4, <2>11, <2>12
<1>4. ASSUME NEW t \in Traces, TailTimer(t) PROVE Inv'
  <2>1. /\ TailDecides(t, "timer")
        /\ UNCHANGED <<asmVars, storeVars, pc, chanVars, downVars, mainVars>>
    BY <1>4 DEF TailTimer
  <2>2. /\ Pure' /\ Partition(Places)' /\ Single' /\ Draining'
        /\ dropped' \in SUBSET Spans /\ buffered' \in SUBSET Spans
        /\ accepting' \in SUBSET [span : Spans, by : {"timer", "stop"}]
    BY <2>1, TailDecidesKeeps DEF downVars
  <2>3. TypeOK'
    BY <2>1, <2>2 DEF TypeOK, asmVars, storeVars, chanVars, downVars, mainVars
  <2> QED
    BY <2>2, <2>3
<1>5. ASSUME NEW p \in accepting, TailProcesses(p) PROVE Inv'
  <2> USE DEF storeVars, chanVars, downVars, mainVars
  <2> DEFINE s == p.span
  <2>1. /\ Asm!AddSpan(s) /\ accepting' = accepting \ {p}
        /\ UNCHANGED <<storeVars, pc, dropped, chanVars, buffered, downVars, mainVars>>
    BY <1>5 DEF TailProcesses
  <2>2. s \in Spans
    BY DEF TypeOK
  <2> HIDE DEF s
  <2>3. /\ pending' \in [Traces -> SUBSET Spans] /\ unsent' \in SUBSET Spans
        /\ Pending' = Pending \cup {s}
        /\ UNCHANGED <<building, completed, panicked, stopPc, stopIds, stopSpans>>
        /\ Pure'
    BY <2>1, <2>2, AddSpanAdds
  <2>4. TypeOK'
    BY <2>1, <2>3 DEF TypeOK
  <2>5. {q.span : q \in accepting'} = {q.span : q \in accepting} \ {s} /\ s \in {q.span : q \in accepting}
    <3>1. \A q \in accepting : q # p => q.span # s
      BY DEF Single, s
    <3> QED
      BY <2>1, <3>1 DEF s
  <2>6. /\ Places'[1] = Places[1] /\ Places'[2] = Places[2] /\ Places'[3] = Places[3]
        /\ Places'[5] = Places[5] /\ Places'[8] = Places[8] /\ Places'[9] = Places[9]
    BY <2>1, <2>3, PlacesAre, PlacesAreNext
  <2>7. Places'[6] = Places[6]
    BY <2>1, PlacesAre, PlacesAreNext DEF WithWorkers
  <2>8. /\ s \in Places[4] /\ Places'[4] = Places[4] \ {s}
        /\ Places'[7] = Places[7] \cup {s}
    BY <2>3, <2>5, PlacesAre, PlacesAreNext
  <2>9. Moves(4, 7, {s})
    BY <2>6, <2>7, <2>8 DEF Moves
  <2>10. Partition(Places)' /\ \A i \in 1..4 : enqueued' \cap Places'[i] = {}
    BY <2>1, <2>9, MovesKeep DEF Draining
  <2>11. s \notin enqueued
    BY <2>8 DEF Draining
  <2>12. Draining'
    BY <2>1, <2>2, <2>10, <2>11, AddSpanKeepsDraining
  <2>13. Single'
    BY <2>1, <2>3 DEF Single
  <2> QED
    BY <2>3, <2>4, <2>10, <2>12, <2>13
<1> HIDE DEF Inv
<1> QED
  BY <1>1, <1>2, <1>3, <1>4, <1>5 DEF AssemblerStep, TailStep, CallbackStep

-----------------------------------------------------------------------------
(* The steps of Shutdown.                                                  *)
LEMMA ShutdownKeepsInv ==
  ASSUME Inv, ShutdownStep
  PROVE  Inv'
<1> USE PipelineConstants DEF Inv
<1>1. ASSUME NEW by \in {"ctx", "main"}, ShutdownBegins(by) PROVE Inv'
  <2> USE DEF asmVars, storeVars, ingestVars, chanVars, tailVars, mainVars
  <2>1. /\ shutdown = "idle" /\ caller' = by /\ shutdown' = "sampler"
        /\ flushIds' = {traceOf[s] : s \in buffered}
        /\ UNCHANGED <<asmVars, storeVars, ingestVars, mainVars>>
    BY <1>1 DEF ShutdownBegins
  <2>2. flushIds' \in SUBSET Traces
    BY <2>1 DEF TypeOK
  <2>3. TypeOK'
    BY <2>1, <2>2 DEF TypeOK, Down
  <2> QED
    BY <2>1, <2>3, QuietKeeps
<1>2. ASSUME NEW t \in Traces, SamplerFlushes(t) PROVE Inv'
  <2>1. /\ flushIds' = flushIds \ {t} /\ TailDecides(t, "stop")
        /\ UNCHANGED <<asmVars, storeVars, pc, chanVars, shutdown, caller, mainVars>>
    BY <1>2 DEF SamplerFlushes
  <2>2. /\ Pure' /\ Partition(Places)' /\ Single' /\ Draining'
        /\ dropped' \in SUBSET Spans /\ buffered' \in SUBSET Spans
        /\ accepting' \in SUBSET [span : Spans, by : {"timer", "stop"}]
    BY <2>1, TailDecidesKeeps
  <2>3. TypeOK'
    BY <2>1, <2>2 DEF TypeOK, asmVars, storeVars, chanVars, mainVars
  <2> QED
    BY <2>2, <2>3
<1>3. CASE SamplerStopped
  <2> USE DEF asmVars, storeVars, ingestVars, chanVars, tailVars, mainVars
  <2>1. /\ shutdown = "sampler" /\ shutdown' = "close"
        /\ UNCHANGED <<asmVars, storeVars, ingestVars, caller, flushIds, mainVars>>
    BY <1>3 DEF SamplerStopped
  <2>2. TypeOK'
    BY <2>1 DEF TypeOK, Down
  <2> QED
    BY <2>1, <2>2, QuietKeeps
<1>4. CASE ShutdownCloses
  <2> USE DEF asmVars, storeVars, tailVars, mainVars
  <2>1. /\ shutdown = "close" /\ closed' = TRUE /\ shutdown' = "wait"
        /\ UNCHANGED <<asmVars, storeVars, pc, dropped, queue, worker, enqueued, tailVars,
                       caller, flushIds, mainVars>>
    BY <1>4 DEF ShutdownCloses
  <2>2. TypeOK'
    BY <2>1 DEF TypeOK, Down
  <2>3. Pure' /\ Single'
    BY <2>1 DEF Pure, Single
  <2>4. /\ Places'[1] = Places[1] /\ Places'[2] = Places[2] /\ Places'[3] = Places[3]
        /\ Places'[4] = Places[4] /\ Places'[5] = Places[5]
        /\ Places'[8] = Places[8] /\ Places'[9] = Places[9]
    BY <2>1, PlacesAre, PlacesAreNext
  <2>5. Places'[6] = Places[6] /\ Places'[7] = Places[7]
    BY <2>1, PlacesAre, PlacesAreNext DEF WithWorkers, Pending
  <2>6. Moves(1, 2, {})
    BY <2>4, <2>5 DEF Moves
  <2>7. Partition(Places)' /\ \A i \in 1..4 : enqueued' \cap Places'[i] = {}
    BY <2>1, <2>6, MovesKeep DEF Draining
  <2>8. Draining'
    BY <2>1, <2>7 DEF Draining
  <2> QED
    BY <2>2, <2>3, <2>7, <2>8
<1>5. CASE ShutdownWaits
  <2> USE DEF storeVars, ingestVars, chanVars, tailVars, mainVars
  <2>1. /\ shutdown = "wait" /\ \A w \in Workers : worker[w] = "exited"
        /\ stopPc' = "flush" /\ stopIds' = {t \in Traces : pending[t] # {}}
        /\ stopSpans' = Pending
        /\ shutdown' = "assembler"
        /\ UNCHANGED <<unsent, pending, building, completed, panicked>>
        /\ UNCHANGED <<storeVars, ingestVars, caller, flushIds, mainVars>>
    BY <1>5 DEF ShutdownWaits, Asm!StopBegin, Asm!batchVars, Pending
  <2>2. TypeOK'
    BY <2>1 DEF TypeOK, Down, Pending
  <2>3. Pure' /\ Single'
    BY <2>1 DEF Pure, Single
  <2>4. /\ Places'[1] = Places[1] /\ Places'[2] = Places[2] /\ Places'[3] = Places[3]
        /\ Places'[4] = Places[4] /\ Places'[5] = Places[5]
        /\ Places'[8] = Places[8] /\ Places'[9] = Places[9]
    BY <2>1, PlacesAre, PlacesAreNext
  <2>5. Places'[6] = Places[6] /\ Places'[7] = Places[7]
    BY <2>1, PlacesAre, PlacesAreNext DEF WithWorkers, Pending
  <2>6. Moves(1, 2, {})
    BY <2>4, <2>5 DEF Moves
  <2>7. Partition(Places)' /\ \A i \in 1..4 : enqueued' \cap Places'[i] = {}
    BY <2>1, <2>6, MovesKeep DEF Draining
  <2>8. Draining'
    BY <2>1, <2>7 DEF Draining
  <2> QED
    BY <2>2, <2>3, <2>7, <2>8
<1>6. CASE ShutdownTimesOut
  <2> USE DEF asmVars, storeVars, ingestVars, chanVars, tailVars, mainVars
  <2>1. /\ shutdown = "wait" /\ shutdown' = "timedOut"
        /\ UNCHANGED <<asmVars, storeVars, ingestVars, caller, flushIds, mainVars>>
    BY <1>6 DEF ShutdownTimesOut
  <2>2. TypeOK'
    BY <2>1 DEF TypeOK, Down
  <2> QED
    BY <2>1, <2>2, QuietKeeps
<1>7. ASSUME NEW t \in Traces, AssemblerFlushes(t) PROVE Inv'
  <2> USE DEF storeVars, ingestVars, chanVars, tailVars, downVars, mainVars
  <2>1. /\ stopIds' = stopIds \ {t}
        /\ IF pending[t] = {} THEN UNCHANGED <<pending, building>> ELSE Asm!Take(t, "stop")
        /\ UNCHANGED <<unsent, completed, panicked, stopPc, stopSpans>>
        /\ UNCHANGED <<storeVars, ingestVars, downVars, mainVars>>
    BY <1>7 DEF AssemblerFlushes, Asm!StopFinalize
  <2>2. /\ pending' = [pending EXCEPT ![t] = {}]
        /\ pending' \in [Traces -> SUBSET Spans]
        /\ building' \in SUBSET Batches /\ building \subseteq building'
        /\ Moves(7, 8, pending[t])
        /\ Pure' /\ Single'
    <3>1. CASE pending[t] = {}
      <4>1. pending' = [pending EXCEPT ![t] = {}] /\ pending' = pending /\ building' = building
        BY <2>1, <3>1 DEF TypeOK
      <4>2. Pure' /\ Single'
        BY <2>1, <4>1 DEF Pure, Single
      <4>3. /\ Places'[1] = Places[1] /\ Places'[2] = Places[2] /\ Places'[3] = Places[3]
            /\ Places'[4] = Places[4] /\ Places'[5] = Places[5]
            /\ Places'[8] = Places[8] /\ Places'[9] = Places[9]
        BY <2>1, <4>1, PlacesAre, PlacesAreNext
      <4>4. Places'[6] = Places[6] /\ Places'[7] = Places[7]
        BY <2>1, <4>1, PlacesAre, PlacesAreNext DEF WithWorkers, Pending
      <4>5. Moves(7, 8, pending[t])
        BY <3>1, <4>3, <4>4 DEF Moves
      <4> QED
        BY <4>1, <4>2, <4>5 DEF TypeOK
    <3>2. CASE pending[t] # {}
      BY <2>1, <3>2, TakeMoves
    <3> QED
      BY <3>1, <3>2
  <2>3. TypeOK'
    BY <2>1, <2>2 DEF TypeOK
  <2>4. Partition(Places)' /\ \A i \in 1..4 : enqueued' \cap Places'[i] = {}
    BY <2>1, <2>2, MovesKeep DEF Draining
  <2>5. pending'[t] = {} /\ \A u \in Traces : u # t => pending'[u] = pending[u]
    BY <2>2 DEF TypeOK
  <2>6. Draining'
    BY <2>1, <2>4, <2>5 DEF Draining
  <2> QED
    BY <2>2, <2>3, <2>4, <2>6
<1>8. CASE ShutdownReturns
  <2> USE DEF storeVars, ingestVars, chanVars, tailVars, mainVars
  <2>1. /\ stopPc = "flush" /\ stopIds = {} /\ stopPc' = "done" /\ shutdown' = "done"
        /\ UNCHANGED <<unsent, pending, building, completed, panicked, stopIds, stopSpans>>
        /\ UNCHANGED <<storeVars, ingestVars, caller, flushIds, mainVars>>
    BY <1>8 DEF ShutdownReturns, Asm!StopReturns, Asm!batchVars
  <2>2. TypeOK'
    BY <2>1 DEF TypeOK, Down
  <2>3. Pure' /\ Single'
    BY <2>1 DEF Pure, Single
  <2>4. /\ Places'[1] = Places[1] /\ Places'[2] = Places[2] /\ Places'[3] = Places[3]
        /\ Places'[4] = Places[4] /\ Places'[5] = Places[5]
        /\ Places'[8] = Places[8] /\ Places'[9] = Places[9]
    BY <2>1, PlacesAre, PlacesAreNext
  <2>5. Places'[6] = Places[6] /\ Places'[7] = Places[7]
    BY <2>1, PlacesAre, PlacesAreNext DEF WithWorkers, Pending
  <2>6. Moves(1, 2, {})
    BY <2>4, <2>5 DEF Moves
  <2>7. Partition(Places)' /\ \A i \in 1..4 : enqueued' \cap Places'[i] = {}
    BY <2>1, <2>6, MovesKeep DEF Draining
  <2>8. Draining'
    BY <2>1, <2>7 DEF Draining
  <2> QED
    BY <2>2, <2>3, <2>7, <2>8
<1> HIDE DEF Inv
<1> QED
  BY <1>1, <1>2, <1>3, <1>4, <1>5, <1>6, <1>7, <1>8 DEF ShutdownStep

(* The steps of main.                                                      *)
LEMMA MainKeepsInv ==
  ASSUME Inv, Signal \/ MainStep
  PROVE  Inv'
<1>1. /\ UNCHANGED <<asmVars, storeVars, ingestVars, downVars>>
      /\ main' \in {"serving", "signalled", "http", "grpc", "pipeline", "returned"}
      /\ expired' \in BOOLEAN
      /\ process' \in {"up", "exited", "crashed"}
  BY DEF Inv, TypeOK, Signal, MainStep, StopsHTTP, HTTPStopped, GRPCStopped, MainReturns,
         ContextExpires, MainGoes
<1>2. TypeOK'
  BY <1>1 DEF Inv, TypeOK, asmVars, storeVars, ingestVars, chanVars, tailVars, downVars
<1>3. Pure' /\ Partition(Places)' /\ Single' /\ Draining'
  BY <1>1, QuietKeeps DEF asmVars, storeVars, ingestVars, chanVars, tailVars, downVars
<1> QED
  BY <1>2, <1>3 DEF Inv

-----------------------------------------------------------------------------
(* Every step of the pipeline preserves the inductive invariant.           *)
LEMMA NextInv == Inv /\ [Next]_vars => Inv'
<1> SUFFICES ASSUME Inv, [Next]_vars PROVE Inv'
  OBVIOUS
<1>1. CASE ClientStep
  BY <1>1, RequestKeepsInv, MainKeepsInv DEF ClientStep
<1>2. ASSUME NEW s \in Spans, RequestStep(s) PROVE Inv'
  BY <1>2, RequestKeepsInv
<1>3. ASSUME NEW w \in Workers, WorkerStep(w) PROVE Inv'
  BY <1>3, WorkerKeepsInv
<1>4. CASE (\E t \in Traces : AssemblerStep(t) \/ TailStep(t)) \/ CallbackStep
  BY <1>4, CallbackKeepsInv
<1>5. CASE ShutdownStep
  BY <1>5, ShutdownKeepsInv
<1>6. CASE MainStep
  BY <1>6, MainKeepsInv
<1>7. CASE UNCHANGED vars
  <2>1. TypeOK'
    BY <1>7 DEF Inv, TypeOK, vars, asmVars, storeVars, ingestVars, chanVars, tailVars,
                downVars, mainVars
  <2>2. Pure' /\ Partition(Places)' /\ Single' /\ Draining'
    BY <1>7, QuietKeeps DEF vars, asmVars, ingestVars, chanVars, tailVars, downVars
  <2> QED
    BY <2>1, <2>2 DEF Inv
<1> QED
  BY <1>1, <1>2, <1>3, <1>4, <1>5, <1>6, <1>7 DEF Next

(* The inductive invariant holds in every reachable state.                 *)
LEMMA SpecInv == Spec => []Inv
  BY InitInv, NextInv, PTL DEF Spec

-----------------------------------------------------------------------------
(* The state of the pipeline always has its type; the channel never holds  *)
(* more than workerQueueDepth spans.                                       *)
THEOREM TypeCorrect == Spec => []TypeOK
<1>1. Inv => TypeOK
  BY DEF Inv
<1> QED
  BY <1>1, SpecInv, PTL

(* Between the request and the store no span is lost, processed twice or   *)
(* in two places, for any number of workers, spans and traces, through a   *)
(* full channel, a tail sampler, a Shutdown or a panic of a request.       *)
THEOREM NoLossNoDuplicate == Spec => []ExactlyOnce
<1>1. Inv => ExactlyOnce
  <2> SUFFICES ASSUME Inv PROVE ExactlyOnce
    OBVIOUS
  <2>1. \A s \in Spans : Cardinality({p \in 1..9 : s \in Places[p]}) = 1
    BY PartitionCounts DEF Inv
  <2>2. Len(Places) = 9
    BY PlacesAre
  <2> QED
    BY <2>1, <2>2 DEF Inv, Single, ExactlyOnce
<1> QED
  BY <1>1, SpecInv, PTL

(* When Shutdown returns without having timed out, everything that ever    *)
(* went through p.workCh has left the channel, the workers and the         *)
(* assembler's entries.                                                    *)
THEOREM ShutdownIsComplete == Spec => []ShutdownDrains
<1>1. Inv => ShutdownDrains
  <2> SUFFICES ASSUME Inv, shutdown = "done"
               PROVE  enqueued \cap (ToSet(queue) \cup WithWorkers \cup Pending) = {}
    BY DEF ShutdownDrains
  <2>1. \A w \in Workers : worker[w] = "exited"
    BY DEF Inv, Draining
  <2>2. queue = <<>>
    BY <2>1, WorkersAssumption DEF Inv, Draining
  <2>3. ToSet(queue) = {}
    BY <2>2 DEF ToSet
  <2>4. WithWorkers = {}
    BY <2>1, PipelineConstants DEF WithWorkers
  <2>5. stopPc # "flush"
    BY DEF Inv, Draining
  <2>6. \A t \in Traces : enqueued \cap pending[t] = {}
    BY <2>5 DEF Inv, Draining
  <2> QED
    BY <2>3, <2>4, <2>6 DEF Pending
<1> QED
  BY <1>1, SpecInv, PTL

=============================================================================
