-------------------------- MODULE MemoryStoreProofs --------------------------
(***************************************************************************)
(* Proofs about MemoryStore.tla for every capacity, every set of ids and   *)
(* every set of traces.                                                    *)
(*                                                                         *)
(* The invariants of the run are inductive together once the set of stored *)
(* ids is known to be finite.  Between the two ends of an Upsert the trace *)
(* being replaced is in s.traces and in nothing else; Detached says so.    *)
(***************************************************************************)
EXTENDS MemoryStore, FiniteSetTheorems, SequenceTheorems, TLAPS

(* IndexesAgree and TimelineAgrees for any index, timeline, set of ids and *)
(* contents, so that the lemmas can speak of the parts of a step.          *)
IndexOf(ix, L, f) ==
    /\ \A v \in Services : ix.svc[v] = {i \in L : v \in f[i].services}
    /\ \A k \in OpKeys : ix.oper[k] = {i \in L : k \in KeysOf(f[i])}
    /\ ix.err = {i \in L : f[i].err}

TimelineOf(tl, L, f) ==
    /\ \A p \in 1..Len(tl) : tl[p].id \in L /\ f[tl[p].id].at = tl[p].at
    /\ \A p, q \in 1..Len(tl) : tl[p].id = tl[q].id => p = q
    /\ \A i \in L : \E p \in 1..Len(tl) : tl[p].id = i

SortedByTime(tl) == \A p, q \in 1..Len(tl) : p <= q => tl[p].at <= tl[q].at

Live == Stored \ Detached

Entries == [id : Ids, at : Times]

Indexes == [svc : [Services -> SUBSET Ids], oper : [OpKeys -> SUBSET Ids], err : SUBSET Ids]

Inv ==
    /\ TypeOK
    /\ IndexOf(idx, Live, traces)
    /\ TimelineOf(timeline, Live, traces)
    /\ SortedByTime(timeline)
    /\ IsFiniteSet(Stored)
    /\ WithinCapacity

-----------------------------------------------------------------------------
(* What RemoveAt does to a sequence, position by position.                 *)
LEMMA RemoveAtProperties ==
  ASSUME NEW S, NEW tl \in Seq(S), NEW p \in 1..Len(tl)
  PROVE  /\ RemoveAt(tl, p) \in Seq(S)
         /\ Len(RemoveAt(tl, p)) = Len(tl) - 1
         /\ \A q \in 1..(Len(tl) - 1) :
               RemoveAt(tl, p)[q] = IF q < p THEN tl[q] ELSE tl[q + 1]
<1> DEFINE front == SubSeq(tl, 1, p - 1)
           back  == SubSeq(tl, p + 1, Len(tl))
<1>1. front \in Seq(S) /\ Len(front) = p - 1 /\ \A q \in 1..(p - 1) : front[q] = tl[q]
  OBVIOUS
<1>2. /\ back \in Seq(S) /\ Len(back) = Len(tl) - p
      /\ \A q \in 1..(Len(tl) - p) : back[q] = tl[p + q]
  OBVIOUS
<1>3. RemoveAt(tl, p) = front \o back
  BY DEF RemoveAt
<1> HIDE DEF front, back
<1>4. /\ front \o back \in Seq(S)
      /\ Len(front \o back) = Len(tl) - 1
      /\ \A q \in 1..(Len(tl) - 1) :
            (front \o back)[q] = IF q < p THEN front[q] ELSE back[q - p + 1]
  <2>1. Len(front) + Len(back) = Len(tl) - 1
    BY <1>1, <1>2
  <2>2. front \o back \in Seq(S) /\ Len(front \o back) = Len(tl) - 1
    BY <1>1, <1>2, <2>1
  <2>3. \A q \in 1..(Len(tl) - 1) :
           (front \o back)[q] = IF q <= Len(front) THEN front[q] ELSE back[q - Len(front)]
    BY <1>1, <1>2, <2>1
  <2>4. \A q \in 1..(Len(tl) - 1) : (q <= Len(front) <=> q < p) /\ q - Len(front) = q - p + 1
    BY <1>1
  <2> QED
    BY <2>2, <2>3, <2>4
<1>5. ASSUME NEW q \in 1..(Len(tl) - 1), q >= p PROVE back[q - p + 1] = tl[q + 1]
  <2>1. q - p + 1 \in 1..(Len(tl) - p)
    BY <1>5
  <2>2. back[q - p + 1] = tl[p + (q - p + 1)]
    BY <1>2, <2>1
  <2> QED
    BY <2>2, <1>5
<1>6. ASSUME NEW q \in 1..(Len(tl) - 1), q < p PROVE front[q] = tl[q]
  BY <1>1, <1>6
<1> QED
  BY <1>3, <1>4, <1>5, <1>6

(* What InsertAt, with which Upsert makes room in the timeline, leaves.    *)
LEMMA InsertAtProperties ==
  ASSUME NEW S, NEW tl \in Seq(S), NEW p \in 1..(Len(tl) + 1), NEW e \in S
  PROVE  /\ InsertAt(tl, p, e) \in Seq(S)
         /\ Len(InsertAt(tl, p, e)) = Len(tl) + 1
         /\ \A q \in 1..(Len(tl) + 1) :
               InsertAt(tl, p, e)[q] =
                   IF q < p THEN tl[q] ELSE IF q = p THEN e ELSE tl[q - 1]
<1>1. /\ SubSeq(tl, 1, p - 1) \in Seq(S)
      /\ Len(SubSeq(tl, 1, p - 1)) = p - 1
      /\ \A q \in 1..(p - 1) : SubSeq(tl, 1, p - 1)[q] = tl[q]
  OBVIOUS
<1>2. /\ SubSeq(tl, p, Len(tl)) \in Seq(S)
      /\ Len(SubSeq(tl, p, Len(tl))) = Len(tl) + 1 - p
      /\ \A q \in 1..(Len(tl) + 1 - p) : SubSeq(tl, p, Len(tl))[q] = tl[p + q - 1]
  OBVIOUS
<1>3. <<e>> \in Seq(S) /\ Len(<<e>>) = 1 /\ <<e>>[1] = e
  OBVIOUS
<1> DEFINE front == SubSeq(tl, 1, p - 1) \o <<e>>
<1>4. /\ front \in Seq(S)
      /\ Len(front) = p
      /\ \A q \in 1..p : front[q] = IF q < p THEN tl[q] ELSE e
  BY <1>1, <1>3
<1>5. InsertAt(tl, p, e) = front \o SubSeq(tl, p, Len(tl))
  BY DEF InsertAt
<1> HIDE DEF front
<1> QED
  BY <1>2, <1>4, <1>5

-----------------------------------------------------------------------------
(* Removing one entry from a timeline removes its id from the ids it is    *)
(* a timeline of, and keeps it sorted.                                     *)
LEMMA RemoveKeepsTimeline ==
  ASSUME NEW tl \in Seq(Entries), NEW L, NEW f, TimelineOf(tl, L, f),
         NEW p \in 1..Len(tl), NEW tl2 \in Seq(Entries),
         Len(tl2) = Len(tl) - 1,
         \A q \in 1..(Len(tl) - 1) : tl2[q] = IF q < p THEN tl[q] ELSE tl[q + 1]
  PROVE  /\ TimelineOf(tl2, L \ {tl[p].id}, f)
         /\ SortedByTime(tl) => SortedByTime(tl2)
<1>0. /\ \A q \in 1..Len(tl2) : q < p => q \in 1..Len(tl) /\ tl2[q] = tl[q]
      /\ \A q \in 1..Len(tl2) : q >= p => q + 1 \in 1..Len(tl) /\ tl2[q] = tl[q + 1]
  OBVIOUS
<1>1. ASSUME NEW q \in 1..Len(tl2)
      PROVE  tl2[q].id \in L \ {tl[p].id} /\ f[tl2[q].id].at = tl2[q].at
  <2>1. PICK r \in 1..Len(tl) : r # p /\ tl2[q] = tl[r]
    <3>1. CASE q < p
      BY <1>0, <3>1, SMTT(30)
    <3>2. CASE q >= p
      <4>1. q + 1 \in 1..Len(tl) /\ q + 1 # p /\ tl2[q] = tl[q + 1]
        BY <1>0, <3>2
      <4> QED
        BY <4>1
    <3> QED
      BY <3>1, <3>2
  <2> QED
    BY <2>1 DEF TimelineOf
<1>2. ASSUME NEW q \in 1..Len(tl2), NEW r \in 1..Len(tl2), tl2[q].id = tl2[r].id
      PROVE  q = r
  <2>1. CASE q < p /\ r < p
    BY <1>0, <1>2, <2>1 DEF TimelineOf
  <2>2. CASE q >= p /\ r >= p
    <3>1. /\ q + 1 \in 1..Len(tl) /\ tl2[q] = tl[q + 1]
          /\ r + 1 \in 1..Len(tl) /\ tl2[r] = tl[r + 1]
      BY <1>0, <2>2
    <3>2. q + 1 = r + 1
      BY <1>2, <3>1 DEF TimelineOf
    <3> QED
      BY <3>2
  <2>3. CASE q < p /\ r >= p
    <3>1. q = r + 1
      BY <1>0, <1>2, <2>3, SMTT(30) DEF TimelineOf
    <3> QED
      BY <2>3, <3>1
  <2>4. CASE q >= p /\ r < p
    <3>1. q + 1 = r
      BY <1>0, <1>2, <2>4, SMTT(30) DEF TimelineOf
    <3> QED
      BY <2>4, <3>1
  <2> QED
    BY <2>1, <2>2, <2>3, <2>4
<1>3. ASSUME NEW i \in L \ {tl[p].id} PROVE \E q \in 1..Len(tl2) : tl2[q].id = i
  <2>1. PICK r \in 1..Len(tl) : tl[r].id = i
    BY DEF TimelineOf
  <2>2. CASE r < p
    BY <2>1, <2>2
  <2>3. CASE r > p
    <3>1. r - 1 \in 1..Len(tl2) /\ tl2[r - 1] = tl[r]
      BY <2>3
    <3> QED
      BY <2>1, <3>1
  <2> QED
    BY <2>1, <2>2, <2>3
<1>4. ASSUME SortedByTime(tl) PROVE SortedByTime(tl2)
  BY <1>0, <1>4 DEF SortedByTime
<1> QED
  BY <1>1, <1>2, <1>3, <1>4 DEF TimelineOf

(* Inserting an entry where sort.Search puts it.                           *)
LEMMA InsertKeepsTimeline ==
  ASSUME NEW tl \in Seq(Entries), NEW L, NEW f, TimelineOf(tl, L, f),
         SortedByTime(tl),
         NEW e \in Entries, e.id \notin L,
         NEW g, g[e.id].at = e.at, \A j \in L : g[j] = f[j],
         NEW p \in 1..(Len(tl) + 1),
         \A q \in 1..(p - 1) : tl[q].at <= e.at,
         \A q \in p..Len(tl) : tl[q].at > e.at
  PROVE  /\ TimelineOf(InsertAt(tl, p, e), L \cup {e.id}, g)
         /\ SortedByTime(InsertAt(tl, p, e))
<1> DEFINE i == e.id
           at == e.at
           tl2 == InsertAt(tl, p, e)
<1>i. /\ tl2 \in Seq(Entries)
      /\ Len(tl2) = Len(tl) + 1
      /\ \A q \in 1..(Len(tl) + 1) : tl2[q] =
            IF q < p THEN tl[q] ELSE IF q = p THEN e ELSE tl[q - 1]
  BY InsertAtProperties
<1> HIDE DEF tl2
<1>0. /\ p \in 1..Len(tl2) /\ tl2[p].id = i /\ tl2[p].at = at
      /\ \A q \in 1..Len(tl2) : q < p => q \in 1..Len(tl) /\ tl2[q] = tl[q]
      /\ \A q \in 1..Len(tl2) : q > p => q - 1 \in p..Len(tl) /\ tl2[q] = tl[q - 1]
  BY <1>i
<1>t. at \in Nat /\ \A n \in 1..Len(tl) : tl[n].at \in Nat
  <2>1. \A n \in 1..Len(tl) : tl[n] \in Entries
    OBVIOUS
  <2> QED
    BY <2>1, TimesAssumption DEF Entries
<1>1. ASSUME NEW q \in 1..Len(tl2)
      PROVE  tl2[q].id \in L \cup {i} /\ g[tl2[q].id].at = tl2[q].at
  <2>1. CASE q < p
    BY <1>0, <2>1 DEF TimelineOf
  <2>2. CASE q = p
    BY <1>0, <2>2
  <2>3. CASE q > p
    <3>1. q - 1 \in 1..Len(tl) /\ tl2[q] = tl[q - 1]
      BY <1>0, <2>3
    <3> QED
      BY <3>1 DEF TimelineOf
  <2> QED
    BY <2>1, <2>2, <2>3
<1>2. ASSUME NEW q \in 1..Len(tl2), NEW r \in 1..Len(tl2), q < r
      PROVE  tl2[q].id # tl2[r].id /\ tl2[q].at <= tl2[r].at
  <2>1. CASE r < p
    BY <1>0, <1>2, <2>1 DEF TimelineOf, SortedByTime
  <2>2. CASE r = p
    <3>1. q \in 1..(p - 1) /\ q \in 1..Len(tl) /\ tl2[q] = tl[q]
      BY <1>0, <1>2, <2>2
    <3>2. tl[q].at <= at /\ tl[q].id \in L
      BY <3>1 DEF TimelineOf
    <3> QED
      BY <1>0, <2>2, <3>1, <3>2
  <2>3. CASE q < p /\ r > p
    <3>1. /\ tl2[q] = tl[q] /\ q \in 1..(p - 1) /\ q \in 1..Len(tl)
          /\ tl2[r] = tl[r - 1] /\ r - 1 \in p..Len(tl) /\ r - 1 \in 1..Len(tl)
      BY <1>0, <2>3, SMTT(30)
    <3>2. tl[q].at <= at /\ tl[r - 1].at > at
      BY <3>1
    <3> QED
      BY <1>t, <3>1, <3>2, SMTT(30) DEF TimelineOf
  <2>4. CASE q = p
    <3>1. tl2[r] = tl[r - 1] /\ r - 1 \in p..Len(tl) /\ r - 1 \in 1..Len(tl)
      BY <1>0, <1>2, <2>4
    <3> QED
      BY <1>0, <1>t, <2>4, <3>1 DEF TimelineOf
  <2>5. CASE q > p
    <3>1. /\ tl2[q] = tl[q - 1] /\ q - 1 \in 1..Len(tl)
          /\ tl2[r] = tl[r - 1] /\ r - 1 \in 1..Len(tl)
          /\ q - 1 # r - 1 /\ q - 1 <= r - 1
      BY <1>0, <1>2, <2>5, SMTT(30)
    <3> QED
      BY <3>1 DEF TimelineOf, SortedByTime
  <2> QED
    BY <1>2, <2>1, <2>2, <2>3, <2>4, <2>5
<1>3. ASSUME NEW j \in L \cup {i} PROVE \E q \in 1..Len(tl2) : tl2[q].id = j
  <2>1. CASE j = i
    BY <1>0, <2>1
  <2>2. CASE j # i
    <3>1. PICK r \in 1..Len(tl) : tl[r].id = j
      BY <2>2 DEF TimelineOf
    <3>2. CASE r < p
      <4>1. r \in 1..Len(tl2) /\ tl2[r] = tl[r]
        BY <1>i, <3>2
      <4> QED
        BY <3>1, <4>1
    <3>3. CASE r >= p
      <4>1. r + 1 \in 1..Len(tl2) /\ tl2[r + 1] = tl[r]
        BY <1>i, <3>3
      <4> QED
        BY <3>1, <4>1
    <3> QED
      BY <3>2, <3>3
  <2> QED
    BY <2>1, <2>2
<1>4. \A q, r \in 1..Len(tl2) : tl2[q].id = tl2[r].id => q = r
  BY <1>2
<1>5. SortedByTime(tl2)
  <2>1. \A q \in 1..Len(tl2) : tl2[q] \in Entries
    BY <1>i
  <2>2. \A q \in 1..Len(tl2) : tl2[q].at \in Nat
    BY <2>1, TimesAssumption DEF Entries
  <2> QED
    BY <1>2, <2>2, SMTT(30) DEF SortedByTime
<1>6. TimelineOf(tl2, L \cup {i}, g)
  BY <1>1, <1>3, <1>4 DEF TimelineOf
<1> QED
  BY <1>5, <1>6 DEF tl2

-----------------------------------------------------------------------------
(* The indexes depend on the contents of the indexed ids only.             *)
LEMMA SameContents ==
  ASSUME NEW ix, NEW tl, NEW L, NEW f, NEW g, \A i \in L : g[i] = f[i]
  PROVE  /\ IndexOf(ix, L, f) => IndexOf(ix, L, g)
         /\ TimelineOf(tl, L, f) => TimelineOf(tl, L, g)
<1>1. ASSUME IndexOf(ix, L, f) PROVE IndexOf(ix, L, g)
  <2>1. \A v : {i \in L : v \in f[i].services} = {i \in L : v \in g[i].services}
    OBVIOUS
  <2>2. \A k : {i \in L : k \in KeysOf(f[i])} = {i \in L : k \in KeysOf(g[i])}
    OBVIOUS
  <2>3. {i \in L : f[i].err} = {i \in L : g[i].err}
    OBVIOUS
  <2> QED
    BY <1>1, <2>1, <2>2, <2>3 DEF IndexOf
<1>2. ASSUME TimelineOf(tl, L, f) PROVE TimelineOf(tl, L, g)
  BY <1>2 DEF TimelineOf
<1> QED
  BY <1>1, <1>2

(* removeFromIndexes takes one id out of every index it is in.             *)
LEMMA RemoveKeepsIndexes ==
  ASSUME NEW ix \in Indexes, NEW L, NEW f, IndexOf(ix, L, f), NEW i \in L
  PROVE  /\ RemoveFromIndexes(ix, i, f[i]) \in Indexes
         /\ IndexOf(RemoveFromIndexes(ix, i, f[i]), L \ {i}, f)
<1> DEFINE ix2 == RemoveFromIndexes(ix, i, f[i])
<1>1. ix2 \in Indexes
  BY DEF RemoveFromIndexes, Indexes
<1>2. ASSUME NEW v \in Services
      PROVE  ix2.svc[v] = {j \in L \ {i} : v \in f[j].services}
  <2>1. ix2.svc[v] = IF v \in f[i].services THEN ix.svc[v] \ {i} ELSE ix.svc[v]
    BY DEF RemoveFromIndexes
  <2>2. ix.svc[v] = {j \in L : v \in f[j].services}
    BY DEF IndexOf
  <2> QED
    BY <2>1, <2>2
<1>3. ASSUME NEW k \in OpKeys
      PROVE  ix2.oper[k] = {j \in L \ {i} : k \in KeysOf(f[j])}
  <2>1. ix2.oper[k] = IF k \in KeysOf(f[i]) THEN ix.oper[k] \ {i} ELSE ix.oper[k]
    BY DEF RemoveFromIndexes
  <2>2. ix.oper[k] = {j \in L : k \in KeysOf(f[j])}
    BY DEF IndexOf
  <2> QED
    BY <2>1, <2>2
<1>4. ix2.err = {j \in L \ {i} : f[j].err}
  <2>1. ix2.err = ix.err \ {i}
    BY DEF RemoveFromIndexes
  <2> QED
    BY <2>1 DEF IndexOf
<1> HIDE DEF ix2
<1>5. IndexOf(ix2, L \ {i}, f)
  BY <1>2, <1>3, <1>4 DEF IndexOf
<1> QED
  BY <1>1, <1>5 DEF ix2

(* Upsert adds the new version of a trace to every index it belongs in.    *)
LEMMA AddKeepsIndexes ==
  ASSUME NEW ix \in Indexes, NEW L, NEW f, IndexOf(ix, L, f),
         NEW i \in Ids, i \notin L, NEW tr \in TraceValues,
         NEW g, g[i] = tr, \A j \in L : g[j] = f[j]
  PROVE  /\ AddToIndexes(ix, i, tr) \in Indexes
         /\ IndexOf(AddToIndexes(ix, i, tr), L \cup {i}, g)
<1> DEFINE ix2 == AddToIndexes(ix, i, tr)
<1>0. IndexOf(ix, L, g)
  BY SameContents
<1>1. ix2 \in Indexes
  BY DEF AddToIndexes, Indexes
<1>2. ASSUME NEW v \in Services
      PROVE  ix2.svc[v] = {j \in L \cup {i} : v \in g[j].services}
  <2>1. ix2.svc[v] = IF v \in tr.services THEN ix.svc[v] \cup {i} ELSE ix.svc[v]
    BY DEF AddToIndexes
  <2>2. ix.svc[v] = {j \in L : v \in g[j].services}
    BY <1>0 DEF IndexOf
  <2> QED
    BY <2>1, <2>2
<1>3. ASSUME NEW k \in OpKeys
      PROVE  ix2.oper[k] = {j \in L \cup {i} : k \in KeysOf(g[j])}
  <2>1. ix2.oper[k] = IF k \in KeysOf(tr) THEN ix.oper[k] \cup {i} ELSE ix.oper[k]
    BY DEF AddToIndexes
  <2>2. ix.oper[k] = {j \in L : k \in KeysOf(g[j])}
    BY <1>0 DEF IndexOf
  <2> QED
    BY <2>1, <2>2
<1>4. ix2.err = {j \in L \cup {i} : g[j].err}
  <2>1. ix2.err = IF tr.err THEN ix.err \cup {i} ELSE ix.err
    BY DEF AddToIndexes
  <2>2. ix.err = {j \in L : g[j].err}
    BY <1>0 DEF IndexOf
  <2> QED
    BY <2>1, <2>2
<1> HIDE DEF ix2
<1>5. IndexOf(ix2, L \cup {i}, g)
  BY <1>2, <1>3, <1>4 DEF IndexOf
<1> QED
  BY <1>1, <1>5 DEF ix2

-----------------------------------------------------------------------------
(* Dropping the timeline entry of a live id.                               *)
LEMMA DropKeepsTimeline ==
  ASSUME Inv, NEW i \in Live, DropFromTimeline(i)
  PROVE  /\ timeline' \in Seq(Entries)
         /\ TimelineOf(timeline', Live \ {i}, traces)
         /\ SortedByTime(timeline')
<1>1. timeline \in Seq(Entries)
  BY DEF Inv, TypeOK, Entries
<1>2. \E p \in 1..Len(timeline) : timeline[p].id = i
  BY DEF Inv, TimelineOf
<1>3. PICK p \in 1..Len(timeline) : timeline[p].id = i /\ timeline' = RemoveAt(timeline, p)
  BY <1>2 DEF DropFromTimeline
<1>4. /\ timeline' \in Seq(Entries)
      /\ Len(timeline') = Len(timeline) - 1
      /\ \A q \in 1..(Len(timeline) - 1) :
            timeline'[q] = IF q < p THEN timeline[q] ELSE timeline[q + 1]
  BY <1>1, <1>3, RemoveAtProperties
<1>5. TimelineOf(timeline, Live, traces) /\ SortedByTime(timeline)
  BY DEF Inv
<1> QED
  BY <1>1, <1>3, <1>4, <1>5, RemoveKeepsTimeline

(* evict takes the head of the timeline, a live trace that is as old as    *)
(* any, out of everything.                                                 *)
LEMMA EvictKeeps ==
  ASSUME Inv, timeline # <<>>, Evict
  PROVE  \E i \in Live :
           /\ traces' = [traces EXCEPT ![i] = None]
           /\ \A j \in Live : traces[i].at <= traces[j].at
           /\ idx' \in Indexes
           /\ IndexOf(idx', Live \ {i}, traces)
           /\ timeline' \in Seq(Entries)
           /\ TimelineOf(timeline', Live \ {i}, traces)
           /\ SortedByTime(timeline')
<1> DEFINE i == Head(timeline).id
<1>1. timeline \in Seq(Entries) /\ idx \in Indexes
  BY DEF Inv, TypeOK, Entries, Indexes
<1>2. 1 \in 1..Len(timeline) /\ Head(timeline) = timeline[1]
  BY <1>1
<1>3. i \in Live /\ i \in Ids /\ traces[i] # None
  BY <1>2 DEF Inv, TimelineOf, Live, Stored
<1>4. /\ timeline' = Tail(timeline)
      /\ traces' = [traces EXCEPT ![i] = None]
      /\ idx' = RemoveFromIndexes(idx, i, traces[i])
  BY <1>3 DEF Evict
<1>5. /\ Tail(timeline) \in Seq(Entries)
      /\ Len(Tail(timeline)) = Len(timeline) - 1
      /\ \A q \in 1..(Len(timeline) - 1) : Tail(timeline)[q] = timeline[q + 1]
  BY <1>1
<1>6. TimelineOf(timeline, Live, traces) /\ SortedByTime(timeline)
  BY DEF Inv
<1>7. \A q \in 1..(Len(timeline) - 1) :
         timeline'[q] = IF q < 1 THEN timeline[q] ELSE timeline[q + 1]
  BY <1>1, <1>4, <1>5
<1>8. /\ timeline' \in Seq(Entries)
      /\ TimelineOf(timeline', Live \ {i}, traces)
      /\ SortedByTime(timeline')
  BY <1>1, <1>2, <1>4, <1>5, <1>6, <1>7, RemoveKeepsTimeline
<1>9. idx' \in Indexes /\ IndexOf(idx', Live \ {i}, traces)
  BY <1>1, <1>3, <1>4, RemoveKeepsIndexes DEF Inv
<1>10. ASSUME NEW j \in Live PROVE traces[i].at <= traces[j].at
  <2>1. PICK p \in 1..Len(timeline) : timeline[p].id = j
    BY <1>6 DEF TimelineOf
  <2>2. timeline[1].at <= timeline[p].at
    BY <1>2, <1>6 DEF SortedByTime
  <2> QED
    BY <1>2, <1>6, <2>1, <2>2 DEF TimelineOf
<1> QED
  BY <1>3, <1>4, <1>8, <1>9, <1>10

-----------------------------------------------------------------------------
(* The empty store satisfies the inductive invariant.                      *)
LEMMA InitInv == Init => Inv
<1> SUFFICES ASSUME Init PROVE Inv
  OBVIOUS
<1>1. Stored = {} /\ Live = {}
  BY DEF Init, Stored, Live
<1>2. TypeOK
  BY DEF Init, TypeOK
<1>3. IndexOf(idx, Live, traces)
  BY <1>1 DEF Init, IndexOf
<1>4. TimelineOf(timeline, Live, traces) /\ SortedByTime(timeline)
  BY <1>1 DEF Init, TimelineOf, SortedByTime
<1>5. IsFiniteSet(Stored) /\ WithinCapacity
  BY <1>1, FS_EmptySet, MaxSizeAssumption DEF WithinCapacity
<1> QED
  BY <1>2, <1>3, <1>4, <1>5 DEF Inv

(* A step of either eviction loop preserves the inductive invariant.       *)
LEMMA EvictInv ==
  ASSUME Inv, Evict, call' = call
  PROVE  Inv'
<1>1. CASE timeline = <<>>
  <2>1. UNCHANGED vars
    BY <1>1 DEF Evict, vars
  <2> QED
    BY <2>1 DEF vars, Inv, TypeOK, Live, Stored, Detached, IndexOf, TimelineOf,
                SortedByTime, WithinCapacity
<1>2. CASE timeline # <<>>
  <2>1. PICK i \in Live :
           /\ traces' = [traces EXCEPT ![i] = None]
           /\ idx' \in Indexes
           /\ IndexOf(idx', Live \ {i}, traces)
           /\ timeline' \in Seq(Entries)
           /\ TimelineOf(timeline', Live \ {i}, traces)
           /\ SortedByTime(timeline')
    BY <1>2, EvictKeeps
  <2>2. traces \in [Ids -> TraceValues \cup {None}] /\ i \in Ids
    BY DEF Inv, TypeOK, Live, Stored
  <2>3. Stored' = Stored \ {i} /\ Detached' = Detached
    BY <2>1, <2>2 DEF Stored, Detached
  <2>4. Live' = Live \ {i}
    BY <2>3 DEF Live
  <2>5. \A j \in Live' : traces'[j] = traces[j]
    BY <2>1, <2>2, <2>4 DEF Live, Stored
  <2>6. IndexOf(idx', Live', traces') /\ TimelineOf(timeline', Live', traces')
    BY <2>1, <2>4, <2>5, SameContents
  <2>7. IsFiniteSet(Stored') /\ Cardinality(Stored') <= Cardinality(Stored)
    BY <2>3, FS_Subset DEF Inv
  <2>8. WithinCapacity'
    <3>1. Cardinality(Stored) \in Nat /\ Cardinality(Stored') \in Nat
      BY <2>7, FS_CardinalityType DEF Inv
    <3> QED
      BY <2>7, <3>1, MaxSizeAssumption DEF Inv, WithinCapacity
  <2>9. TypeOK'
    BY <2>1, <2>2 DEF Inv, TypeOK, Indexes, Entries
  <2> QED
    BY <2>1, <2>6, <2>7, <2>8, <2>9 DEF Inv
<1> QED
  BY <1>1, <1>2

(* A step that touches neither the traces, the indexes nor the timeline.   *)
LEMMA ReadInv ==
  ASSUME Inv, UNCHANGED <<traces, idx, timeline>>, Detached' = Detached, TypeOK'
  PROVE  Inv'
<1>1. Stored' = Stored
  BY DEF Stored
<1>2. Live' = Live
  BY <1>1 DEF Live
<1> QED
  BY <1>1, <1>2 DEF Inv, IndexOf, TimelineOf, SortedByTime, WithinCapacity

(* Every step of the store preserves the inductive invariant.              *)
LEMMA NextInv == Inv /\ [Next]_vars => Inv'
<1> SUFFICES ASSUME Inv, [Next]_vars PROVE Inv'
  OBVIOUS
<1>a. /\ TypeOK /\ traces \in [Ids -> TraceValues \cup {None}]
      /\ idx \in Indexes /\ timeline \in Seq(Entries)
  BY DEF Inv, TypeOK, Indexes, Entries
<1>b. ASSUME call = None PROVE Detached = {} /\ Live = Stored
  BY <1>b DEF Detached, Live
<1>1. ASSUME NEW i \in Ids, NEW tr \in TraceValues, UpsertBegin(i, tr) PROVE Inv'
  <2>1. /\ call = None
        /\ call' = [op |-> "upsert", id |-> i, trace |-> tr]
        /\ UNCHANGED <<traces>>
    BY <1>1 DEF UpsertBegin
  <2>2. call' \in UpsertCalls /\ call' # None
    BY <2>1, NoneAssumption DEF UpsertCalls
  <2>3. Detached' = {i} /\ Stored' = Stored
    BY <2>1, <2>2 DEF Detached, Stored
  <2>4. Live' = Live \ {i}
    BY <1>b, <2>1, <2>3 DEF Live
  <2>5. CASE traces[i] = None
    <3>1. UNCHANGED <<idx, timeline>>
      BY <1>1, <2>5 DEF UpsertBegin
    <3>2. Live' = Live
      BY <2>4, <2>5 DEF Live, Stored
    <3>3. TypeOK'
      BY <1>a, <2>1, <2>2, <3>1 DEF TypeOK
    <3> QED
      BY <2>1, <2>3, <3>1, <3>2, <3>3
         DEF Inv, IndexOf, TimelineOf, SortedByTime, WithinCapacity
  <2>6. CASE traces[i] # None
    <3>1. idx' = RemoveFromIndexes(idx, i, traces[i]) /\ DropFromTimeline(i)
      BY <1>1, <2>6 DEF UpsertBegin
    <3>2. i \in Live
      BY <1>b, <2>1, <2>6 DEF Stored
    <3>3. /\ timeline' \in Seq(Entries)
          /\ TimelineOf(timeline', Live', traces')
          /\ SortedByTime(timeline')
      BY <2>1, <2>4, <3>1, <3>2, DropKeepsTimeline
    <3>4. idx' \in Indexes /\ IndexOf(idx', Live', traces')
      BY <1>a, <2>1, <2>4, <3>1, <3>2, RemoveKeepsIndexes DEF Inv
    <3>5. TypeOK'
      BY <1>a, <2>1, <2>2, <3>3, <3>4 DEF TypeOK, Entries, Indexes
    <3> QED
      BY <2>3, <3>3, <3>4, <3>5 DEF Inv, WithinCapacity
  <2> QED
    BY <2>5, <2>6
<1>2. CASE UpsertEvict
  BY <1>2, EvictInv DEF UpsertEvict
<1>3. CASE UpsertStore
  <2> DEFINE i == call.id
             tr == call.trace
  <2>1. /\ call # None /\ call.op = "upsert" /\ ~AtCapacity
        /\ traces' = [traces EXCEPT ![i] = tr]
        /\ idx' = AddToIndexes(idx, i, tr)
        /\ InsertIntoTimeline(i, tr.at)
        /\ call' = None
    BY <1>3 DEF UpsertStore
  <2>2. i \in Ids /\ tr \in TraceValues /\ tr # None /\ tr.at \in Times
    <3>1. call \in UpsertCalls
      BY <1>a, <2>1 DEF TypeOK, RetainCalls
    <3> QED
      BY <3>1, NoneAssumption, TraceValuesAssumption DEF UpsertCalls
  <2> HIDE DEF i, tr
  <2>3. Detached = {i} /\ Detached' = {}
    BY <2>1 DEF Detached, i
  <2>4. Stored' = Stored \cup {i}
    BY <1>a, <2>1, <2>2 DEF Stored
  <2>5. Live' = Live \cup {i} /\ i \notin Live
    BY <2>3, <2>4 DEF Live
  <2>6. traces'[i] = tr /\ \A j \in Live : traces'[j] = traces[j]
    BY <1>a, <2>1, <2>2, <2>5 DEF Live, Stored
  <2>7. idx' \in Indexes /\ IndexOf(idx', Live', traces')
    <3>1. IndexOf(idx, Live, traces) /\ idx \in Indexes
      BY <1>a DEF Inv
    <3>2. /\ AddToIndexes(idx, i, tr) \in Indexes
          /\ IndexOf(AddToIndexes(idx, i, tr), Live \cup {i}, traces')
      BY <2>2, <2>5, <2>6, <3>1, AddKeepsIndexes
    <3> QED
      BY <2>1, <2>5, <3>2
  <2>8. timeline' \in Seq(Entries) /\ TimelineOf(timeline', Live', traces') /\ SortedByTime(timeline')
    <3>1. PICK p \in 1..(Len(timeline) + 1) :
             /\ \A q \in 1..(p - 1) : timeline[q].at <= tr.at
             /\ \A q \in p..Len(timeline) : timeline[q].at > tr.at
             /\ timeline' = InsertAt(timeline, p, [id |-> i, at |-> tr.at])
      BY <2>1 DEF InsertIntoTimeline
    <3> DEFINE e == [id |-> i, at |-> tr.at]
    <3>2. e \in Entries /\ e.id = i /\ e.at = tr.at
      BY <2>2 DEF Entries
    <3>3. timeline' = InsertAt(timeline, p, e)
      BY <3>1
    <3> HIDE DEF e
    <3>4. TimelineOf(timeline, Live, traces) /\ SortedByTime(timeline) /\ timeline \in Seq(Entries)
      BY <1>a DEF Inv
    <3>5. timeline' \in Seq(Entries)
      BY <3>2, <3>3, <3>4, InsertAtProperties
    <3>6. /\ \A q \in 1..(p - 1) : timeline[q].at <= e.at
          /\ \A q \in p..Len(timeline) : timeline[q].at > e.at
      BY <3>1, <3>2
    <3>7. traces'[e.id].at = e.at /\ e.id \notin Live
      BY <2>5, <2>6, <3>2
    <3>8. /\ TimelineOf(InsertAt(timeline, p, e), Live \cup {e.id}, traces')
          /\ SortedByTime(InsertAt(timeline, p, e))
      BY <2>6, <3>2, <3>4, <3>6, <3>7, InsertKeepsTimeline, SMTT(30)
    <3> QED
      BY <2>5, <3>2, <3>3, <3>5, <3>8
  <2>9. IsFiniteSet(Stored') /\ WithinCapacity'
    <3>1. Cardinality(Stored) \in Nat /\ IsFiniteSet(Stored)
      BY FS_CardinalityType DEF Inv
    <3>2. Cardinality(Stored) < MaxSize
      BY <2>1, <3>1, MaxSizeAssumption DEF AtCapacity
    <3>3. IsFiniteSet(Stored') /\ Cardinality(Stored') <= Cardinality(Stored) + 1
      BY <2>4, <3>1, FS_AddElement
    <3>4. Cardinality(Stored') \in Nat
      BY <3>3, FS_CardinalityType
    <3> QED
      BY <3>1, <3>2, <3>3, <3>4, MaxSizeAssumption DEF WithinCapacity
  <2>10. TypeOK'
    BY <1>a, <2>1, <2>2, <2>7, <2>8 DEF TypeOK, Entries, Indexes
  <2> QED
    BY <2>7, <2>8, <2>9, <2>10 DEF Inv
<1>4. ASSUME NEW i \in Ids, Delete(i) PROVE Inv'
  <2>1. /\ call = None /\ traces[i] # None
        /\ traces' = [traces EXCEPT ![i] = None]
        /\ idx' = RemoveFromIndexes(idx, i, traces[i])
        /\ DropFromTimeline(i)
        /\ UNCHANGED <<call>>
    BY <1>4 DEF Delete
  <2>2. i \in Live /\ Live = Stored /\ Detached' = {}
    BY <1>b, <2>1 DEF Stored, Detached
  <2>3. Stored' = Stored \ {i} /\ Live' = Live \ {i}
    BY <1>a, <2>1, <2>2 DEF Stored, Live
  <2>4. \A j \in Live' : traces'[j] = traces[j]
    BY <1>a, <2>1, <2>3 DEF Live, Stored
  <2>5. idx' \in Indexes /\ IndexOf(idx', Live \ {i}, traces)
    BY <1>a, <2>1, <2>2, RemoveKeepsIndexes DEF Inv
  <2>6. /\ timeline' \in Seq(Entries)
        /\ TimelineOf(timeline', Live \ {i}, traces)
        /\ SortedByTime(timeline')
    BY <2>1, <2>2, DropKeepsTimeline
  <2>7. IndexOf(idx', Live', traces') /\ TimelineOf(timeline', Live', traces')
    BY <2>3, <2>4, <2>5, <2>6, SameContents
  <2>8. IsFiniteSet(Stored') /\ WithinCapacity'
    <3>1. IsFiniteSet(Stored') /\ Cardinality(Stored') <= Cardinality(Stored)
      BY <2>3, FS_Subset DEF Inv
    <3>2. Cardinality(Stored) \in Nat /\ Cardinality(Stored') \in Nat
      BY <3>1, FS_CardinalityType DEF Inv
    <3> QED
      BY <3>1, <3>2, MaxSizeAssumption DEF Inv, WithinCapacity
  <2>9. TypeOK'
    BY <1>a, <2>1, <2>5, <2>6 DEF TypeOK, Entries, Indexes
  <2> QED
    BY <2>6, <2>7, <2>8, <2>9 DEF Inv
<1>5. ASSUME NEW cutoff \in Times, RetainBegin(cutoff) PROVE Inv'
  <2>1. /\ call = None /\ call' = [op |-> "retain", cutoff |-> cutoff]
        /\ UNCHANGED <<traces, idx, timeline>>
    BY <1>5 DEF RetainBegin
  <2>2. Detached' = Detached
    BY <2>1 DEF Detached
  <2>3. TypeOK'
    BY <1>a, <2>1 DEF TypeOK, RetainCalls
  <2> QED
    BY <2>1, <2>2, <2>3, ReadInv
<1>6. CASE RetainEvict
  BY <1>6, EvictInv DEF RetainEvict
<1>7. CASE RetainReturns
  <2>1. /\ call # None /\ call.op = "retain" /\ call' = None
        /\ UNCHANGED <<traces, idx, timeline>>
    BY <1>7 DEF RetainReturns
  <2>2. Detached' = Detached
    BY <2>1 DEF Detached
  <2>3. TypeOK'
    BY <1>a, <2>1 DEF TypeOK
  <2> QED
    BY <2>1, <2>2, <2>3, ReadInv
<1>8. CASE UNCHANGED vars
  <2>1. TypeOK'
    BY <1>a, <1>8 DEF TypeOK, vars
  <2> QED
    BY <1>8, <2>1, ReadInv DEF vars, Detached
<1> QED
  BY <1>1, <1>2, <1>3, <1>4, <1>5, <1>6, <1>7, <1>8 DEF Next

(* The inductive invariant holds in every reachable state.                 *)
LEMMA SpecInv == Spec => []Inv
  BY InitInv, NextInv, PTL DEF Spec

-----------------------------------------------------------------------------
(* The state of the store always has its type.                             *)
THEOREM TypeCorrect == Spec => []TypeOK
<1>1. Inv => TypeOK
  BY DEF Inv
<1> QED
  BY <1>1, SpecInv, PTL

(* The three secondary indexes always agree with the stored traces.        *)
THEOREM IndexesCorrect == Spec => []IndexesAgree
<1>1. Inv => IndexesAgree
  BY DEF Inv, IndexOf, Live, IndexesAgree
<1> QED
  BY <1>1, SpecInv, PTL

(* The timeline always has one entry per stored trace and is sorted.       *)
THEOREM TimelineCorrect == Spec => []TimelineIsIndex
<1>1. Inv => TimelineIsIndex
  BY DEF Inv, TimelineOf, SortedByTime, Live, TimelineIsIndex, TimelineAgrees, TimelineSorted
<1> QED
  BY <1>1, SpecInv, PTL

(* The store never exceeds its capacity.                                   *)
THEOREM CapacityRespected == Spec => []WithinCapacity
<1>1. Inv => WithinCapacity
  BY DEF Inv
<1> QED
  BY <1>1, SpecInv, PTL

(* Upsert cannot spin in its eviction loop when maxSize is at least two.   *)
THEOREM EvictionTerminates ==
  ASSUME MaxSize > 1
  PROVE  Spec => []EvictionProgresses
<1>1. ASSUME Inv PROVE EvictionProgresses
  <2> SUFFICES ASSUME call # None, call.op = "upsert", AtCapacity PROVE timeline # <<>>
    BY DEF EvictionProgresses
  <2>1. IsFiniteSet(Stored) /\ Cardinality(Stored) \in Nat
    BY <1>1, FS_CardinalityType DEF Inv
  <2>2. Cardinality(Stored) > 1
    BY <2>1, MaxSizeAssumption DEF AtCapacity
  <2>3. Cardinality(Stored \ {call.id}) > 0
    BY <2>1, <2>2, FS_RemoveElement
  <2>4. Stored \ {call.id} # {}
    BY <2>3, FS_EmptySet
  <2>5. Live # {}
    BY <2>4 DEF Live, Detached
  <2>6. 1..Len(timeline) # {}
    BY <1>1, <2>5 DEF Inv, TimelineOf
  <2> QED
    BY <1>1, <2>6 DEF Inv, TypeOK
<1> QED
  BY <1>1, SpecInv, PTL

(* Both eviction loops take the oldest trace there is to take.             *)
THEOREM EvictionTakesOldest == Spec => EvictsOldest
<1>1. ASSUME Inv, Next, NEW i \in Ids, EvictStep, traces[i] # None, traces'[i] = None
      PROVE  \A j \in Stored' \ Detached : traces[i].at <= traces[j].at
  <2>1. Evict
    BY <1>1 DEF EvictStep, UpsertEvict, RetainEvict
  <2>2. timeline # <<>>
    BY <1>1, <2>1 DEF Evict
  <2>3. PICK k \in Live :
           /\ traces' = [traces EXCEPT ![k] = None]
           /\ \A j \in Live : traces[k].at <= traces[j].at
    BY <1>1, <2>1, <2>2, EvictKeeps
  <2>4. traces \in [Ids -> TraceValues \cup {None}]
    BY <1>1 DEF Inv, TypeOK
  <2>5. i = k /\ Stored' \subseteq Stored
    BY <1>1, <2>3, <2>4 DEF Stored, Live
  <2> QED
    BY <2>3, <2>5 DEF Live
<1>2. Inv /\ [Next]_vars =>
        [\A i \in Ids : EvictStep /\ traces[i] # None /\ traces'[i] = None =>
            \A j \in Stored' \ Detached : traces[i].at <= traces[j].at]_vars
  BY <1>1
<1> QED
  BY <1>2, SpecInv, PTL DEF Spec, EvictsOldest

(* A retention pass leaves nothing behind that is older than its cutoff.   *)
THEOREM RetentionIsComplete == Spec => RetentionComplete
<1>1. ASSUME Inv, RetainReturns, NEW i \in Stored PROVE traces[i].at >= call.cutoff
  <2>1. call # None /\ call.op = "retain" /\ ~Expired
    BY <1>1 DEF RetainReturns
  <2>2. i \in Live
    BY <2>1 DEF Live, Detached
  <2>3. PICK p \in 1..Len(timeline) : timeline[p].id = i
    BY <1>1, <2>2 DEF Inv, TimelineOf
  <2>4. traces[i].at = timeline[p].at
    BY <1>1, <2>3 DEF Inv, TimelineOf
  <2>5. timeline \in Seq(Entries) /\ call \in RetainCalls
    BY <1>1, <2>1 DEF Inv, TypeOK, Entries, UpsertCalls
  <2>6. timeline # <<>> /\ 1 \in 1..Len(timeline) /\ Head(timeline) = timeline[1]
    BY <2>3, <2>5
  <2>7. timeline[1].at <= timeline[p].at
    BY <1>1, <2>6 DEF Inv, SortedByTime
  <2>8. timeline[1] \in Entries /\ timeline[p] \in Entries
    BY <2>5, <2>6
  <2>9. timeline[1].at \in Nat /\ timeline[p].at \in Nat /\ call.cutoff \in Nat
    BY <2>5, <2>8, TimesAssumption DEF Entries, RetainCalls
  <2> QED
    BY <2>1, <2>4, <2>6, <2>7, <2>9 DEF Expired
<1>2. Inv /\ [Next]_vars =>
        [RetainReturns => \A i \in Stored : traces[i].at >= call.cutoff]_vars
  BY <1>1
<1> QED
  BY <1>2, SpecInv, PTL DEF Spec, RetentionComplete

-----------------------------------------------------------------------------
(* operationFromKey inverts the key, position by position, if the service  *)
(* has no colon: the first colon is the one the key was made with.         *)
LEMMA KeyParts ==
  ASSUME NEW Tokens, NEW v \in Seq(Tokens), NEW o \in Seq(Tokens), Plain(v)
  PROVE  /\ OperationFromKey(OpKey(v, o)) = o
         /\ \A w \in Seq(Tokens), u \in Seq(Tokens) :
               Plain(w) /\ OpKey(w, u) = OpKey(v, o) => w = v
<1> USE DEF Plain
<1> DEFINE All == Tokens \cup {":"}
<1>1. ASSUME NEW w \in Seq(Tokens), NEW u \in Seq(Tokens)
      PROVE  /\ OpKey(w, u) \in Seq(All) /\ Len(OpKey(w, u)) = Len(w) + 1 + Len(u)
             /\ \A p \in 1..Len(w) : OpKey(w, u)[p] = w[p]
             /\ OpKey(w, u)[Len(w) + 1] = ":"
             /\ \A p \in 1..Len(u) : OpKey(w, u)[Len(w) + 1 + p] = u[p]
  <2>1. w \in Seq(All) /\ u \in Seq(All) /\ <<":">> \in Seq(All) /\ Len(<<":">>) = 1
    OBVIOUS
  <2> DEFINE front == w \o <<":">>
  <2>2. /\ front \in Seq(All) /\ Len(front) = Len(w) + 1
        /\ \A p \in 1..Len(w) : front[p] = w[p]
        /\ front[Len(w) + 1] = ":"
    BY <2>1
  <2>3. OpKey(w, u) = front \o u
    BY DEF OpKey
  <2> HIDE DEF front, All
  <2>4. /\ OpKey(w, u) \in Seq(All) /\ Len(OpKey(w, u)) = Len(front) + Len(u)
        /\ \A p \in 1..Len(front) + Len(u) :
              OpKey(w, u)[p] = IF p <= Len(front) THEN front[p] ELSE u[p - Len(front)]
    <3>1. front \in Seq(All) /\ u \in Seq(All)
      BY <2>1, <2>2
    <3>2. /\ front \o u \in Seq(All) /\ Len(front \o u) = Len(front) + Len(u)
          /\ \A p \in 1..Len(front) + Len(u) :
                (front \o u)[p] = IF p <= Len(front) THEN front[p] ELSE u[p - Len(front)]
      BY <3>1, ConcatProperties
    <3> QED
      BY <2>3, <3>2, Zenon
  <2>5. Len(w) \in Nat /\ Len(u) \in Nat
    OBVIOUS
  <2>6. ASSUME NEW p \in 1..Len(u) PROVE OpKey(w, u)[Len(w) + 1 + p] = u[p]
    <3>1. /\ Len(w) + 1 + p \in 1..Len(front) + Len(u) /\ ~(Len(w) + 1 + p <= Len(front))
          /\ (Len(w) + 1 + p) - Len(front) = p
      BY <2>2, <2>5
    <3>2. OpKey(w, u)[Len(w) + 1 + p] = u[(Len(w) + 1 + p) - Len(front)]
      BY <2>4, <3>1
    <3> QED
      BY <3>1, <3>2
  <2>7. ASSUME NEW p \in 1..Len(w) PROVE OpKey(w, u)[p] = w[p]
    <3>1. p \in 1..Len(front) + Len(u) /\ p <= Len(front)
      BY <2>2, <2>5
    <3> QED
      BY <2>2, <2>4, <3>1
  <2>8. OpKey(w, u)[Len(w) + 1] = ":"
    <3>1. Len(w) + 1 \in 1..Len(front) + Len(u) /\ Len(w) + 1 <= Len(front)
      BY <2>2, <2>5
    <3> QED
      BY <2>2, <2>4, <3>1
  <2> QED
    BY <2>2, <2>4, <2>6, <2>7, <2>8
<1> HIDE DEF All
<1> DEFINE First(k, p) == k[p] = ":" /\ \A q \in 1..(p - 1) : k[q] # ":"
<1>2. ASSUME NEW w \in Seq(Tokens), NEW u \in Seq(Tokens), \A p \in 1..Len(w) : w[p] # ":",
             NEW p \in 1..Len(OpKey(w, u))
      PROVE  First(OpKey(w, u), p) <=> p = Len(w) + 1
  <2> DEFINE k == OpKey(w, u)
  <2>0. (\A q \in 1..Len(w) : k[q] = w[q]) /\ k[Len(w) + 1] = ":"
    BY <1>1
  <2>1. Len(w) \in Nat /\ (\A q \in 1..Len(w) : k[q] # ":") /\ k[Len(w) + 1] = ":"
    <3> HIDE DEF k
    <3> QED
      BY <1>2, <2>0
  <2>2. p \in Nat /\ p >= 1
    BY <1>1
  <2> HIDE DEF k
  <2>3. First(k, p) <=> p = Len(w) + 1
    <3>1. CASE p < Len(w) + 1
      BY <2>1, <2>2, <3>1
    <3>2. CASE p = Len(w) + 1
      BY <2>1, <2>2, <3>2
    <3>3. CASE p > Len(w) + 1
      <4>1. Len(w) + 1 \in 1..(p - 1)
        BY <2>1, <2>2, <3>3
      <4> QED
        BY <2>1, <3>3, <4>1
    <3> QED
      BY <2>1, <2>2, <3>1, <3>2, <3>3
  <2> QED
    BY <2>3 DEF k
<1>3. OperationFromKey(OpKey(v, o)) = o
  <2> DEFINE k == OpKey(v, o)
             colon == CHOOSE p \in 1..Len(k) : First(k, p)
  <2>1. Len(v) \in Nat /\ Len(o) \in Nat /\ Len(k) = Len(v) + 1 + Len(o) /\ k \in Seq(All)
    BY <1>1
  <2>2. Len(v) + 1 \in 1..Len(k)
    BY <2>1
  <2>3. \A p \in 1..Len(k) : First(k, p) <=> p = Len(v) + 1
    BY <1>2
  <2>4. OperationFromKey(k) = SubSeq(k, colon + 1, Len(k))
    BY DEF OperationFromKey
  <2>5. \A p \in 1..Len(o) : k[Len(v) + 1 + p] = o[p]
    BY <1>1
  <2>6. colon = Len(v) + 1
    <3> HIDE DEF k, First
    <3> QED
      BY <2>2, <2>3
  <2> HIDE DEF k, colon
  <2> DEFINE s == SubSeq(k, Len(v) + 2, Len(k))
  <2>7. OperationFromKey(k) = s
    BY <2>1, <2>4, <2>6
  <2>8. s \in Seq(All) /\ Len(s) = Len(o) /\ \A p \in 1..Len(o) : s[p] = k[Len(v) + 1 + p]
    BY <2>1
  <2>9. o \in Seq(All) /\ \A p \in 1..Len(o) : s[p] = o[p]
    BY <2>5, <2>8 DEF All
  <2> HIDE DEF s
  <2>10. s = o
    BY <2>8, <2>9, SeqEqual
  <2> QED
    BY <2>7, <2>10 DEF k
<1>4. ASSUME NEW w \in Seq(Tokens), NEW u \in Seq(Tokens),
             \A p \in 1..Len(w) : w[p] # ":", OpKey(w, u) = OpKey(v, o)
      PROVE  w = v
  <2> HIDE DEF First
  <2>1. Len(w) \in Nat /\ Len(u) \in Nat
    OBVIOUS
  <2>2. Len(OpKey(w, u)) = Len(w) + 1 + Len(u) /\ \A p \in 1..Len(w) : OpKey(w, u)[p] = w[p]
    BY <1>1
  <2>3. \A p \in 1..Len(v) : OpKey(v, o)[p] = v[p]
    BY <1>1
  <2>4. Len(w) + 1 \in 1..Len(OpKey(w, u))
    BY <2>1, <2>2
  <2>5. First(OpKey(w, u), Len(w) + 1)
    BY <1>2, <1>4, <2>4
  <2>6. Len(w) + 1 = Len(v) + 1
    BY <1>2, <1>4, <2>4, <2>5
  <2>7. Len(v) = Len(w) /\ \A p \in 1..Len(w) : w[p] = v[p]
    BY <1>4, <2>1, <2>6, <2>2, <2>3
  <2> QED
    BY <2>7, SeqEqual
<1> QED
  BY <1>3, <1>4

(* The three index filters select what a look at the trace selects.        *)
LEMMA FiltersAgree ==
  ASSUME Inv, call = None, NEW q \in Queries, NEW i \in Stored,
         q.service # None => Plain(q.service), \A sp \in traces[i].spans : Plain(sp[1])
  PROVE  (/\ i \in ByServiceFilter(q)
          /\ i \in ByOperationFilter(q)
          /\ i \in ByErrorFilter(q)
          /\ RemainingFilters(traces[i], q)) <=> Satisfies(traces[i], q)
<1> DEFINE tr == traces[i]
<1>1. /\ tr \in TraceValues /\ i \in Ids
      /\ \A sp \in tr.spans : sp[1] \in Services /\ sp[2] \in Operations /\ Plain(sp[1])
      /\ tr.err \in BOOLEAN
  BY TraceValuesAssumption DEF Inv, TypeOK, Stored
<1>2. /\ \A v \in Services : i \in idx.svc[v] <=> v \in tr.services
      /\ \A k \in OpKeys : i \in idx.oper[k] <=> k \in KeysOf(tr)
      /\ i \in idx.err <=> tr.err
  BY DEF Inv, IndexOf, Live, Detached
<1> HIDE DEF tr
<1>3. \A sp \in tr.spans : OpKey(sp[1], sp[2]) \in OpKeys /\ OpKey(sp[1], sp[2]) \in KeysOf(tr)
  BY <1>1 DEF OpKeys, KeysOf
<1>4. ASSUME NEW v \in Services, NEW o \in Operations, Plain(v)
      PROVE  /\ OperationFromKey(OpKey(v, o)) = o
             /\ \A w \in Services, u \in Operations :
                   Plain(w) /\ OpKey(w, u) = OpKey(v, o) => w = v
  BY <1>4, KeyParts, NamesAssumption
<1>5. \A v, w \in Services, o, u \in Operations :
         Plain(v) /\ Plain(w) /\ OpKey(w, u) = OpKey(v, o) => w = v /\ u = o
  BY <1>4
<1>6. q.err = None \/ tr.err = q.err <=> i \in ByErrorFilter(q)
  <2>1. q.err \in BOOLEAN \cup {None} /\ None \notin BOOLEAN
    BY QueriesAssumption, NamesAssumption
  <2>2. CASE q.err = None
    BY <1>1, <2>1, <2>2 DEF ByErrorFilter
  <2>3. CASE q.err = TRUE
    BY <1>1, <1>2, <2>1, <2>3 DEF ByErrorFilter
  <2>4. CASE q.err = FALSE
    BY <1>1, <1>2, <2>1, <2>4 DEF ByErrorFilter
  <2> QED
    BY <2>1, <2>2, <2>3, <2>4
<1>7. q.service # None => q.service \in Services /\ Plain(q.service)
  BY QueriesAssumption
<1>8. q.operation # None => q.operation \in Operations
  BY QueriesAssumption
<1>9. i \in ByServiceFilter(q) <=> q.service = None \/ q.service \in tr.services
  BY <1>2, <1>7 DEF ByServiceFilter
<1> DEFINE HasOperation == \E sp \in tr.spans :
              sp[2] = q.operation /\ (q.service = None \/ sp[1] = q.service)
<1>10. i \in ByOperationFilter(q) <=> q.operation = None \/ HasOperation
  <2>1. CASE q.operation = None
    BY <1>1, <2>1 DEF ByOperationFilter
  <2>2. CASE q.operation # None /\ q.service # None
    <3>1. ByOperationFilter(q) = idx.oper[OpKey(q.service, q.operation)]
      BY <2>2 DEF ByOperationFilter
    <3>2. OpKey(q.service, q.operation) \in OpKeys
      BY <1>7, <1>8, <2>2 DEF OpKeys
    <3>3. i \in ByOperationFilter(q) <=>
             \E sp \in tr.spans : OpKey(sp[1], sp[2]) = OpKey(q.service, q.operation)
      BY <1>2, <3>1, <3>2 DEF KeysOf
    <3>4. i \in ByOperationFilter(q) <=>
             \E sp \in tr.spans : sp[1] = q.service /\ sp[2] = q.operation
      BY <1>1, <1>5, <1>7, <1>8, <2>2, <3>3
    <3> QED
      BY <2>2, <3>4
  <2>3. CASE q.operation # None /\ q.service = None
    <3>1. ByOperationFilter(q) =
             UNION {idx.oper[k] : k \in {k \in OpKeys : OperationFromKey(k) = q.operation}}
      BY <2>3 DEF ByOperationFilter
    <3>2. i \in ByOperationFilter(q) <=>
             \E k \in OpKeys : OperationFromKey(k) = q.operation /\ k \in KeysOf(tr)
      BY <1>2, <3>1
    <3>3. i \in ByOperationFilter(q) <=> \E sp \in tr.spans : sp[2] = q.operation
      BY <1>1, <1>3, <1>4, <3>2 DEF KeysOf
    <3> QED
      BY <2>3, <3>3
  <2> QED
    BY <2>1, <2>2, <2>3
<1> HIDE DEF HasOperation
<1>11. Satisfies(tr, q) <=> /\ q.service = None \/ q.service \in tr.services
                            /\ q.operation = None \/ HasOperation
                            /\ q.err = None \/ tr.err = q.err
                            /\ RemainingFilters(tr, q)
  BY DEF Satisfies, HasOperation
<1> QED
  BY <1>6, <1>9, <1>10, <1>11 DEF tr

(* Whatever inserts, updates, deletes and evictions came before, Query     *)
(* finds a trace through the indexes exactly if a look at its own fields   *)
(* would find it, whoever made the trace, unless a name has a colon.       *)
THEOREM QueryIsScan == Spec => []QueryAgreesWithScan
<1>1. ASSUME Inv PROVE QueryAgreesWithScan
  <2> SUFFICES ASSUME call = None, NEW q \in Queries, NEW i \in Stored, q.id = None,
                      q.service # None => Plain(q.service),
                      \A sp \in traces[i].spans : Plain(sp[1])
               PROVE  i \in Query(q) <=> Satisfies(traces[i], q)
    BY DEF QueryAgreesWithScan
  <2> QED
    BY <1>1, FiltersAgree DEF Query
<1> QED
  BY <1>1, SpecInv, PTL

=============================================================================
