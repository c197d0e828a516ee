--------------------------- MODULE SamplingProofs ----------------------------
(***************************************************************************)
(* Proofs about Sampling.tla for every set of calls, samplers and swaps.   *)
(*                                                                         *)
(* That a span fares as the cached decision says (OneDecisionPerEntry) can *)
(* only be told from `dropped' if the span was not in it before.  So the   *)
(* inductive invariant says where the spans are: Conserved, each in one    *)
(* place, from the call that brings it to its end.  It needs that spans    *)
(* brought are distinct (SpansDistinct), that no two tail samplers buffer  *)
(* one span, and that a flush is of a tail sampler.                        *)
(***************************************************************************)
EXTENDS Sampling, WellFoundedInduction, TLAPS

(* The spans that calls bring, and those that wait for a verdict or for    *)
(* their trace to complete.                                                *)
Offered    == UNION {{spansOf[r][i] : i \in 1 .. Len(spansOf[r])} : r \in Requests}
Assembling == UNION {assembling[t] : t \in Traces}
Buffered   == UNION {buffered[x] : x \in TailSamplers}

(* Whatever swaps, expiries and stops come in between, every span offered  *)
(* is in exactly one place: still to be taken by its call, in the buffer   *)
(* of a tail sampler, dropped, in the assembler, or in a completed trace.  *)
Conserved ==
    /\ Offered = Waiting \cup Buffered \cup dropped \cup Assembling \cup assembled
    /\ Waiting \cap (Buffered \cup dropped \cup Assembling \cup assembled) = {}
    /\ Buffered \cap (dropped \cup Assembling \cup assembled) = {}
    /\ dropped \cap (Assembling \cup assembled) = {}
    /\ Assembling \cap assembled = {}

(* No two tail samplers hold a span, and no two entries of the assembler,  *)
(* as an entry holds spans of its own trace.                               *)
Apart ==
    /\ \A x, y \in TailSamplers : x # y => buffered[x] \cap buffered[y] = {}
    /\ \A t \in Traces : \A s \in assembling[t] : traceOf[s] = t

SpansInv ==
    /\ dropped \in SUBSET Spans
    /\ assembling \in [Traces -> SUBSET Spans]
    /\ assembled \in SUBSET Spans
    /\ buffered \in [TailSamplers -> SUBSET Spans]
    /\ Conserved
    /\ Apart

(* A call is in its loop, and decides with a sampler it has read.          *)
CallsInv ==
    /\ pc \in [Requests -> {"loop", "decide"}]
    /\ idx \in [Requests -> Nat]
    /\ \A r \in Requests : idx[r] \in 1 .. Len(spansOf[r]) + (IF pc[r] = "loop" THEN 1 ELSE 0)
    /\ read \in [Requests -> Samplers \cup {None}]
    /\ \A r \in Requests : pc[r] = "decide" => read[r] \in Samplers

(* What Stop flushes is the buffer of a tail sampler.                      *)
StopsInv ==
    /\ stage \in [Stoppers -> {"idle", "clear", "stop", "flush", "done", "panicked"}]
    /\ target \in [Stoppers -> Samplers \cup {None}]
    /\ flushIds \in [Stoppers -> SUBSET Traces]
    /\ stopped \in SUBSET AdaptiveSamplers
    /\ \A a \in Stoppers : stage[a] = "flush" => target[a] \in TailSamplers

Inv ==
    /\ SpansInv
    /\ CallsInv
    /\ StopsInv
    /\ sampler \in Samplers
    /\ decisions \in [Traces -> [result : Decisions, by : Samplers \ TailSamplers] \cup {None}]

-----------------------------------------------------------------------------
(* Who is in the unions.                                                   *)
LEMMA Places ==
  /\ \A s : s \in Waiting <=> \E r \in Requests : \E i \in idx[r] .. Len(spansOf[r]) : s = spansOf[r][i]
  /\ \A s : s \in Assembling <=> \E t \in Traces : s \in assembling[t]
  /\ \A s : s \in Buffered <=> \E x \in TailSamplers : s \in buffered[x]
  BY DEF Waiting, Assembling, Buffered

(* The same after a step.                                                  *)
LEMMA PlacesPrimed ==
  /\ \A s : s \in Waiting' <=> \E r \in Requests : \E i \in idx'[r] .. Len(spansOf[r]) : s = spansOf[r][i]
  /\ \A s : s \in Assembling' <=> \E t \in Traces : s \in assembling'[t]
  /\ \A s : s \in Buffered' <=> \E x \in TailSamplers : s \in buffered'[x]
  BY DEF Waiting, Assembling, Buffered

(* The span a call works on is waiting, so it is in no other place.        *)
LEMMA CurrentWaits ==
  ASSUME Inv, NEW r \in Requests, idx[r] <= Len(spansOf[r])
  PROVE  /\ Current(r) \in Spans /\ traceOf[Current(r)] \in Traces
         /\ Current(r) \in Waiting
         /\ Current(r) \notin dropped
<1> USE SamplingConstants
<1>1. Len(spansOf[r]) \in Nat /\ idx[r] \in 1 .. Len(spansOf[r])
  BY DEF Inv, CallsInv
<1>2. Current(r) \in Spans
  BY <1>1 DEF Current
<1>3. Current(r) \in Waiting
  BY <1>1, Places DEF Current
<1> QED
  BY <1>2, <1>3 DEF Inv, SpansInv, Conserved

(* Going on to the next span takes the current one, and no other, out of   *)
(* Waiting.                                                                *)
LEMMA AdvanceTakes ==
  ASSUME Inv, NEW r \in Requests, idx[r] <= Len(spansOf[r]), Advance(r)
  PROVE  Waiting' = Waiting \ {Current(r)} /\ CallsInv'
<1> USE SamplingConstants
<1>0. CallsInv
  BY DEF Inv
<1>1. \A q \in Requests : /\ spansOf[q] \in Seq(Spans) /\ Len(spansOf[q]) \in Nat
                          /\ idx[q] \in Nat /\ idx[q] >= 1
  BY <1>0 DEF CallsInv
<1>2. /\ pc' \in [Requests -> {"loop", "decide"}] /\ pc'[r] = "loop"
      /\ idx' \in [Requests -> Nat] /\ idx'[r] = idx[r] + 1
      /\ read' \in [Requests -> Samplers \cup {None}]
      /\ \A q \in Requests \ {r} : idx'[q] = idx[q] /\ pc'[q] = pc[q] /\ read'[q] = read[q]
  BY <1>0, <1>1 DEF Advance, CallsInv
<1>3. ASSUME NEW s, s \in Waiting' PROVE s \in Waiting /\ s # Current(r)
  <2>1. PICK q \in Requests : \E i \in idx'[q] .. Len(spansOf[q]) : s = spansOf[q][i]
    BY <1>3, PlacesPrimed
  <2>2. PICK i \in idx'[q] .. Len(spansOf[q]) : s = spansOf[q][i]
    BY <2>1
  <2>3. i \in idx[q] .. Len(spansOf[q]) /\ i \in 1 .. Len(spansOf[q]) /\ (q = r => i # idx[r])
    BY <1>1, <1>2, <2>2
  <2>4. s # Current(r)
    BY <1>1, <2>2, <2>3, SpansDistinct DEF Current
  <2> QED
    BY <2>2, <2>3, <2>4, Places
<1>4. ASSUME NEW s, s \in Waiting, s # Current(r) PROVE s \in Waiting'
  <2>1. PICK q \in Requests : \E i \in idx[q] .. Len(spansOf[q]) : s = spansOf[q][i]
    BY <1>4, Places
  <2>2. PICK i \in idx[q] .. Len(spansOf[q]) : s = spansOf[q][i]
    BY <2>1
  <2>3. q = r => i # idx[r]
    BY <1>4, <2>2 DEF Current
  <2>4. i \in idx'[q] .. Len(spansOf[q])
    BY <1>1, <1>2, <2>2, <2>3
  <2> QED
    BY <2>2, <2>4, PlacesPrimed
<1>5. ASSUME NEW q \in Requests
      PROVE  /\ idx'[q] \in 1 .. Len(spansOf[q]) + (IF pc'[q] = "loop" THEN 1 ELSE 0)
             /\ pc'[q] = "decide" => read'[q] \in Samplers
  <2>1. CASE q = r
    BY <1>1, <1>2, <2>1
  <2>2. CASE q # r
    BY <1>0, <1>2, <2>2 DEF CallsInv
  <2> QED
    BY <2>1, <2>2
<1>6. CallsInv'
  BY <1>2, <1>5 DEF CallsInv
<1> QED
  BY <1>3, <1>4, <1>6

(* Settling drops the spans or adds them to the entry of their trace.      *)
LEMMA SettleMoves ==
  ASSUME Inv, NEW t \in Traces, NEW spans \in SUBSET Spans, NEW d, Settle(t, spans, d),
         \A s \in spans : traceOf[s] = t
  PROVE  /\ dropped' \in SUBSET Spans /\ assembling' \in [Traces -> SUBSET Spans]
         /\ assembled' = assembled
         /\ \/ dropped' = dropped \cup spans /\ Assembling' = Assembling
            \/ dropped' = dropped /\ Assembling' = Assembling \cup spans
         /\ \A u \in Traces : \A s \in assembling'[u] : traceOf[s] = u
<1>1. CASE d = "drop"
  BY <1>1 DEF Settle, Inv, SpansInv, Assembling, Apart
<1>2. CASE d # "drop"
  <2>1. /\ assembling' = [assembling EXCEPT ![t] = assembling[t] \cup spans]
        /\ dropped' = dropped /\ assembled' = assembled
    BY <1>2 DEF Settle
  <2>2. \A u \in Traces : assembling'[u] = IF u = t THEN assembling[t] \cup spans ELSE assembling[u]
    BY <2>1 DEF Inv, SpansInv
  <2>3. assembling' \in [Traces -> SUBSET Spans]
    BY <2>1 DEF Inv, SpansInv
  <2>4. \A s : s \in Assembling' <=> s \in Assembling \/ s \in spans
    BY <2>2, Places, PlacesPrimed
  <2>5. Assembling' = Assembling \cup spans
    BY <2>4
  <2> QED
    BY <2>1, <2>2, <2>3, <2>5 DEF Inv, SpansInv, Apart
<1> QED
  BY <1>1, <1>2

(* A call settles its current span.                                        *)
LEMMA CallSettles ==
  ASSUME Inv, NEW r \in Requests, idx[r] <= Len(spansOf[r]), Advance(r), NEW d,
         Settle(traceOf[Current(r)], {Current(r)}, d), buffered' = buffered
  PROVE  SpansInv' /\ CallsInv'
<1> DEFINE s == Current(r)
<1>1. /\ s \in Spans /\ traceOf[s] \in Traces /\ s \in Waiting
      /\ Waiting' = Waiting \ {s} /\ CallsInv'
  BY CurrentWaits, AdvanceTakes
<1>2. /\ Settle(traceOf[s], {s}, d)
      /\ {s} \in SUBSET Spans /\ \A v \in {s} : traceOf[v] = traceOf[s]
  BY <1>1
<1> HIDE DEF s
<1>3. /\ dropped' \in SUBSET Spans /\ assembling' \in [Traces -> SUBSET Spans]
      /\ assembled' = assembled
      /\ \/ dropped' = dropped \cup {s} /\ Assembling' = Assembling
         \/ dropped' = dropped /\ Assembling' = Assembling \cup {s}
      /\ \A u \in Traces : \A v \in assembling'[u] : traceOf[v] = u
  BY <1>1, <1>2, SettleMoves
<1>4. Buffered' = Buffered /\ Offered' = Offered
  BY DEF Buffered, Offered
<1>5. Conserved'
  BY <1>1, <1>3, <1>4 DEF Inv, SpansInv, Conserved
<1> QED
  BY <1>1, <1>3, <1>5 DEF Inv, SpansInv, Apart

(* A verdict of a tail sampler takes spans out of its buffer and settles   *)
(* them.                                                                   *)
LEMMA TailSettles ==
  ASSUME Inv, NEW x \in TailSamplers, NEW t \in Traces, TailDecides(x, t), idx' = idx
  PROVE  SpansInv'
<1> DEFINE taken == {s \in buffered[x] : traceOf[s] = t}
<1>1. PICK d \in Decisions : Settle(t, taken, d)
  BY DEF TailDecides
<1>2. /\ taken \in SUBSET Spans /\ taken \subseteq Buffered /\ taken \subseteq buffered[x]
      /\ \A s \in taken : traceOf[s] = t
  BY Places DEF Inv, SpansInv
<1>3. buffered' = [buffered EXCEPT ![x] = buffered[x] \ taken]
  BY DEF TailDecides
<1> HIDE DEF taken
<1>4. /\ dropped' \in SUBSET Spans /\ assembling' \in [Traces -> SUBSET Spans]
      /\ assembled' = assembled
      /\ \/ dropped' = dropped \cup taken /\ Assembling' = Assembling
         \/ dropped' = dropped /\ Assembling' = Assembling \cup taken
      /\ \A u \in Traces : \A s \in assembling'[u] : traceOf[s] = u
  BY <1>1, <1>2, SettleMoves
<1>5. /\ buffered' \in [TailSamplers -> SUBSET Spans]
      /\ \A y \in TailSamplers : buffered'[y] = IF y = x THEN buffered[x] \ taken ELSE buffered[y]
  BY <1>3 DEF Inv, SpansInv
<1>6. \A s : s \in Buffered' <=> s \in Buffered /\ s \notin taken
  BY <1>2, <1>5, Places, PlacesPrimed DEF Inv, SpansInv, Apart
<1>7. Buffered' = Buffered \ taken /\ Waiting' = Waiting /\ Offered' = Offered
  BY <1>6 DEF Waiting, Offered
<1>8. Conserved'
  BY <1>2, <1>4, <1>7 DEF Inv, SpansInv, Conserved
<1>9. Apart'
  BY <1>4, <1>5 DEF Inv, SpansInv, Apart
<1> QED
  BY <1>4, <1>5, <1>8, <1>9 DEF Inv, SpansInv

(* Steps that touch neither calls nor spans.                               *)
LEMMA SpansFrame ==
  ASSUME Inv, idx' = idx, buffered' = buffered, UNCHANGED outVars
  PROVE  SpansInv'
<1>1. /\ Waiting' = Waiting /\ Offered' = Offered /\ Buffered' = Buffered
      /\ Assembling' = Assembling /\ dropped' = dropped /\ assembled' = assembled
      /\ assembling' = assembling
  BY DEF Waiting, Offered, Buffered, Assembling, outVars
<1> QED
  BY <1>1 DEF Inv, SpansInv, Conserved, Apart

-----------------------------------------------------------------------------
(* A non-empty set of natural numbers, here of positions in a batch, has a *)
(* least element: the one Min chooses.                                     *)
LEMMA LeastPosition ==
  ASSUME NEW S \in SUBSET Nat, S # {}
  PROVE  Min(S) \in S
<1>1. PICK x \in S : \A y \in S : ~ (<<y, x>> \in OpToRel(<, Nat))
  BY WFMin, NatLessThanWellFounded
<1>2. ASSUME NEW y \in S PROVE x <= y
  <2>1. SUFFICES ASSUME ~(x <= y) PROVE FALSE
    OBVIOUS
  <2>2. <<y, x>> \in OpToRel(<, Nat)
    BY <2>1 DEF OpToRel
  <2> QED
    BY <1>1, <2>2
<1>3. \E w \in S : \A y \in S : w <= y
  BY <1>2
<1> QED
  BY <1>3 DEF Min

(* A trace is judged by a span.                                            *)
LEMMA DecisionSpanIsSpan ==
  ASSUME NEW r \in Requests, NEW s \in Spans
  PROVE  DecisionSpan(r, s) \in Spans
<1> DEFINE batch == spansOf[r]
           roots == {i \in 1..Len(batch) : isRoot[batch[i]] /\ traceOf[batch[i]] = traceOf[s]}
           timed == {i \in roots : startTime[batch[i]] # 0}
           first == {i \in timed : \A j \in timed : startTime[batch[i]] <= startTime[batch[j]]}
<1>1. /\ batch \in Seq(Spans) /\ roots \subseteq 1..Len(batch) /\ first \subseteq 1..Len(batch)
      /\ Len(batch) \in Nat
  BY SamplingConstants
<1>2. DecisionSpan(r, s) = CASE first # {} -> batch[Min(first)]
                             [] first = {} /\ roots # {} -> batch[Min(roots)]
                             [] OTHER -> s
  BY DEF DecisionSpan
<1> HIDE DEF batch, roots, timed, first
<1>3. /\ first # {} => Min(first) \in 1..Len(batch)
      /\ roots # {} => Min(roots) \in 1..Len(batch)
  <2>1. first \in SUBSET Nat /\ roots \in SUBSET Nat
    BY <1>1
  <2>2. (first # {} => Min(first) \in first) /\ (roots # {} => Min(roots) \in roots)
    BY <2>1, LeastPosition
  <2> QED
    BY <1>1, <2>2
<1> QED
  BY <1>1, <1>2, <1>3

(* The decision made for a trace without a cached one.                     *)
LEMMA DecidesAnew ==
  ASSUME Inv, NEW r \in Requests, idx[r] <= Len(spansOf[r]), HeadDecides(r),
         decisions[traceOf[Current(r)]] = None
  PROVE  \E d \in Decisions :
            /\ decisions' = [decisions EXCEPT ![traceOf[Current(r)]] =
                                [result |-> d, by |-> read[r]]]
            /\ Settle(traceOf[Current(r)], {Current(r)}, d)
<1>1. Current(r) \in Spans
  BY CurrentWaits
<1>2. read[r] \in Samplers /\ DecisionSpan(r, Current(r)) \in Spans
  BY <1>1, DecisionSpanIsSpan DEF HeadDecides, Inv, CallsInv
<1>3. results[read[r]][DecisionSpan(r, Current(r))] \subseteq Decisions
  BY <1>2, SamplingConstants
<1> QED
  BY <1>3 DEF HeadDecides

-----------------------------------------------------------------------------
(* At first every span offered waits.                                      *)
LEMMA InitInv == Init => Inv
<1> SUFFICES ASSUME Init PROVE Inv
  OBVIOUS
<1> USE SamplingConstants DEF Init
<1>1. \A r \in Requests : Len(spansOf[r]) \in Nat
  OBVIOUS
<1>2. CallsInv
  BY <1>1 DEF CallsInv
<1>3. StopsInv
  BY DEF StopsInv
<1>4. Assembling = {} /\ Buffered = {}
  BY DEF Assembling, Buffered
<1>5. Waiting = Offered
  BY DEF Waiting, Offered
<1>6. SpansInv
  BY <1>4, <1>5 DEF SpansInv, Conserved, Apart
<1> QED
  BY <1>2, <1>3, <1>6 DEF Inv

(* The steps of a call of IngestSpans.                                     *)
LEMMA RequestKeepsInv ==
  ASSUME Inv, NEW r \in Requests, RequestStep(r)
  PROVE  Inv'
<1> USE SamplingConstants
<1>1. pc[r] = "decide" => idx[r] <= Len(spansOf[r])
  BY DEF Inv, CallsInv
<1> DEFINE s == Current(r)
<1>2. CASE DropsInvalid(r)
  <2>1. UNCHANGED <<sampler, decisions, buffered, stopVars>>
    BY <1>2 DEF DropsInvalid
  <2>2. SpansInv' /\ CallsInv'
    BY <1>2, CallSettles DEF DropsInvalid
  <2> QED
    BY <2>1, <2>2 DEF Inv, StopsInv, stopVars
<1>3. CASE ReadsSampler(r)
  <2>1. /\ UNCHANGED <<idx, outVars, sampler, decisions, buffered, stopVars>>
        /\ pc' = [pc EXCEPT ![r] = "decide"] /\ read' = [read EXCEPT ![r] = sampler]
        /\ idx[r] <= Len(spansOf[r]) /\ sampler \in Samplers
    BY <1>3 DEF ReadsSampler, Inv
  <2>2. /\ pc' \in [Requests -> {"loop", "decide"}] /\ read' \in [Requests -> Samplers \cup {None}]
        /\ pc'[r] = "decide" /\ read'[r] = sampler
        /\ \A q \in Requests \ {r} : pc'[q] = pc[q] /\ read'[q] = read[q]
    BY <2>1 DEF Inv, CallsInv
  <2>3. ASSUME NEW q \in Requests
        PROVE  /\ idx[q] \in 1 .. Len(spansOf[q]) + (IF pc'[q] = "loop" THEN 1 ELSE 0)
               /\ pc'[q] = "decide" => read'[q] \in Samplers
    <3>1. CASE q = r
      <4>1. Len(spansOf[r]) \in Nat /\ idx[r] \in Nat /\ idx[r] >= 1
        BY DEF Inv, CallsInv
      <4> QED
        BY <2>1, <2>2, <3>1, <4>1
    <3>2. CASE q # r
      BY <2>2, <3>2 DEF Inv, CallsInv
    <3> QED
      BY <3>1, <3>2
  <2>4. CallsInv'
    BY <2>1, <2>2, <2>3 DEF Inv, CallsInv
  <2>5. SpansInv'
    BY <2>1, SpansFrame
  <2> QED
    BY <2>1, <2>4, <2>5 DEF Inv, StopsInv, stopVars
<1>4. CASE TailAdds(r)
  <2>1. /\ idx[r] <= Len(spansOf[r]) /\ Advance(r) /\ read[r] \in TailSamplers
        /\ UNCHANGED <<sampler, decisions, stopVars>>
    BY <1>1, <1>4 DEF TailAdds
  <2>2. ASSUME buffered' = [buffered EXCEPT ![read[r]] = buffered[read[r]] \cup {s}],
               UNCHANGED outVars
        PROVE  SpansInv' /\ CallsInv'
    <3> DEFINE x == read[r]
    <3>1. /\ s \in Spans /\ s \in Waiting /\ Waiting' = Waiting \ {s} /\ CallsInv'
          /\ x \in TailSamplers /\ buffered' = [buffered EXCEPT ![x] = buffered[x] \cup {s}]
      BY <2>1, <2>2, CurrentWaits, AdvanceTakes
    <3> HIDE DEF s, x
    <3>2. /\ buffered' \in [TailSamplers -> SUBSET Spans]
          /\ \A y \in TailSamplers : buffered'[y] = IF y = x THEN buffered[x] \cup {s} ELSE buffered[y]
      BY <3>1 DEF Inv, SpansInv
    <3>3. ASSUME NEW u PROVE u \in Buffered' <=> u \in Buffered \/ u = s
      <4>1. \A y \in TailSamplers : u \in buffered'[y] <=> u \in buffered[y] \/ (y = x /\ u = s)
        BY <3>2
      <4> QED
        BY <3>1, <4>1, Places, PlacesPrimed
    <3>4. /\ Buffered' = Buffered \cup {s} /\ Assembling' = Assembling /\ Offered' = Offered
          /\ dropped' = dropped /\ assembled' = assembled /\ assembling' = assembling
      BY <2>2, <3>3 DEF outVars, Assembling, Offered
    <3>5. Conserved'
      BY <3>1, <3>4 DEF Inv, SpansInv, Conserved
    <3>6. \A y \in TailSamplers : s \notin buffered[y]
      BY <3>1, Places DEF Inv, SpansInv, Conserved
    <3>7. \A y, z \in TailSamplers : y # z => buffered'[y] \cap buffered'[z] = {}
      <4>1. \A y, z \in TailSamplers : y # z => buffered[y] \cap buffered[z] = {}
        BY DEF Inv, SpansInv, Apart
      <4>2. ASSUME NEW y \in TailSamplers, NEW z \in TailSamplers, y # z
            PROVE  buffered'[y] \cap buffered'[z] = {}
        <5>1. buffered[y] \cap buffered[z] = {} /\ s \notin buffered[y] /\ s \notin buffered[z]
          BY <3>6, <4>1, <4>2
        <5>2. /\ buffered'[y] = IF y = x THEN buffered[x] \cup {s} ELSE buffered[y]
              /\ buffered'[z] = IF z = x THEN buffered[x] \cup {s} ELSE buffered[z]
          BY <3>2
        <5> QED
          BY <4>2, <5>1, <5>2
      <4> QED
        BY <4>2
    <3> QED
      BY <3>1, <3>2, <3>4, <3>5, <3>7 DEF Inv, SpansInv, Apart
  <2>3. ASSUME NEW d \in Decisions, Settle(traceOf[s], {s}, d), buffered' = buffered
        PROVE  SpansInv' /\ CallsInv'
    BY <2>1, <2>3, CallSettles
  <2>4. SpansInv' /\ CallsInv'
    BY <1>4, <2>2, <2>3 DEF TailAdds
  <2> QED
    BY <2>1, <2>4 DEF Inv, StopsInv, stopVars
<1>5. CASE HeadDecides(r)
  <2>1. /\ idx[r] <= Len(spansOf[r]) /\ Advance(r) /\ read[r] \in Samplers \ TailSamplers
        /\ UNCHANGED <<sampler, buffered, stopVars>>
    BY <1>1, <1>5 DEF HeadDecides, Inv, CallsInv
  <2>2. \E d : Settle(traceOf[s], {s}, d)
    BY <1>5 DEF HeadDecides
  <2>3. SpansInv' /\ CallsInv'
    BY <2>1, <2>2, CallSettles
  <2>4. decisions' \in [Traces -> [result : Decisions, by : Samplers \ TailSamplers] \cup {None}]
    <3>1. CASE decisions[traceOf[s]] # None
      BY <1>5, <3>1 DEF HeadDecides, Inv
    <3>2. CASE decisions[traceOf[s]] = None
      <4>1. PICK d \in Decisions :
               decisions' = [decisions EXCEPT ![traceOf[s]] = [result |-> d, by |-> read[r]]]
        BY <1>5, <2>1, <3>2, DecidesAnew
      <4>2. [result |-> d, by |-> read[r]] \in [result : Decisions, by : Samplers \ TailSamplers]
        BY <2>1
      <4> QED
        BY <4>1, <4>2 DEF Inv
    <3> QED
      BY <3>1, <3>2
  <2> QED
    BY <2>1, <2>3, <2>4 DEF Inv, StopsInv, stopVars
<1> QED
  BY <1>2, <1>3, <1>4, <1>5 DEF RequestStep

(* The steps of SwapSampler, of Shutdown and of the Stop they call.        *)
LEMMA StopperKeepsInv ==
  ASSUME Inv, NEW a \in Stoppers,
         \/ a \in Swaps /\ (SwapReplaces(a) \/ SwapClears(a))
         \/ a = Shutdown /\ ShutdownReads
         \/ StopStep(a)
  PROVE  Inv'
<1> USE SamplingConstants
<1>1. \A b \in Stoppers : stage[b] = "flush" => target[b] \in TailSamplers
  BY DEF Inv, StopsInv
<1>2. CASE a \in Swaps /\ SwapReplaces(a)
  <2>1. /\ UNCHANGED <<reqVars, outVars, decisions, buffered, flushIds, stopped>>
        /\ sampler' \in Samplers
        /\ target' = [target EXCEPT ![a] = sampler] /\ stage' = [stage EXCEPT ![a] = "clear"]
    BY <1>2 DEF SwapReplaces, Moves
  <2>2. SpansInv' /\ CallsInv'
    BY <2>1, SpansFrame DEF Inv, CallsInv, reqVars
  <2>3. StopsInv'
    BY <1>1, <2>1 DEF Inv, StopsInv
  <2> QED
    BY <2>1, <2>2, <2>3 DEF Inv
<1>3. CASE a \in Swaps /\ SwapClears(a)
  <2>1. /\ UNCHANGED <<reqVars, outVars, sampler, buffered, target, flushIds, stopped>>
        /\ decisions' = [t \in Traces |-> None] /\ stage' = [stage EXCEPT ![a] = "stop"]
    BY <1>3 DEF SwapClears, Moves
  <2>2. SpansInv' /\ CallsInv'
    BY <2>1, SpansFrame DEF Inv, CallsInv, reqVars
  <2>3. StopsInv'
    BY <1>1, <2>1 DEF Inv, StopsInv
  <2> QED
    BY <2>1, <2>2, <2>3 DEF Inv
<1>4. CASE a = Shutdown /\ ShutdownReads
  <2>1. /\ UNCHANGED <<reqVars, outVars, sampler, decisions, buffered, flushIds, stopped>>
        /\ target' = [target EXCEPT ![a] = sampler] /\ stage' = [stage EXCEPT ![a] = "stop"]
    BY <1>4 DEF ShutdownReads, Moves
  <2>2. SpansInv' /\ CallsInv'
    BY <2>1, SpansFrame DEF Inv, CallsInv, reqVars
  <2>3. StopsInv'
    BY <1>1, <2>1 DEF Inv, StopsInv
  <2> QED
    BY <2>1, <2>2, <2>3 DEF Inv
<1>5. CASE StopsHead(a)
  <2>1. /\ UNCHANGED <<reqVars, outVars, sampler, decisions, buffered, target, flushIds>>
        /\ stopped' = stopped \cup ({target[a]} \cap AdaptiveSamplers)
        /\ \/ stage' = [stage EXCEPT ![a] = "panicked"] \/ stage' = [stage EXCEPT ![a] = "done"]
    BY <1>5 DEF StopsHead, Moves
  <2>2. SpansInv' /\ CallsInv'
    BY <2>1, SpansFrame DEF Inv, CallsInv, reqVars
  <2>3. StopsInv'
    BY <1>1, <2>1 DEF Inv, StopsInv
  <2> QED
    BY <2>1, <2>2, <2>3 DEF Inv
<1>6. CASE StopsTail(a)
  <2>1. /\ UNCHANGED <<reqVars, outVars, sampler, decisions, buffered, target, stopped>>
        /\ target[a] \in TailSamplers
        /\ flushIds' = [flushIds EXCEPT ![a] = {traceOf[s] : s \in buffered[target[a]]}]
        /\ stage' = [stage EXCEPT ![a] = "flush"]
    BY <1>6 DEF StopsTail, Moves
  <2>2. SpansInv' /\ CallsInv'
    BY <2>1, SpansFrame DEF Inv, CallsInv, reqVars
  <2>3. {traceOf[s] : s \in buffered[target[a]]} \in SUBSET Traces
    BY <2>1 DEF Inv, SpansInv
  <2>4. StopsInv'
    BY <1>1, <2>1, <2>3 DEF Inv, StopsInv
  <2> QED
    BY <2>1, <2>2, <2>4 DEF Inv
<1>7. CASE TailStopped(a)
  <2>1. /\ UNCHANGED <<reqVars, outVars, sampler, decisions, buffered, target, flushIds, stopped>>
        /\ stage' = [stage EXCEPT ![a] = "done"]
    BY <1>7 DEF TailStopped, Moves
  <2>2. SpansInv' /\ CallsInv'
    BY <2>1, SpansFrame DEF Inv, CallsInv, reqVars
  <2>3. StopsInv'
    BY <1>1, <2>1 DEF Inv, StopsInv
  <2> QED
    BY <2>1, <2>2, <2>3 DEF Inv
<1>8. ASSUME NEW t \in Traces, FlushesTail(a, t) PROVE Inv'
  <2>1. /\ UNCHANGED <<reqVars, sampler, decisions, stage, target, stopped>>
        /\ flushIds' = [flushIds EXCEPT ![a] = flushIds[a] \ {t}]
        /\ target[a] \in TailSamplers /\ TailDecides(target[a], t)
    BY <1>1, <1>8 DEF FlushesTail
  <2>2. SpansInv' /\ CallsInv'
    BY <2>1, TailSettles DEF Inv, CallsInv, reqVars
  <2>3. StopsInv'
    BY <1>1, <2>1 DEF Inv, StopsInv
  <2> QED
    BY <2>1, <2>2, <2>3 DEF Inv
<1> QED
  BY <1>2, <1>3, <1>4, <1>5, <1>6, <1>7, <1>8 DEF StopStep

(* A trace completes: its entry goes to the completed spans.               *)
LEMMA CompletesKeepsSpans ==
  ASSUME Inv, NEW t \in Traces, Completes(t)
  PROVE  SpansInv'
<1>1. /\ assembled' = assembled \cup assembling[t] /\ dropped' = dropped
      /\ assembling' = [assembling EXCEPT ![t] = {}] /\ buffered' = buffered /\ idx' = idx
  BY DEF Completes, reqVars
<1>2. /\ assembling' \in [Traces -> SUBSET Spans] /\ assembling[t] \in SUBSET Spans
      /\ \A u \in Traces : assembling'[u] = IF u = t THEN {} ELSE assembling[u]
  BY <1>1 DEF Inv, SpansInv
<1>3. \A s : s \in Assembling' <=> s \in Assembling /\ s \notin assembling[t]
  BY <1>2, Places, PlacesPrimed DEF Inv, SpansInv, Apart
<1>4. /\ Assembling' = Assembling \ assembling[t] /\ assembling[t] \subseteq Assembling
      /\ Buffered' = Buffered /\ Waiting' = Waiting /\ Offered' = Offered
  BY <1>1, <1>3, Places DEF Buffered, Waiting, Offered
<1>5. Conserved'
  BY <1>1, <1>4 DEF Inv, SpansInv, Conserved
<1> QED
  BY <1>1, <1>2, <1>5 DEF Inv, SpansInv, Apart

(* Every step keeps Inv.                                                   *)
LEMMA NextInv == Inv /\ [Next]_vars => Inv'
<1> SUFFICES ASSUME Inv, [Next]_vars PROVE Inv'
  OBVIOUS
<1>1. ASSUME NEW r \in Requests, RequestStep(r) PROVE Inv'
  BY <1>1, RequestKeepsInv
<1>2. ASSUME NEW t \in Traces, DecisionExpires(t) PROVE Inv'
  <2>1. /\ UNCHANGED <<reqVars, outVars, sampler, buffered, stopVars>>
        /\ decisions' = [decisions EXCEPT ![t] = None]
    BY <1>2 DEF DecisionExpires
  <2>2. SpansInv'
    BY <2>1, SpansFrame DEF reqVars
  <2> QED
    BY <2>1, <2>2 DEF Inv, CallsInv, StopsInv, reqVars, stopVars
<1>3. ASSUME NEW t \in Traces, Completes(t) PROVE Inv'
  <2>1. /\ UNCHANGED <<reqVars, sampler, stopVars>>
        /\ decisions' = [decisions EXCEPT ![t] = None]
    BY <1>3 DEF Completes
  <2>2. SpansInv'
    BY <1>3, CompletesKeepsSpans
  <2> QED
    BY <2>1, <2>2 DEF Inv, CallsInv, StopsInv, reqVars, stopVars
<1>4. ASSUME NEW x \in TailSamplers, NEW t \in Traces, TailTimer(x, t) PROVE Inv'
  <2>1. UNCHANGED <<reqVars, sampler, decisions, stopVars>> /\ TailDecides(x, t)
    BY <1>4 DEF TailTimer
  <2>2. SpansInv'
    BY <2>1, TailSettles DEF reqVars
  <2> QED
    BY <2>1, <2>2 DEF Inv, CallsInv, StopsInv, reqVars, stopVars
<1>5. ASSUME NEW a \in Swaps, SwapReplaces(a) \/ SwapClears(a) PROVE Inv'
  BY <1>5, StopperKeepsInv DEF Stoppers
<1>6. CASE ShutdownReads
  BY <1>6, StopperKeepsInv DEF Stoppers
<1>7. ASSUME NEW a \in Stoppers, StopStep(a) PROVE Inv'
  BY <1>7, StopperKeepsInv
<1>8. CASE UNCHANGED vars
  <2>1. SpansInv'
    BY <1>8, SpansFrame DEF vars, reqVars
  <2> QED
    BY <1>8, <2>1 DEF Inv, CallsInv, StopsInv, vars, reqVars, stopVars
<1> QED
  BY <1>1, <1>2, <1>3, <1>4, <1>5, <1>6, <1>7, <1>8 DEF Next

(* Inv is an invariant.                                                    *)
LEMMA SpecInv == Spec => []Inv
  BY InitInv, NextInv, PTL DEF Spec

-----------------------------------------------------------------------------
(* The state of the calls, of the sampler objects and of the stops of      *)
(* api/pipeline.go stays in its types.                                     *)
THEOREM TypeCorrect == Spec => []TypeOK
<1>1. Inv => TypeOK
  BY DEF Inv, SpansInv, CallsInv, StopsInv, TypeOK
<1> QED
  BY <1>1, SpecInv, PTL

(* IngestSpans, SwapSampler, Shutdown and the timers of replaced samplers  *)
(* neither lose a span on its way nor pass it on twice: each span offered  *)
(* is in exactly one place.                                                *)
THEOREM SpansConserved == Spec => []Conserved
<1>1. Inv => Conserved
  BY DEF Inv, SpansInv
<1> QED
  BY <1>1, SpecInv, PTL

(* While a head-sampling decision is cached it does not change, and a span *)
(* is dropped or kept as it says, whichever sampler its call has read      *)
(* before a SwapSampler.                                                   *)
THEOREM OneDecision == Spec => OneDecisionPerEntry
<1> DEFINE Stable == \A t \in Traces :
              decisions[t] # None /\ decisions'[t] # None => decisions'[t] = decisions[t]
           Obeyed == \A r \in Requests : HeadDecides(r) =>
              decisions'[traceOf[Current(r)]].result =
                 IF Current(r) \in dropped' THEN "drop" ELSE "keep"
<1>1. ASSUME Inv, NEW r \in Requests, HeadDecides(r)
      PROVE  /\ Stable
             /\ decisions'[traceOf[Current(r)]].result =
                   IF Current(r) \in dropped' THEN "drop" ELSE "keep"
  <2> DEFINE s == Current(r)
             t == traceOf[s]
  <2>1. idx[r] <= Len(spansOf[r])
    BY <1>1, SamplingConstants DEF HeadDecides, Inv, CallsInv
  <2>2. t \in Traces /\ s \notin dropped
    BY <1>1, <2>1, CurrentWaits
  <2>3. decisions \in [Traces -> [result : Decisions, by : Samplers \ TailSamplers] \cup {None}]
    BY <1>1 DEF Inv
  <2>4. CASE decisions[t] # None
    <3>1. decisions' = decisions /\ Settle(t, {s}, decisions[t].result)
      BY <1>1, <2>4 DEF HeadDecides
    <3>2. decisions[t].result \in Decisions
      BY <2>2, <2>3, <2>4
    <3> QED
      BY <2>2, <3>1, <3>2 DEF Settle, Decisions
  <2>5. CASE decisions[t] = None
    <3>1. PICK d \in Decisions :
             /\ decisions' = [decisions EXCEPT ![t] = [result |-> d, by |-> read[r]]]
             /\ Settle(t, {s}, d)
      BY <1>1, <2>1, <2>5, DecidesAnew
    <3>2. decisions'[t].result = d /\ \A u \in Traces \ {t} : decisions'[u] = decisions[u]
      BY <2>2, <2>3, <3>1
    <3>3. Stable
      BY <2>5, <3>2
    <3> HIDE DEF Stable
    <3> QED
      BY <2>2, <3>1, <3>2, <3>3 DEF Settle, Decisions
  <2> QED
    BY <2>4, <2>5
<1>2. ASSUME Inv, decisions' = decisions PROVE Stable
  BY <1>2
<1>3. ASSUME Inv, NEW t \in Traces, decisions' = [decisions EXCEPT ![t] = None] PROVE Stable
  BY <1>3 DEF Inv
<1>4. ASSUME Inv, [Next]_vars PROVE Stable
  <2>1. ASSUME NEW r \in Requests, RequestStep(r) PROVE Stable
    <3>1. HeadDecides(r) \/ decisions' = decisions
      BY <2>1 DEF RequestStep, DropsInvalid, ReadsSampler, TailAdds
    <3> QED
      BY <1>1, <1>2, <1>4, <3>1
  <2>2. ASSUME NEW t \in Traces, DecisionExpires(t) \/ Completes(t) PROVE Stable
    <3>1. decisions' = [decisions EXCEPT ![t] = None]
      BY <2>2 DEF DecisionExpires, Completes
    <3> QED
      BY <1>3, <1>4, <3>1
  <2>3. ASSUME NEW a \in Swaps, SwapClears(a) PROVE Stable
    BY <2>3 DEF SwapClears
  <2>4. ASSUME NEW x \in TailSamplers, NEW t \in Traces, TailTimer(x, t) PROVE decisions' = decisions
    BY <2>4 DEF TailTimer
  <2>5. ASSUME NEW a \in Swaps, SwapReplaces(a) PROVE decisions' = decisions
    BY <2>5 DEF SwapReplaces
  <2>6. ShutdownReads \/ UNCHANGED vars => decisions' = decisions
    BY DEF ShutdownReads, vars
  <2>7. ASSUME NEW a \in Stoppers, StopStep(a) PROVE decisions' = decisions
    BY <2>7 DEF StopStep, StopsHead, StopsTail, TailStopped, FlushesTail
  <2> HIDE DEF Stable
  <2> QED
    BY <1>2, <1>4, <2>1, <2>2, <2>3, <2>4, <2>5, <2>6, <2>7 DEF Next
<1>5. ASSUME Inv PROVE Obeyed
  BY <1>1, <1>5
<1>6. Inv /\ [Next]_vars => [Stable /\ Obeyed]_vars
  BY <1>4, <1>5
<1>7. Spec => [][Stable /\ Obeyed]_vars
  BY <1>6, SpecInv, PTL DEF Spec
<1> QED
  BY <1>7, PTL DEF OneDecisionPerEntry

=============================================================================
