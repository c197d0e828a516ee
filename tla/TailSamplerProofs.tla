-------------------------- MODULE TailSamplerProofs --------------------------
(***************************************************************************)
(* Proofs about TailSampler.tla for every set of traces and spans, every   *)
(* list of policies and every buffer size.                                 *)
(*                                                                         *)
(* Inv is inductive.  As in AssemblerProofs.tla, ExactlyOnce needs entries *)
(* and batches of one trace each and no empty batch (Pure); the eviction   *)
(* needs BufferBounded, which says that the head of order is an entry of   *)
(* s.buffer, and the verdicts need the order in which policies are asked.  *)
(***************************************************************************)
EXTENDS TailSampler, WellFoundedInduction, TLAPS

(* The entries and the batches are of one trace each, batches not empty.   *)
Pure ==
    /\ \A t \in Traces : \A s \in buffer[t] : traceOf[s] = t
    /\ \A b \in evals \cup verdicts :
          b.spans # {} /\ \A s \in b.spans : traceOf[s] = b.trace

Inv == TypeOK /\ Pure /\ ExactlyOnce /\ BufferBounded /\ NoStrandedTrace /\ ErrorsNotVotedDown

-----------------------------------------------------------------------------
(* A policy keeps, drops or abstains; the error policy keeps a trace with  *)
(* an error span.                                                          *)
LEMMA VotesType ==
  ASSUME NEW policy \in PolicyNames, NEW t, NEW spans
  PROVE  /\ Votes(policy, t, spans) \in {"keep", "drop", "abstain"}
         /\ policy = "error" /\ (\E s \in spans : isError[s]) =>
               Votes(policy, t, spans) = "keep"
<1>1. CASE policy = "error"
  BY <1>1 DEF Votes
<1>2. CASE policy = "latency"
  BY <1>2 DEF Votes
<1>3. CASE policy = "probabilistic"
  BY <1>3 DEF Votes
<1> QED
  BY <1>1, <1>2, <1>3 DEF PolicyNames

(* A non-empty set of natural numbers, here of policy numbers, has a least *)
(* element: the one Min chooses.                                           *)
LEMMA LeastElement ==
  ASSUME NEW S \in SUBSET Nat, S # {}
  PROVE  Min(S) \in S /\ \A y \in S : Min(S) <= y
<1>1. PICK x \in S : \A y \in S : ~ (<<y, x>> \in OpToRel(<, Nat))
  BY WFMin, NatLessThanWellFounded
<1>2. ASSUME NEW y \in S PROVE x <= y
  <2>1. SUFFICES ASSUME ~(x <= y) PROVE FALSE
    OBVIOUS
  <2>2. <<y, x>> \in Nat \X Nat /\ y < x
    BY <2>1
  <2>3. <<y, x>> \in OpToRel(<, Nat)
    BY <2>2 DEF OpToRel
  <2> QED
    BY <1>1, <2>3
<1>3. \E w \in S : \A y \in S : w <= y
  BY <1>2
<1> QED
  BY <1>3 DEF Min

(* A verdict is keep or drop, and with the error policy first a batch with *)
(* an error span is kept.                                                  *)
LEMMA VerdictProperties ==
  ASSUME NEW t, NEW spans
  PROVE  /\ Verdict(t, spans) \in Decisions
         /\ Len(Policies) > 0 /\ Policies[1] = "error" /\ (\E s \in spans : isError[s]) =>
               Verdict(t, spans) = "keep"
<1> DEFINE asked == {p \in 1..Len(Policies) : Votes(Policies[p], t, spans) # "abstain"}
<1>1. \A p \in 1..Len(Policies) : Policies[p] \in PolicyNames
  BY TailConstants
<1>2. asked # {} => Min(asked) \in asked /\ \A y \in asked : Min(asked) <= y
  <2>1. asked \in SUBSET Nat
    BY TailConstants
  <2> HIDE DEF asked
  <2> QED
    BY <2>1, LeastElement
<1>3. Verdict(t, spans) = IF asked = {} THEN "drop" ELSE Votes(Policies[Min(asked)], t, spans)
  BY DEF Verdict
<1>4. Verdict(t, spans) \in Decisions
  <2>1. CASE asked = {}
    BY <1>3, <2>1 DEF Decisions
  <2>2. CASE asked # {}
    <3>1. Min(asked) \in 1..Len(Policies) /\ Votes(Policies[Min(asked)], t, spans) # "abstain"
      BY <1>2, <2>2
    <3>2. Votes(Policies[Min(asked)], t, spans) \in {"keep", "drop", "abstain"}
      BY <1>1, <3>1, VotesType
    <3> QED
      BY <1>3, <2>2, <3>1, <3>2 DEF Decisions
  <2> QED
    BY <2>1, <2>2
<1>5. ASSUME Len(Policies) > 0, Policies[1] = "error", \E s \in spans : isError[s]
      PROVE  Verdict(t, spans) = "keep"
  <2>1. 1 \in 1..Len(Policies)
    BY <1>5, TailConstants
  <2>2. Votes(Policies[1], t, spans) = "keep"
    BY <1>1, <1>5, <2>1, VotesType
  <2>3. 1 \in asked
    BY <2>1, <2>2
  <2>4. Min(asked) \in 1..Len(Policies) /\ Min(asked) <= 1
    BY <1>2, <2>3
  <2>5. Min(asked) = 1
    BY <2>4, TailConstants
  <2> HIDE DEF asked
  <2> QED
    BY <1>3, <2>2, <2>3, <2>5
<1> QED
  BY <1>4, <1>5

-----------------------------------------------------------------------------
(* o lists the traces with an entry in b, each once.                       *)
Lists(o, b) ==
    /\ \A t \in Traces : b[t] # {} <=> \E p \in 1..Len(o) : o[p] = t
    /\ \A p, q \in 1..Len(o) : o[p] = o[q] => p = q

(* Taking position p out of order and its trace out of s.buffer.           *)
LEMMA ListsWithout ==
  ASSUME NEW o \in Seq(Traces), NEW b \in [Traces -> SUBSET Spans], Lists(o, b),
         NEW p \in 1..Len(o),
         NEW r \in Seq(Traces), Len(r) = Len(o) - 1,
         \A q \in 1..(Len(o) - 1) : r[q] = IF q < p THEN o[q] ELSE o[q + 1]
  PROVE  Lists(r, [b EXCEPT ![o[p]] = {}])
<1> DEFINE c == [b EXCEPT ![o[p]] = {}]
<1>1. o[p] \in Traces
  OBVIOUS
<1>2. \A q \in 1..Len(r) : \E x \in 1..Len(o) : x # p /\ r[q] = o[x]
  OBVIOUS
<1>3. \A x \in 1..Len(o) : x # p => \E q \in 1..Len(r) : r[q] = o[x]
  <2> SUFFICES ASSUME NEW x \in 1..Len(o), x # p PROVE \E q \in 1..Len(r) : r[q] = o[x]
    OBVIOUS
  <2>1. CASE x < p
    <3>1. x \in 1..Len(r) /\ r[x] = o[x]
      BY <2>1
    <3> QED
      BY <3>1
  <2>2. CASE x > p
    <3>1. x - 1 \in 1..Len(r) /\ ~(x - 1 < p) /\ (x - 1) + 1 = x
      BY <2>2
    <3>2. r[x - 1] = o[x]
      BY <3>1
    <3> QED
      BY <3>1, <3>2
  <2> QED
    BY <2>1, <2>2
<1>4. ASSUME NEW t \in Traces PROVE c[t] # {} <=> \E q \in 1..Len(r) : r[q] = t
  <2>1. CASE t = o[p]
    <3>1. c[t] = {}
      BY <2>1
    <3>2. \A x \in 1..Len(o) : x # p => o[x] # t
      BY <2>1 DEF Lists
    <3> QED
      BY <1>2, <3>1, <3>2
  <2>2. CASE t # o[p]
    <3>1. c[t] = b[t]
      BY <2>2
    <3>2. b[t] # {} <=> \E x \in 1..Len(o) : o[x] = t
      BY DEF Lists
    <3> QED
      BY <1>2, <1>3, <2>2, <3>1, <3>2
  <2> QED
    BY <2>1, <2>2
<1>5. ASSUME NEW x \in 1..Len(r), NEW y \in 1..Len(r), r[x] = r[y] PROVE x = y
  <2>1. \A q \in 1..Len(r) :
           \E z \in 1..Len(o) : z = (IF q < p THEN q ELSE q + 1) /\ r[q] = o[z]
    OBVIOUS
  <2>2. (IF x < p THEN x ELSE x + 1) = (IF y < p THEN y ELSE y + 1)
    BY <1>5, <2>1 DEF Lists
  <2> QED
    BY <2>2
<1> QED
  BY <1>4, <1>5 DEF Lists

(* Appending a trace without an entry to order and making its entry.       *)
LEMMA ListsWith ==
  ASSUME NEW o \in Seq(Traces), NEW b \in [Traces -> SUBSET Spans], Lists(o, b),
         NEW t \in Traces, b[t] = {}, NEW S \in SUBSET Spans, S # {}
  PROVE  Lists(Append(o, t), [b EXCEPT ![t] = S])
<1> DEFINE a == Append(o, t)
           c == [b EXCEPT ![t] = S]
<1>1. /\ Len(a) = Len(o) + 1 /\ a[Len(o) + 1] = t
      /\ \A p \in 1..Len(o) : a[p] = o[p]
  OBVIOUS
<1>2. \A p \in 1..Len(o) : o[p] # t
  BY DEF Lists
<1> HIDE DEF a
<1>3. ASSUME NEW u \in Traces PROVE c[u] # {} <=> \E p \in 1..Len(a) : a[p] = u
  <2>1. CASE u = t
    BY <1>1, <2>1
  <2>2. CASE u # t
    BY <1>1, <2>2 DEF Lists
  <2> QED
    BY <2>1, <2>2
<1>4. ASSUME NEW p \in 1..Len(a), NEW q \in 1..Len(a), a[p] = a[q] PROVE p = q
  BY <1>1, <1>2, <1>4 DEF Lists
<1>5. Lists(a, c)
  BY <1>3, <1>4 DEF Lists
<1> QED
  BY <1>5 DEF a

(* What RemoveAt does to a sequence, position by position.                 *)
LEMMA RemoveAtProperties ==
  ASSUME NEW S, NEW o \in Seq(S), NEW p \in 1..Len(o)
  PROVE  /\ RemoveAt(o, p) \in Seq(S)
         /\ Len(RemoveAt(o, p)) = Len(o) - 1
         /\ \A q \in 1..(Len(o) - 1) : RemoveAt(o, p)[q] = IF q < p THEN o[q] ELSE o[q + 1]
<1> DEFINE front == SubSeq(o, 1, p - 1)
           back  == SubSeq(o, p + 1, Len(o))
<1>1. front \in Seq(S) /\ Len(front) = p - 1 /\ \A q \in 1..(p - 1) : front[q] = o[q]
  OBVIOUS
<1>2. /\ back \in Seq(S) /\ Len(back) = Len(o) - p
      /\ \A q \in 1..(Len(o) - p) : back[q] = o[p + q]
  OBVIOUS
<1>3. RemoveAt(o, p) = front \o back
  BY DEF RemoveAt
<1> HIDE DEF front, back
<1>4. Len(front) + Len(back) = Len(o) - 1
  BY <1>1, <1>2
<1>5. front \o back \in Seq(S) /\ Len(front \o back) = Len(o) - 1
  BY <1>1, <1>2, <1>4
<1>6. \A q \in 1..(Len(o) - 1) :
         (front \o back)[q] = IF q <= Len(front) THEN front[q] ELSE back[q - Len(front)]
  BY <1>1, <1>2, <1>4
<1>7. ASSUME NEW q \in 1..(Len(o) - 1)
      PROVE  (front \o back)[q] = IF q < p THEN o[q] ELSE o[q + 1]
  <2>1. CASE q < p
    <3>1. q <= Len(front) /\ q \in 1..(p - 1)
      BY <1>1, <2>1
    <3> QED
      BY <1>1, <1>6, <2>1, <3>1
  <2>2. CASE ~(q < p)
    <3>1. q - (p - 1) \in 1..(Len(o) - p) /\ p + (q - (p - 1)) = q + 1 /\ ~(q <= p - 1)
      BY <2>2
    <3>2. (front \o back)[q] = back[q - (p - 1)]
      BY <1>1, <1>6, <3>1
    <3>3. back[q - (p - 1)] = o[q + 1]
      BY <1>2, <3>1
    <3> QED
      BY <2>2, <3>2, <3>3, Zenon
  <2> QED
    BY <2>1, <2>2, Zenon
<1> QED
  BY <1>3, <1>5, <1>7

-----------------------------------------------------------------------------
(* BufferBounded is a bound and the correspondence of order and s.buffer.  *)
LEMMA BufferBoundedParts == BufferBounded <=> Len(order) <= MaxSize /\ Lists(order, buffer)
  BY DEF BufferBounded, Lists

(* The initial state satisfies the inductive invariant.                    *)
LEMMA InitInv == Init => Inv
<1> SUFFICES ASSUME Init PROVE Inv
  OBVIOUS
<1> USE TailConstants, MaxSizeAssumption DEF Init
<1>1. TypeOK
  BY DEF TypeOK
<1>2. Pure
  BY DEF Pure
<1>3. ExactlyOnce
  BY DEF ExactlyOnce, Buffer, InFlight, Settled, SpansOf
<1>4. BufferBounded
  BY DEF BufferBounded
<1>5. NoStrandedTrace
  BY DEF NoStrandedTrace
<1>6. ErrorsNotVotedDown
  BY DEF ErrorsNotVotedDown
<1> QED
  BY <1>1, <1>2, <1>3, <1>4, <1>5, <1>6 DEF Inv

(* The first critical section of evaluateTrace moves the spans of one      *)
(* entry, whole, from s.buffer to a batch, and leaves the others alone.    *)
LEMMA TakeMoves ==
  ASSUME Inv, NEW t \in Traces, NEW caller \in Callers, TakeBuffer(t, caller),
         unsent' = unsent, verdicts' = verdicts,
         accepted' = accepted, rejected' = rejected
  PROVE  /\ Pure' /\ ExactlyOnce' /\ BufferBounded'
         /\ buffer' = [buffer EXCEPT ![t] = {}]
         /\ buffer' \in [Traces -> SUBSET Spans]
         /\ order' \in Seq(Traces)
         /\ armed' \in [Traces -> BOOLEAN]
         /\ \A u \in Traces \ {t} : armed'[u] = armed[u]
         /\ orphaned' \in [Traces -> Nat]
         /\ evals' \in SUBSET Batches
<1> USE DEF Inv
<1>1. CASE buffer[t] = {}
  <2>1. UNCHANGED <<buffer, order, armed, orphaned, evals>>
    BY <1>1 DEF TakeBuffer
  <2>2. buffer = [buffer EXCEPT ![t] = {}]
    BY <1>1 DEF TypeOK
  <2>3. Pure' /\ BufferBounded'
    BY <2>1 DEF Pure, BufferBounded
  <2>4. ExactlyOnce'
    BY <2>1 DEF ExactlyOnce, Buffer, InFlight, Settled, SpansOf
  <2> QED
    BY <2>1, <2>2, <2>3, <2>4 DEF TypeOK
<1>2. CASE buffer[t] # {}
  <2> DEFINE nb == [trace |-> t, spans |-> buffer[t], by |-> caller]
  <2>1. /\ evals' = evals \cup {nb}
        /\ buffer' = [buffer EXCEPT ![t] = {}]
        /\ armed' = [armed EXCEPT ![t] = FALSE]
        /\ orphaned' = [orphaned EXCEPT ![t] = IF armed[t] THEN @ + 1 ELSE @]
    BY <1>2 DEF TakeBuffer
  <2>2. PICK p \in 1..Len(order) : order[p] = t /\ order' = RemoveAt(order, p)
    BY <1>2 DEF TakeBuffer
  <2>3. /\ buffer' \in [Traces -> SUBSET Spans]
        /\ armed' \in [Traces -> BOOLEAN]
        /\ orphaned' \in [Traces -> Nat]
        /\ \A u \in Traces \ {t} : armed'[u] = armed[u]
    BY <2>1 DEF TypeOK
  <2>4. nb \in Batches /\ nb.spans = buffer[t] /\ nb.trace = t
    BY DEF TypeOK, Batches
  <2>5. evals' \in SUBSET Batches
    BY <2>1, <2>4 DEF TypeOK
  <2>6. order \in Seq(Traces) /\ buffer \in [Traces -> SUBSET Spans]
    BY DEF TypeOK
  <2>7. /\ order' \in Seq(Traces)
        /\ Len(order') = Len(order) - 1
        /\ \A q \in 1..(Len(order) - 1) :
              order'[q] = IF q < p THEN order[q] ELSE order[q + 1]
    BY <2>2, <2>6, RemoveAtProperties
  <2>8. BufferBounded'
    <3>1. Lists(order, buffer) /\ Len(order) <= MaxSize
      BY BufferBoundedParts
    <3>2. Lists(order', [buffer EXCEPT ![order[p]] = {}])
      BY <2>6, <2>7, <3>1, ListsWithout
    <3>3. Lists(order', buffer')
      BY <2>1, <2>2, <3>2
    <3>4. Len(order') <= MaxSize
      BY <2>6, <2>7, <3>1, MaxSizeAssumption
    <3> QED
      BY <3>3, <3>4 DEF BufferBounded, Lists
  <2>9. Buffer = buffer[t] \cup Buffer' /\ buffer[t] \cap Buffer' = {}
    <3>1. \A u \in Traces : u # t => buffer'[u] = buffer[u]
      BY <2>1, <2>6
    <3>2. buffer'[t] = {}
      BY <2>1, <2>6
    <3>3. Buffer = buffer[t] \cup Buffer'
      BY <3>1, <3>2 DEF Buffer
    <3>4. \A u \in Traces : u # t => buffer[t] \cap buffer[u] = {}
      BY DEF Pure
    <3>5. \A x \in Buffer' : x \notin buffer[t]
      BY <3>1, <3>2, <3>4 DEF Buffer
    <3> QED
      BY <3>3, <3>5
  <2>10. SpansOf(evals)' = SpansOf(evals) \cup buffer[t] /\ SpansOf(verdicts)' = SpansOf(verdicts)
    BY <2>1, <2>4 DEF SpansOf
  <2>11. Pure'
    BY <1>2, <2>1, <2>4, <2>6 DEF Pure
  <2>12. \A b \in evals : b.spans \cap nb.spans = {}
    <3>1. \A b \in evals : b.spans \subseteq SpansOf(evals)
      BY DEF SpansOf
    <3>2. buffer[t] \subseteq Buffer
      BY DEF Buffer
    <3> QED
      BY <3>1, <3>2, <2>4 DEF ExactlyOnce, InFlight
  <2>13. \A b, c \in evals' : b # c => b.spans \cap c.spans = {}
    BY <2>1, <2>12 DEF ExactlyOnce
  <2>14. \A b, c \in verdicts' : b # c => b.spans \cap c.spans = {}
    BY DEF ExactlyOnce
  <2>15. ExactlyOnce'
    BY <2>9, <2>10, <2>13, <2>14 DEF ExactlyOnce, InFlight, Settled
  <2> QED
    BY <2>1, <2>3, <2>5, <2>7, <2>8, <2>11, <2>15
<1> QED
  BY <1>1, <1>2

-----------------------------------------------------------------------------
(* A span passed to AddSpan goes from unsent to one place, and no step of  *)
(* AddSpan touches the evaluations.                                        *)
LEMMA AddSpanKeepsInv ==
  ASSUME Inv, NEW s \in Spans, AddSpan(s)
  PROVE  Inv'
<1> USE TailConstants, MaxSizeAssumption DEF Inv
<1> DEFINE t == traceOf[s]
<1>0. /\ t \in Traces
      /\ order \in Seq(Traces) /\ buffer \in [Traces -> SUBSET Spans]
      /\ Len(order) <= MaxSize /\ Lists(order, buffer)
  BY BufferBoundedParts DEF TypeOK
<1>1. CASE AddSpanDecided(s) /\ decided[t] = "keep"
  <2> DEFINE nv == [trace |-> t, spans |-> {s}, by |-> "sender", verdict |-> "keep"]
  <2>1. /\ s \in unsent
        /\ unsent' = unsent \ {s}
        /\ verdicts' = verdicts \cup {nv}
        /\ UNCHANGED <<outVars, buffer, order, decided, timerVars, evals, stopVars>>
    BY <1>1 DEF AddSpanDecided
  <2>2. nv \in Verdicts /\ nv.spans = {s} /\ nv.trace = t
    BY <1>0 DEF Verdicts, Callers, Decisions
  <2>3. TypeOK'
    BY <2>1, <2>2 DEF TypeOK, outVars, timerVars, stopVars
  <2>4. Pure'
    BY <2>1, <2>2 DEF Pure
  <2>5. /\ SpansOf(verdicts)' = SpansOf(verdicts) \cup {s}
        /\ SpansOf(evals)' = SpansOf(evals)
    BY <2>1, <2>2 DEF SpansOf
  <2>6. Buffer' = Buffer /\ Settled' = Settled
    BY <2>1 DEF Buffer, Settled, outVars
  <2>7. \A b \in verdicts : b.spans \cap nv.spans = {}
    <3>1. \A b \in verdicts : b.spans \subseteq SpansOf(verdicts)
      BY DEF SpansOf
    <3> QED
      BY <2>1, <2>2, <3>1 DEF ExactlyOnce, InFlight
  <2>8. \A b, c \in verdicts' : b # c => b.spans \cap c.spans = {}
    BY <2>1, <2>7 DEF ExactlyOnce
  <2>9. \A b, c \in evals' : b # c => b.spans \cap c.spans = {}
    BY <2>1 DEF ExactlyOnce
  <2>10. ExactlyOnce'
    <3>1. InFlight' = InFlight \cup {s}
      BY <2>5 DEF InFlight
    <3>2. s \notin SpansOf(evals) /\ accepted' = accepted /\ rejected' = rejected
      BY <2>1 DEF ExactlyOnce, InFlight, outVars
    <3>3. (SpansOf(evals) \cap SpansOf(verdicts) = {})'
      BY <2>5, <3>2 DEF ExactlyOnce
    <3>4. (\A u \in Spans : u \in unsent \cup Buffer \cup InFlight \cup Settled)'
      BY <2>1, <2>6, <3>1 DEF ExactlyOnce
    <3>5. /\ (unsent \cap (Buffer \cup InFlight \cup Settled) = {})'
          /\ (Buffer \cap (InFlight \cup Settled) = {})'
          /\ (InFlight \cap Settled = {})'
      BY <2>1, <2>6, <3>1 DEF ExactlyOnce
    <3>6. (accepted \cap rejected = {})'
      BY <3>2 DEF ExactlyOnce
    <3> HIDE DEF nv
    <3> QED
      BY <2>8, <2>9, <3>3, <3>4, <3>5, <3>6 DEF ExactlyOnce
  <2>11. BufferBounded' /\ NoStrandedTrace'
    BY <2>1 DEF BufferBounded, NoStrandedTrace, timerVars, stopVars
  <2>12. ErrorsNotVotedDown'
    <3>1. nv.verdict = "keep"
      OBVIOUS
    <3> QED
      BY <2>1, <3>1 DEF ErrorsNotVotedDown
  <2> QED
    BY <2>3, <2>4, <2>10, <2>11, <2>12
<1>2. CASE AddSpanDecided(s) /\ decided[t] # "keep"
  <2>1. /\ s \in unsent
        /\ unsent' = unsent \ {s}
        /\ rejected' = rejected \cup {s}
        /\ UNCHANGED <<verdicts, accepted, buffer, order, decided, timerVars, evals, stopVars>>
    BY <1>2 DEF AddSpanDecided
  <2>2. TypeOK'
    BY <2>1 DEF TypeOK, timerVars, stopVars
  <2>3. Buffer' = Buffer /\ SpansOf(evals)' = SpansOf(evals) /\ SpansOf(verdicts)' = SpansOf(verdicts)
    BY <2>1 DEF Buffer, SpansOf
  <2>4. ExactlyOnce'
    BY <2>1, <2>3 DEF ExactlyOnce, InFlight, Settled
  <2>5. Pure' /\ BufferBounded' /\ NoStrandedTrace' /\ ErrorsNotVotedDown'
    BY <2>1 DEF Pure, BufferBounded, NoStrandedTrace, ErrorsNotVotedDown, timerVars, stopVars
  <2> QED
    BY <2>2, <2>4, <2>5
<1>3. CASE AddSpanBuffered(s)
  <2>1. /\ s \in unsent
        /\ ~NeedsRoom(t)
        /\ buffer' = [buffer EXCEPT ![t] = @ \cup {s}]
        /\ order' = IF buffer[t] = {} THEN Append(order, t) ELSE order
        /\ armed' = [armed EXCEPT ![t] = TRUE]
        /\ unsent' = unsent \ {s}
        /\ UNCHANGED <<decided, orphaned, fired, evals, verdicts, outVars, stopVars>>
    BY <1>3 DEF AddSpanBuffered
  <2>2. TypeOK'
    BY <1>0, <2>1 DEF TypeOK, outVars, stopVars
  <2>3. Buffer' = Buffer \cup {s}
    BY <1>0, <2>1 DEF Buffer
  <2>4. SpansOf(evals)' = SpansOf(evals) /\ SpansOf(verdicts)' = SpansOf(verdicts)
    BY <2>1 DEF SpansOf
  <2>5. ExactlyOnce'
    BY <2>1, <2>3, <2>4 DEF ExactlyOnce, InFlight, Settled, outVars
  <2>6. Pure'
    BY <1>0, <2>1 DEF Pure
  <2>7. BufferBounded'
    <3>1. CASE buffer[t] = {}
      <4>1. buffer' = [buffer EXCEPT ![t] = {s}] /\ order' = Append(order, t)
        BY <1>0, <2>1, <3>1
      <4>2. Lists(order', buffer')
        BY <1>0, <3>1, <4>1, ListsWith
      <4>3. Len(order') <= MaxSize
        BY <1>0, <2>1, <3>1, <4>1 DEF NeedsRoom
      <4> QED
        BY <4>2, <4>3 DEF BufferBounded, Lists
    <3>2. CASE buffer[t] # {}
      <4>1. order' = order
        BY <2>1, <3>2
      <4>2. \A u \in Traces : buffer'[u] # {} <=> buffer[u] # {}
        BY <1>0, <2>1, <3>2
      <4> QED
        BY <4>1, <4>2 DEF BufferBounded
    <3> QED
      BY <3>1, <3>2
  <2>8. NoStrandedTrace'
    BY <1>0, <2>1 DEF NoStrandedTrace, TypeOK, stopVars
  <2>9. ErrorsNotVotedDown'
    BY <2>1 DEF ErrorsNotVotedDown
  <2> QED
    BY <2>2, <2>5, <2>6, <2>7, <2>8, <2>9
<1>4. CASE AddSpanEvicting(s)
  <2> DEFINE oldest == Head(order)
             without == [buffer EXCEPT ![oldest] = {}]
  <2>1. /\ s \in unsent
        /\ buffer[t] = {} /\ Len(order) >= MaxSize
        /\ buffer' = [buffer EXCEPT ![oldest] = {}, ![t] = {s}]
        /\ order' = Append(Tail(order), t)
        /\ armed' = [armed EXCEPT ![oldest] = FALSE, ![t] = TRUE]
        /\ decided' = [decided EXCEPT ![oldest] = "drop"]
        /\ rejected' = rejected \cup buffer[oldest]
        /\ unsent' = unsent \ {s}
        /\ UNCHANGED <<orphaned, fired, evals, verdicts, accepted, stopVars>>
    BY <1>4 DEF AddSpanEvicting, NeedsRoom
  <2>2. 1 \in 1..Len(order) /\ oldest = order[1] /\ oldest \in Traces
    BY <1>0, <2>1
  <2>3. buffer[oldest] # {} /\ oldest # t
    BY <1>0, <2>1, <2>2 DEF Lists
  <2> HIDE DEF oldest
  <2>4. /\ Tail(order) \in Seq(Traces)
        /\ Len(Tail(order)) = Len(order) - 1
        /\ \A q \in 1..(Len(order) - 1) : Tail(order)[q] = order[q + 1]
    BY <1>0, <2>2
  <2>5. TypeOK'
    <3>1. order' \in Seq(Traces)
      BY <1>0, <2>1, <2>4
    <3>2. buffer' \in [Traces -> SUBSET Spans]
      BY <1>0, <2>1
    <3>3. armed' \in [Traces -> BOOLEAN] /\ decided' \in [Traces -> Decisions \cup {"none"}]
      BY <1>0, <2>1 DEF TypeOK, Decisions
    <3>4. rejected' \in SUBSET Spans /\ unsent' \in SUBSET Spans
      BY <1>0, <2>1, <2>2 DEF TypeOK
    <3> QED
      BY <2>1, <3>1, <3>2, <3>3, <3>4 DEF TypeOK, stopVars
  <2>6. /\ without \in [Traces -> SUBSET Spans]
        /\ without[t] = {}
        /\ buffer' = [without EXCEPT ![t] = {s}]
    BY <1>0, <2>1, <2>2, <2>3
  <2>7. BufferBounded'
    <3>1. \A q \in 1..(Len(order) - 1) :
             Tail(order)[q] = IF q < 1 THEN order[q] ELSE order[q + 1]
      BY <1>0, <2>4
    <3>2. Lists(Tail(order), [buffer EXCEPT ![order[1]] = {}])
      BY <1>0, <2>2, <2>4, <3>1, ListsWithout
    <3>3. Lists(Tail(order), without)
      BY <2>2, <3>2
    <3> HIDE DEF without
    <3>4. Lists(Append(Tail(order), t), [without EXCEPT ![t] = {s}])
      BY <1>0, <2>4, <2>6, <3>3, ListsWith
    <3>5. Lists(order', buffer')
      BY <2>1, <2>6, <3>4
    <3>6. Len(order') <= MaxSize
      BY <1>0, <2>1, <2>4
    <3> QED
      BY <3>5, <3>6 DEF BufferBounded, Lists
  <2>8. /\ \A u \in Traces : u # t /\ u # oldest => buffer'[u] = buffer[u]
        /\ buffer'[t] = {s} /\ buffer'[oldest] = {}
    BY <1>0, <2>1, <2>2, <2>3
  <2>9. Pure'
    <3>1. \A u \in Traces : \A x \in buffer'[u] : traceOf[x] = u
      <4> SUFFICES ASSUME NEW u \in Traces, NEW x \in buffer'[u] PROVE traceOf[x] = u
        OBVIOUS
      <4>1. CASE u = t
        BY <2>8, <4>1
      <4>2. CASE u # t
        BY <2>8, <4>2 DEF Pure
      <4> QED
        BY <4>1, <4>2
    <3> QED
      BY <2>1, <3>1 DEF Pure
  <2>10. \A x : x \in Buffer' <=> x = s \/ (x \in Buffer /\ x \notin buffer[oldest])
    <3>1. ASSUME NEW u \in Traces, u # oldest, NEW x \in buffer[u] PROVE x \notin buffer[oldest]
      <4>1. traceOf[x] = u
        BY <3>1 DEF Pure
      <4>2. x \in buffer[oldest] => traceOf[x] = oldest
        BY <2>2 DEF Pure
      <4> QED
        BY <3>1, <4>1, <4>2
    <3>2. ASSUME NEW x \in Buffer' PROVE x = s \/ (x \in Buffer /\ x \notin buffer[oldest])
      <4>1. PICK u \in Traces : x \in buffer'[u]
        BY <3>2 DEF Buffer
      <4> QED
        BY <2>8, <3>1, <4>1 DEF Buffer
    <3>3. s \in Buffer'
      BY <1>0, <2>8 DEF Buffer
    <3>4. ASSUME NEW x \in Buffer, x \notin buffer[oldest] PROVE x \in Buffer'
      <4>1. PICK u \in Traces : x \in buffer[u]
        BY DEF Buffer
      <4>2. buffer'[u] = buffer[u]
        BY <2>1, <2>8, <3>4, <4>1
      <4> QED
        BY <4>1, <4>2 DEF Buffer
    <3> QED
      BY <3>2, <3>3, <3>4
  <2>11. buffer[oldest] \subseteq Buffer
    BY <2>2 DEF Buffer
  <2>12. SpansOf(evals)' = SpansOf(evals) /\ SpansOf(verdicts)' = SpansOf(verdicts)
    BY <2>1 DEF SpansOf
  <2>13. ExactlyOnce'
    <3>1. UNCHANGED <<evals, verdicts, accepted, InFlight>>
      BY <2>1, <2>12 DEF InFlight
    <3>2. Settled' = Settled \cup buffer[oldest]
      BY <2>1 DEF Settled
    <3>3. \A b, c \in evals : b # c => b.spans \cap c.spans = {}
      BY DEF ExactlyOnce
    <3>4. \A b, c \in verdicts : b # c => b.spans \cap c.spans = {}
      BY DEF ExactlyOnce
    <3>5. \A x \in Spans : x \in (unsent \cup Buffer \cup InFlight \cup Settled)'
      BY <2>1, <2>10, <3>1, <3>2 DEF ExactlyOnce
    <3>6. (unsent \cap (Buffer \cup InFlight \cup Settled) = {})'
      BY <2>1, <2>10, <2>11, <3>1, <3>2 DEF ExactlyOnce
    <3>7. (Buffer \cap (InFlight \cup Settled) = {})'
      BY <2>1, <2>10, <2>11, <3>1, <3>2 DEF ExactlyOnce
    <3>8. (InFlight \cap Settled = {} /\ accepted \cap rejected = {})'
      BY <2>1, <2>11, <3>1, <3>2 DEF ExactlyOnce, Settled
    <3>9. (SpansOf(evals) \cap SpansOf(verdicts) = {})'
      BY <2>12 DEF ExactlyOnce
    <3> QED
      BY <3>1, <3>3, <3>4, <3>5, <3>6, <3>7, <3>8, <3>9 DEF ExactlyOnce
  <2>14. NoStrandedTrace'
    <3>1. armed'[t] /\ \A u \in Traces : u # t /\ u # oldest => armed'[u] = armed[u]
      BY <1>0, <2>1, <2>2 DEF TypeOK
    <3> QED
      BY <2>1, <2>8, <3>1 DEF NoStrandedTrace, stopVars
  <2>15. ErrorsNotVotedDown'
    BY <2>1 DEF ErrorsNotVotedDown
  <2> QED
    BY <2>5, <2>7, <2>9, <2>13, <2>14, <2>15
<1> QED
  BY <1>1, <1>2, <1>3, <1>4 DEF AddSpan

-----------------------------------------------------------------------------
(* A decision moves one batch from the evaluations to the verdicts.        *)
LEMMA DecideKeepsInv ==
  ASSUME Inv, NEW e \in evals, Decide(e)
  PROVE  Inv'
<1> USE DEF Inv
<1> DEFINE v == Verdict(e.trace, e.spans)
           nv == [trace |-> e.trace, spans |-> e.spans, by |-> e.by, verdict |-> v]
<1>1. /\ evals' = evals \ {e}
      /\ RecordDecision(e.trace, v)
      /\ verdicts' = verdicts \cup {nv}
      /\ UNCHANGED <<unsent, buffer, order, timerVars, outVars, stopVars>>
  BY DEF Decide
<1>2. /\ v \in Decisions
      /\ Len(Policies) > 0 /\ Policies[1] = "error" /\ (\E s \in e.spans : isError[s]) => v = "keep"
  BY VerdictProperties
<1> HIDE DEF v
<1>3. e.trace \in Traces /\ e.spans \in SUBSET Spans /\ e.by \in Callers
  BY DEF TypeOK, Batches
<1>4. nv \in Verdicts /\ nv.trace = e.trace /\ nv.spans = e.spans /\ nv.verdict = v
  BY <1>2, <1>3 DEF Verdicts
<1> HIDE DEF nv
<1>5. decided' \in [Traces -> Decisions \cup {"none"}]
  <2>1. [decided EXCEPT ![e.trace] = v] \in [Traces -> Decisions \cup {"none"}]
    BY <1>2, <1>3 DEF TypeOK
  <2>2. [u \in Traces |-> IF u = e.trace THEN v ELSE "none"] \in [Traces -> Decisions \cup {"none"}]
    BY <1>2
  <2>3. \/ decided' = [decided EXCEPT ![e.trace] = v]
        \/ decided' = [u \in Traces |-> IF u = e.trace THEN v ELSE "none"]
    BY <1>1 DEF RecordDecision
  <2> QED
    BY <2>1, <2>2, <2>3
<1>6. TypeOK'
  BY <1>1, <1>4, <1>5 DEF TypeOK, timerVars, outVars, stopVars
<1>7. Pure'
  BY <1>1, <1>4 DEF Pure
<1>8. e.spans \subseteq SpansOf(evals)
  BY DEF SpansOf
<1>9. SpansOf(evals)' = SpansOf(evals) \ e.spans
  <2>1. \A c \in evals : c # e => c.spans \cap e.spans = {}
    BY DEF ExactlyOnce
  <2> QED
    BY <1>1, <2>1 DEF SpansOf
<1>10. SpansOf(verdicts)' = SpansOf(verdicts) \cup e.spans
  BY <1>1, <1>4 DEF SpansOf
<1>11. \A b \in verdicts : b.spans \cap nv.spans = {}
  <2>1. \A b \in verdicts : b.spans \subseteq SpansOf(verdicts)
    BY DEF SpansOf
  <2> QED
    BY <1>4, <1>8, <2>1 DEF ExactlyOnce
<1>12. \A b, c \in verdicts' : b # c => b.spans \cap c.spans = {}
  BY <1>1, <1>11 DEF ExactlyOnce
<1>13. \A b, c \in evals' : b # c => b.spans \cap c.spans = {}
  BY <1>1 DEF ExactlyOnce
<1>14. Buffer' = Buffer /\ Settled' = Settled
  BY <1>1 DEF Buffer, Settled, outVars
<1>15. InFlight' = InFlight
  BY <1>8, <1>9, <1>10 DEF InFlight
<1>16. ExactlyOnce'
  <2>1. (SpansOf(evals) \cap SpansOf(verdicts) = {})'
    BY <1>9, <1>10 DEF ExactlyOnce
  <2> QED
    BY <1>1, <1>12, <1>13, <1>14, <1>15, <2>1 DEF ExactlyOnce, outVars
<1>17. BufferBounded' /\ NoStrandedTrace'
  BY <1>1 DEF BufferBounded, NoStrandedTrace, timerVars, stopVars
<1>18. ErrorsNotVotedDown'
  <2>1. Len(Policies) > 0 /\ Policies[1] = "error" /\ nv.verdict = "drop" =>
           \A s \in nv.spans : ~isError[s]
    BY <1>2, <1>4
  <2> QED
    BY <1>1, <2>1 DEF ErrorsNotVotedDown
<1> QED
  BY <1>6, <1>7, <1>16, <1>17, <1>18

(* accept or reject settles the spans of one batch.                        *)
LEMMA ApplyKeepsInv ==
  ASSUME Inv, NEW v \in verdicts, Apply(v)
  PROVE  Inv'
<1> USE DEF Inv
<1>1. /\ verdicts' = verdicts \ {v}
      /\ \/ accepted' = accepted \cup v.spans /\ rejected' = rejected
         \/ rejected' = rejected \cup v.spans /\ accepted' = accepted
      /\ UNCHANGED <<unsent, buffer, order, decided, timerVars, evals, stopVars>>
  BY DEF Apply
<1>2. v.spans \in SUBSET Spans
  BY DEF TypeOK, Verdicts
<1>3. TypeOK'
  BY <1>1, <1>2 DEF TypeOK, timerVars, stopVars
<1>4. v.spans \subseteq SpansOf(verdicts)
  BY DEF SpansOf
<1>5. SpansOf(verdicts)' = SpansOf(verdicts) \ v.spans
  <2>1. \A c \in verdicts : c # v => c.spans \cap v.spans = {}
    BY DEF ExactlyOnce
  <2> QED
    BY <1>1, <2>1 DEF SpansOf
<1>6. SpansOf(evals)' = SpansOf(evals) /\ Buffer' = Buffer
  BY <1>1 DEF SpansOf, Buffer
<1>7. Settled' = Settled \cup v.spans
  BY <1>1 DEF Settled
<1>8. InFlight' = InFlight \ v.spans /\ v.spans \subseteq InFlight
  BY <1>4, <1>5, <1>6 DEF ExactlyOnce, InFlight
<1>9. (accepted \cap rejected = {})'
  BY <1>1, <1>8 DEF ExactlyOnce, Settled
<1>10. (SpansOf(evals) \cap SpansOf(verdicts) = {})'
  BY <1>5, <1>6 DEF ExactlyOnce
<1>11. \A b, c \in verdicts' : b # c => b.spans \cap c.spans = {}
  BY <1>1 DEF ExactlyOnce
<1>12. \A b, c \in evals' : b # c => b.spans \cap c.spans = {}
  BY <1>1 DEF ExactlyOnce
<1>13. ExactlyOnce'
  BY <1>1, <1>6, <1>7, <1>8, <1>9, <1>10, <1>11, <1>12 DEF ExactlyOnce
<1>14. Pure' /\ BufferBounded' /\ NoStrandedTrace' /\ ErrorsNotVotedDown'
  BY <1>1 DEF Pure, BufferBounded, NoStrandedTrace, ErrorsNotVotedDown, timerVars, stopVars
<1> QED
  BY <1>3, <1>13, <1>14

-----------------------------------------------------------------------------
(* Every step of the tail sampler preserves the inductive invariant.       *)
LEMMA NextInv == Inv /\ [Next]_vars => Inv'
<1> SUFFICES ASSUME Inv, [Next]_vars PROVE Inv'
  OBVIOUS
<1> USE DEF Inv
<1>1. ASSUME NEW t \in Traces, TimerFires(t) \/ OrphanFires(t) PROVE Inv'
  <2>1. UNCHANGED <<unsent, buffer, order, decided, evals, verdicts, outVars, stopVars>>
    BY <1>1 DEF TimerFires, OrphanFires
  <2>2. TypeOK'
    <3>1. CASE TimerFires(t)
      BY <2>1, <3>1 DEF TimerFires, TypeOK, outVars, stopVars
    <3>2. CASE OrphanFires(t)
      BY <2>1, <3>2 DEF OrphanFires, TypeOK, outVars, stopVars
    <3> QED
      BY <1>1, <3>1, <3>2
  <2>3. NoStrandedTrace'
    <3>1. CASE TimerFires(t)
      BY <2>1, <3>1 DEF TimerFires, NoStrandedTrace, TypeOK, stopVars
    <3>2. CASE OrphanFires(t)
      <4>1. \A u \in Traces : armed'[u] = armed[u] /\ (fired[u] > 0 => fired'[u] > 0)
        BY <3>2 DEF OrphanFires, TypeOK
      <4> QED
        BY <2>1, <4>1 DEF NoStrandedTrace, stopVars
    <3> QED
      BY <1>1, <3>1, <3>2
  <2>4. Pure' /\ BufferBounded' /\ ErrorsNotVotedDown'
    BY <2>1 DEF Pure, BufferBounded, ErrorsNotVotedDown
  <2>5. ExactlyOnce'
    BY <2>1 DEF ExactlyOnce, Buffer, InFlight, Settled, SpansOf, outVars
  <2> QED
    BY <2>2, <2>3, <2>4, <2>5
<1>2. ASSUME NEW t \in Traces, TimerEvaluates(t) PROVE Inv'
  <2>1. /\ fired[t] > 0
        /\ fired' = [fired EXCEPT ![t] = @ - 1]
        /\ TakeBuffer(t, "timer")
        /\ UNCHANGED <<unsent, decided, verdicts, outVars, stopVars>>
    BY <1>2 DEF TimerEvaluates
  <2>2. /\ Pure' /\ ExactlyOnce' /\ BufferBounded'
        /\ buffer' = [buffer EXCEPT ![t] = {}]
        /\ buffer' \in [Traces -> SUBSET Spans]
        /\ order' \in Seq(Traces)
        /\ armed' \in [Traces -> BOOLEAN]
        /\ \A u \in Traces \ {t} : armed'[u] = armed[u]
        /\ orphaned' \in [Traces -> Nat]
        /\ evals' \in SUBSET Batches
    BY <2>1, TakeMoves DEF Callers, outVars
  <2>3. TypeOK'
    BY <2>1, <2>2 DEF TypeOK, outVars, stopVars
  <2>4. NoStrandedTrace'
    BY <2>1, <2>2 DEF NoStrandedTrace, TypeOK, stopVars
  <2>5. ErrorsNotVotedDown'
    BY <2>1 DEF ErrorsNotVotedDown
  <2> QED
    BY <2>2, <2>3, <2>4, <2>5
<1>3. CASE StopBegin
  <2>1. /\ stopPc' = "flush"
        /\ stopIds' = {t \in Traces : buffer[t] # {}}
        /\ armed' = [t \in Traces |-> FALSE]
        /\ UNCHANGED <<unsent, buffer, order, decided, orphaned, fired, evals, verdicts, outVars>>
    BY <1>3 DEF StopBegin
  <2>2. TypeOK'
    BY <2>1 DEF TypeOK, outVars
  <2>3. NoStrandedTrace'
    BY <2>1 DEF NoStrandedTrace
  <2>4. Pure' /\ BufferBounded' /\ ErrorsNotVotedDown'
    BY <2>1 DEF Pure, BufferBounded, ErrorsNotVotedDown
  <2>5. ExactlyOnce'
    BY <2>1 DEF ExactlyOnce, Buffer, InFlight, Settled, SpansOf, outVars
  <2> QED
    BY <2>2, <2>3, <2>4, <2>5
<1>4. ASSUME NEW t \in Traces, StopEvaluates(t) PROVE Inv'
  <2>1. /\ stopIds' = stopIds \ {t}
        /\ TakeBuffer(t, "stop")
        /\ UNCHANGED <<unsent, decided, fired, verdicts, outVars, stopPc>>
    BY <1>4 DEF StopEvaluates
  <2>2. /\ Pure' /\ ExactlyOnce' /\ BufferBounded'
        /\ buffer' = [buffer EXCEPT ![t] = {}]
        /\ buffer' \in [Traces -> SUBSET Spans]
        /\ order' \in Seq(Traces)
        /\ armed' \in [Traces -> BOOLEAN]
        /\ \A u \in Traces \ {t} : armed'[u] = armed[u]
        /\ orphaned' \in [Traces -> Nat]
        /\ evals' \in SUBSET Batches
    BY <2>1, TakeMoves DEF Callers, outVars
  <2>3. TypeOK'
    BY <2>1, <2>2 DEF TypeOK, outVars
  <2>4. NoStrandedTrace'
    <3> SUFFICES ASSUME NEW u \in Traces, buffer'[u] # {}
                 PROVE  armed'[u] \/ fired'[u] > 0 \/ (stopPc' = "flush" /\ u \in stopIds')
      BY DEF NoStrandedTrace
    <3>1. u # t /\ buffer[u] # {}
      BY <2>2 DEF TypeOK
    <3>2. armed[u] \/ fired[u] > 0 \/ (stopPc = "flush" /\ u \in stopIds)
      BY <3>1 DEF NoStrandedTrace
    <3> QED
      BY <2>1, <2>2, <3>1, <3>2
  <2>5. ErrorsNotVotedDown'
    BY <2>1 DEF ErrorsNotVotedDown
  <2> QED
    BY <2>2, <2>3, <2>4, <2>5
<1>5. CASE StopReturns
  <2>1. /\ stopIds = {} /\ stopPc' = "done"
        /\ UNCHANGED <<unsent, buffer, order, decided, timerVars, evals, verdicts, outVars, stopIds>>
    BY <1>5 DEF StopReturns
  <2>2. TypeOK'
    BY <2>1 DEF TypeOK, timerVars, outVars
  <2>3. Pure' /\ BufferBounded' /\ NoStrandedTrace' /\ ErrorsNotVotedDown'
    BY <2>1 DEF Pure, BufferBounded, NoStrandedTrace, ErrorsNotVotedDown, timerVars
  <2>4. ExactlyOnce'
    BY <2>1 DEF ExactlyOnce, Buffer, InFlight, Settled, SpansOf, outVars
  <2> QED
    BY <2>2, <2>3, <2>4
<1>6. CASE UNCHANGED vars
  <2>1. TypeOK' /\ Pure' /\ BufferBounded' /\ NoStrandedTrace' /\ ErrorsNotVotedDown'
    BY <1>6 DEF vars, timerVars, outVars, stopVars, TypeOK, Pure, BufferBounded,
                NoStrandedTrace, ErrorsNotVotedDown
  <2>2. ExactlyOnce'
    BY <1>6 DEF vars, outVars, ExactlyOnce, Buffer, InFlight, Settled, SpansOf
  <2> QED
    BY <2>1, <2>2
<1> HIDE DEF Inv
<1> QED
  BY <1>1, <1>2, <1>3, <1>4, <1>5, <1>6, AddSpanKeepsInv, DecideKeepsInv, ApplyKeepsInv
     DEF Next, FinishEvaluation, StopStep

(* The inductive invariant holds in every reachable state.                 *)
LEMMA SpecInv == Spec => []Inv
  BY InitInv, NextInv, PTL DEF Spec

-----------------------------------------------------------------------------
(* The state of the tail sampler always has its type.                      *)
THEOREM TypeCorrect == Spec => []TypeOK
<1>1. Inv => TypeOK
  BY DEF Inv
<1> QED
  BY <1>1, SpecInv, PTL

(* However AddSpan, evictions, timers, late timer goroutines, evaluations  *)
(* and Stop interleave, a span is accepted or rejected, never both, never  *)
(* twice, and none is lost on the way.                                     *)
THEOREM OneVerdictPerSpan == Spec => []ExactlyOnce
<1>1. Inv => ExactlyOnce
  BY DEF Inv
<1> QED
  BY <1>1, SpecInv, PTL

(* s.buffer never has more than maxSize entries, for every maxSize, and    *)
(* the ids evictOldestLocked chooses from are its keys.                    *)
THEOREM BufferStaysBounded == Spec => []BufferBounded
<1>1. Inv => BufferBounded
  BY DEF Inv
<1> QED
  BY <1>1, SpecInv, PTL

(* A buffered trace always has something that will evaluate it.            *)
THEOREM NeverStranded == Spec => []NoStrandedTrace
<1>1. Inv => NoStrandedTrace
  BY DEF Inv
<1> QED
  BY <1>1, SpecInv, PTL

(* For every list of policies that begins with the error policy, no        *)
(* evaluation votes an error span down.                                    *)
THEOREM ErrorsAreKept == Spec => []ErrorsNotVotedDown
<1>1. Inv => ErrorsNotVotedDown
  BY DEF Inv
<1> QED
  BY <1>1, SpecInv, PTL

=============================================================================
