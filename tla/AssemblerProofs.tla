--------------------------- MODULE AssemblerProofs ---------------------------
(***************************************************************************)
(* Proofs about Assembler.tla for every set of traces and spans.           *)
(*                                                                         *)
(* Inv is inductive.  ExactlyOnce needs two facts that it does not state:  *)
(* an entry holds spans of its own trace only, so the entries are pairwise *)
(* disjoint (Pure), and no batch is empty, so a batch taken anew differs   *)
(* from every batch there is.  StopFlushes needs to know where the spans   *)
(* Stop saw can still be pending (StopCovers).                             *)
(***************************************************************************)
EXTENDS Assembler, TLAPS

(* The entries and the batches are of one trace each, batches not empty.   *)
Pure ==
    /\ \A t \in Traces : \A s \in pending[t] : traceOf[s] = t
    /\ \A b \in building \cup HandedOn :
          b.spans # {} /\ \A s \in b.spans : traceOf[s] = b.trace

(* A span Stop saw in a.pending is still there only if Stop has yet to     *)
(* finalize its trace.                                                     *)
StopCovers ==
    /\ stopSpans \cap unsent = {}
    /\ stopPc = "idle" => stopSpans = {}
    /\ \A t \in Traces : \A s \in stopSpans \cap pending[t] :
          stopPc = "flush" /\ t \in stopIds

Inv == TypeOK /\ Pure /\ ExactlyOnce /\ NoStrandedEntry /\ StopCovers

-----------------------------------------------------------------------------
(* The initial state satisfies the inductive invariant.                    *)
LEMMA InitInv == Init => Inv
<1> SUFFICES ASSUME Init PROVE Inv
  OBVIOUS
<1> USE TraceOfType DEF Init
<1>1. TypeOK
  BY DEF TypeOK, Batches
<1>2. Pure
  BY DEF Pure, HandedOn
<1>3. ExactlyOnce
  BY DEF ExactlyOnce, Pending, SpansOf, HandedOn
<1>4. NoStrandedEntry
  BY DEF NoStrandedEntry
<1>5. StopCovers
  BY DEF StopCovers
<1> QED
  BY <1>1, <1>2, <1>3, <1>4, <1>5 DEF Inv

(* Taking a batch out of a.pending moves the spans of one entry, whole,    *)
(* from pending to building, and leaves the other entries alone.           *)
LEMMA TakeMoves ==
  ASSUME Inv, NEW t \in Traces, NEW caller \in {"timer", "stop"},
         TakePending(t, caller),
         unsent' = unsent, completed' = completed, panicked' = panicked
  PROVE  /\ Pure' /\ ExactlyOnce'
         /\ pending' = [pending EXCEPT ![t] = {}]
         /\ pending' \in [Traces -> SUBSET Spans]
         /\ armed' \in [Traces -> BOOLEAN]
         /\ \A u \in Traces \ {t} : armed'[u] = armed[u]
         /\ orphaned' \in [Traces -> Nat]
         /\ building' \in SUBSET Batches
         /\ (Pending \cup SpansOf(building))' = Pending \cup SpansOf(building)
<1> USE DEF Inv
<1>1. CASE pending[t] = {}
  <2>1. UNCHANGED <<pending, armed, orphaned, building>>
    BY <1>1 DEF TakePending
  <2>2. pending = [pending EXCEPT ![t] = {}]
    BY <1>1 DEF TypeOK
  <2> QED
    BY <2>1, <2>2 DEF TypeOK, Pure, ExactlyOnce, Pending, SpansOf, HandedOn
<1>2. CASE pending[t] # {}
  <2> DEFINE nb == [trace |-> t, spans |-> pending[t], by |-> caller]
  <2>1. /\ building' = building \cup {nb}
        /\ pending' = [pending EXCEPT ![t] = {}]
        /\ armed' = [armed EXCEPT ![t] = FALSE]
        /\ orphaned' = [orphaned EXCEPT ![t] = IF armed[t] THEN @ + 1 ELSE @]
    BY <1>2 DEF TakePending
  <2>2. /\ pending' \in [Traces -> SUBSET Spans]
        /\ armed' \in [Traces -> BOOLEAN]
        /\ orphaned' \in [Traces -> Nat]
    BY <2>1 DEF TypeOK
  <2>3. nb \in Batches /\ nb.spans = pending[t] /\ nb.trace = t
    BY DEF TypeOK, Batches
  <2>4. building' \in SUBSET Batches
    BY <2>1, <2>3 DEF TypeOK
  <2>5. Pending = pending[t] \cup Pending' /\ pending[t] \cap Pending' = {}
    <3>1. \A u \in Traces : u # t => pending'[u] = pending[u]
      BY <2>1 DEF TypeOK
    <3>2. pending'[t] = {}
      BY <2>1 DEF TypeOK
    <3>3. Pending = pending[t] \cup Pending'
      BY <3>1, <3>2 DEF Pending
    <3>4. \A u \in Traces : u # t => pending[t] \cap pending[u] = {}
      BY DEF Pure
    <3>5. \A x \in Pending' : x \notin pending[t]
      BY <3>1, <3>2, <3>4 DEF Pending
    <3> QED
      BY <3>3, <3>5
  <2>6. SpansOf(building)' = SpansOf(building) \cup pending[t]
    BY <2>1, <2>3 DEF SpansOf
  <2>7. HandedOn' = HandedOn /\ SpansOf(HandedOn)' = SpansOf(HandedOn)
    BY DEF HandedOn, SpansOf
  <2>8. Pure'
    BY <1>2, <2>1, <2>3, <2>7 DEF Pure, TypeOK
  <2>9. \A b \in building \cup HandedOn : b.spans \cap nb.spans = {}
    <3>1. \A b \in building \cup HandedOn :
             b.spans \subseteq SpansOf(building) \cup SpansOf(HandedOn)
      BY DEF SpansOf
    <3>2. pending[t] \subseteq Pending
      BY DEF Pending
    <3> QED
      BY <3>1, <3>2, <2>3 DEF ExactlyOnce
  <2>10. \A b, c \in (building \cup HandedOn)' : b # c => b.spans \cap c.spans = {}
    BY <2>1, <2>7, <2>9 DEF ExactlyOnce
  <2>11. ExactlyOnce'
    BY <2>5, <2>6, <2>7, <2>10 DEF ExactlyOnce
  <2>12. (Pending \cup SpansOf(building))' = Pending \cup SpansOf(building)
    BY <2>5, <2>6
  <2> QED
    BY <2>1, <2>2, <2>4, <2>8, <2>11, <2>12 DEF TypeOK
<1> QED
  BY <1>1, <1>2

(* Moving one batch from building to the batches handed on.                *)
LEMMA HandOnMoves ==
  ASSUME Inv, NEW b \in building, building' = building \ {b},
         HandedOn' = HandedOn \cup {b},
         unsent' = unsent, pending' = pending
  PROVE  /\ Pure' /\ ExactlyOnce'
         /\ Pending' = Pending
         /\ SpansOf(building)' = SpansOf(building) \ b.spans
         /\ b.spans \subseteq SpansOf(building)
         /\ SpansOf(HandedOn)' = SpansOf(HandedOn) \cup b.spans
<1> USE DEF Inv
<1>1. (building \cup HandedOn)' = building \cup HandedOn
  OBVIOUS
<1>2. Pending' = Pending
  BY DEF Pending
<1>3. \A c \in building : c # b => c.spans \cap b.spans = {}
  BY DEF ExactlyOnce
<1>4. SpansOf(building)' = SpansOf(building) \ b.spans
  BY <1>3 DEF SpansOf
<1>5. b.spans \subseteq SpansOf(building)
  BY DEF SpansOf
<1>6. SpansOf(HandedOn)' = SpansOf(HandedOn) \cup b.spans
  BY DEF SpansOf
<1>7. Pure'
  BY <1>1 DEF Pure
<1>8. ExactlyOnce'
  <2>1. \A x, y \in (building \cup HandedOn)' : x # y => x.spans \cap y.spans = {}
    BY <1>1 DEF ExactlyOnce
  <2> QED
    BY <1>2, <1>4, <1>5, <1>6, <2>1 DEF ExactlyOnce
<1> QED
  BY <1>2, <1>4, <1>5, <1>6, <1>7, <1>8

-----------------------------------------------------------------------------
(* Every step of the assembler preserves the inductive invariant.          *)
LEMMA NextInv == Inv /\ [Next]_vars => Inv'
<1> SUFFICES ASSUME Inv, [Next]_vars PROVE Inv'
  OBVIOUS
<1> USE TraceOfType DEF Inv
<1>1. ASSUME NEW s \in Spans, AddSpan(s) PROVE Inv'
  <2> DEFINE t == traceOf[s]
  <2>0. t \in Traces
    OBVIOUS
  <2>1. /\ s \in unsent
        /\ unsent' = unsent \ {s}
        /\ pending' = [pending EXCEPT ![t] = @ \cup {s}]
        /\ armed' = [armed EXCEPT ![t] = TRUE]
        /\ UNCHANGED <<orphaned, fired, batchVars, stopVars>>
    BY <1>1 DEF AddSpan
  <2>2. TypeOK'
    BY <2>0, <2>1 DEF TypeOK, batchVars, stopVars
  <2>3. Pending' = Pending \cup {s}
    BY <2>0, <2>1 DEF TypeOK, Pending
  <2>4. HandedOn' = HandedOn /\ building' = building
    BY <2>1 DEF HandedOn, batchVars
  <2>5. Pure'
    BY <2>0, <2>1, <2>4 DEF Pure, TypeOK
  <2>6. ExactlyOnce'
    BY <2>1, <2>3, <2>4 DEF ExactlyOnce, SpansOf
  <2>7. NoStrandedEntry'
    BY <2>0, <2>1 DEF NoStrandedEntry, TypeOK, stopVars
  <2>8. StopCovers'
    BY <2>0, <2>1 DEF StopCovers, TypeOK, stopVars
  <2> QED
    BY <2>2, <2>5, <2>6, <2>7, <2>8
<1>2. ASSUME NEW t \in Traces, TimerFires(t) \/ OrphanFires(t) PROVE Inv'
  <2>1. UNCHANGED <<unsent, pending, batchVars, stopVars>>
    BY <1>2 DEF TimerFires, OrphanFires
  <2>2. TypeOK'
    <3>1. CASE TimerFires(t)
      BY <3>1 DEF TimerFires, TypeOK, batchVars, stopVars
    <3>2. CASE OrphanFires(t)
      BY <3>2 DEF OrphanFires, TypeOK, batchVars, stopVars
    <3> QED
      BY <1>2, <3>1, <3>2
  <2>3. NoStrandedEntry'
    BY <1>2, <2>1 DEF TimerFires, OrphanFires, NoStrandedEntry, TypeOK, stopVars
  <2> QED
    BY <2>1, <2>2, <2>3 DEF Pure, ExactlyOnce, StopCovers, Pending, SpansOf,
                            HandedOn, batchVars, stopVars
<1>3. ASSUME NEW t \in Traces, TimerFinalize(t) PROVE Inv'
  <2>1. /\ fired[t] > 0
        /\ fired' = [fired EXCEPT ![t] = @ - 1]
        /\ TakePending(t, "timer")
        /\ UNCHANGED <<unsent, completed, panicked, stopVars>>
    BY <1>3 DEF TimerFinalize
  <2>2. /\ Pure' /\ ExactlyOnce'
        /\ pending' = [pending EXCEPT ![t] = {}]
        /\ pending' \in [Traces -> SUBSET Spans]
        /\ armed' \in [Traces -> BOOLEAN]
        /\ \A u \in Traces \ {t} : armed'[u] = armed[u]
        /\ orphaned' \in [Traces -> Nat]
        /\ building' \in SUBSET Batches
    BY <2>1, TakeMoves
  <2>3. TypeOK'
    BY <2>1, <2>2 DEF TypeOK, stopVars
  <2>4. NoStrandedEntry'
    BY <2>1, <2>2 DEF NoStrandedEntry, TypeOK, stopVars
  <2>5. StopCovers'
    BY <2>1, <2>2 DEF StopCovers, TypeOK, stopVars
  <2> QED
    BY <2>2, <2>3, <2>4, <2>5
<1>4. ASSUME NEW b \in building, Complete(b) \/ CompletePanics(b) PROVE Inv'
  <2>1. /\ building' = building \ {b}
        /\ HandedOn' = HandedOn \cup {b}
        /\ UNCHANGED <<unsent, pending, timerVars, stopVars>>
    BY <1>4 DEF Complete, CompletePanics, HandedOn
  <2>2. Pure' /\ ExactlyOnce'
    BY <2>1, HandOnMoves
  <2>3. TypeOK'
    BY <1>4, <2>1 DEF TypeOK, Complete, CompletePanics, timerVars, stopVars
  <2>4. NoStrandedEntry' /\ StopCovers'
    BY <2>1 DEF NoStrandedEntry, StopCovers, timerVars, stopVars
  <2> QED
    BY <2>2, <2>3, <2>4
<1>5. CASE StopBegin
  <2>1. /\ stopPc = "idle"
        /\ stopPc' = "flush"
        /\ stopIds' = {t \in Traces : pending[t] # {}}
        /\ stopSpans' = Pending
        /\ armed' = [t \in Traces |-> FALSE]
        /\ UNCHANGED <<unsent, pending, orphaned, fired, batchVars>>
    BY <1>5 DEF StopBegin, Pending
  <2>2. TypeOK'
    BY <2>1 DEF TypeOK, batchVars, Pending
  <2>3. Pure' /\ ExactlyOnce'
    BY <2>1 DEF Pure, ExactlyOnce, Pending, SpansOf, HandedOn, batchVars
  <2>4. NoStrandedEntry'
    BY <2>1 DEF NoStrandedEntry
  <2>5. StopCovers'
    BY <2>1 DEF StopCovers, ExactlyOnce
  <2> QED
    BY <2>2, <2>3, <2>4, <2>5
<1>6. ASSUME NEW t \in Traces, StopFinalize(t) PROVE Inv'
  <2>1. /\ stopPc = "flush"
        /\ t \in stopIds
        /\ stopIds' = stopIds \ {t}
        /\ TakePending(t, "stop")
        /\ UNCHANGED <<unsent, fired, completed, panicked, stopPc, stopSpans>>
    BY <1>6 DEF StopFinalize
  <2>2. /\ Pure' /\ ExactlyOnce'
        /\ pending' = [pending EXCEPT ![t] = {}]
        /\ pending' \in [Traces -> SUBSET Spans]
        /\ armed' \in [Traces -> BOOLEAN]
        /\ \A u \in Traces \ {t} : armed'[u] = armed[u]
        /\ orphaned' \in [Traces -> Nat]
        /\ building' \in SUBSET Batches
    BY <2>1, TakeMoves
  <2>3. TypeOK'
    BY <2>1, <2>2 DEF TypeOK
  <2>4. NoStrandedEntry'
    BY <2>1, <2>2 DEF NoStrandedEntry, TypeOK
  <2>5. StopCovers'
    BY <2>1, <2>2 DEF StopCovers, TypeOK
  <2> QED
    BY <2>2, <2>3, <2>4, <2>5
<1>7. CASE StopReturns
  <2>1. /\ stopIds = {} /\ stopPc = "flush" /\ stopPc' = "done"
        /\ UNCHANGED <<unsent, pending, timerVars, batchVars, stopIds, stopSpans>>
    BY <1>7 DEF StopReturns
  <2>2. TypeOK'
    BY <2>1 DEF TypeOK, timerVars, batchVars
  <2>3. Pure' /\ ExactlyOnce'
    BY <2>1 DEF Pure, ExactlyOnce, Pending, SpansOf, HandedOn, batchVars
  <2>4. NoStrandedEntry' /\ StopCovers'
    BY <2>1 DEF NoStrandedEntry, StopCovers, timerVars
  <2> QED
    BY <2>2, <2>3, <2>4
<1>8. CASE UNCHANGED vars
  BY <1>8 DEF vars, timerVars, batchVars, stopVars, TypeOK, Pure, ExactlyOnce,
              NoStrandedEntry, StopCovers, Pending, SpansOf, HandedOn
<1> QED
  BY <1>1, <1>2, <1>3, <1>4, <1>5, <1>6, <1>7, <1>8
     DEF Next, FinishBuilding, StopStep

(* The inductive invariant holds in every reachable state.                 *)
LEMMA SpecInv == Spec => []Inv
  BY InitInv, NextInv, PTL DEF Spec

-----------------------------------------------------------------------------
(* The state of the assembler always has its type.                         *)
THEOREM TypeCorrect == Spec => []TypeOK
<1>1. Inv => TypeOK
  BY DEF Inv
<1> QED
  BY <1>1, SpecInv, PTL

(* No span is lost or handed on twice, however AddSpan, the timers, late   *)
(* timer goroutines and Stop interleave.                                   *)
THEOREM NoLossNoDuplicate == Spec => []ExactlyOnce
<1>1. Inv => ExactlyOnce
  BY DEF Inv
<1> QED
  BY <1>1, SpecInv, PTL

(* An entry in a.pending always has something that will finalize it.       *)
THEOREM NeverStranded == Spec => []NoStrandedEntry
<1>1. Inv => NoStrandedEntry
  BY DEF Inv
<1> QED
  BY <1>1, SpecInv, PTL

(* Stop returns only when nothing it found pending is pending any more.    *)
THEOREM StopIsComplete == Spec => []StopFlushes
<1>1. Inv => StopFlushes
  BY DEF Inv, StopCovers, StopFlushes, Pending
<1> QED
  BY <1>1, SpecInv, PTL

-----------------------------------------------------------------------------
(* Under the invariant every step of the assembler is a step of the        *)
(* grouping contract or leaves it unchanged.                               *)
LEMMA StepSimulation == Inv /\ [Next]_vars => [Grouping!Next]_(Grouping!vars)
<1> SUFFICES ASSUME Inv, [Next]_vars PROVE [Grouping!Next]_(Grouping!vars)
  OBVIOUS
<1> USE TraceOfType DEF Inv
<1> DEFINE h == Pending \cup SpansOf(building)
           o == {b.spans : b \in HandedOn}
<1>0. UNION o = SpansOf(HandedOn)
  BY DEF SpansOf
<1>1. ASSUME NEW s \in Spans, AddSpan(s) PROVE Grouping!TakeIn(s)
  <2>1. s \in unsent /\ UNCHANGED <<building, completed, panicked>>
    BY <1>1 DEF AddSpan, batchVars
  <2>2. Pending' = Pending \cup {s}
    BY <1>1 DEF AddSpan, TypeOK, Pending
  <2>3. s \notin h \cup UNION o
    BY <1>0, <2>1 DEF ExactlyOnce
  <2>4. h' = h \cup {s} /\ o' = o
    BY <2>1, <2>2 DEF SpansOf, HandedOn
  <2> QED
    BY <2>3, <2>4 DEF Grouping!TakeIn
<1>2. ASSUME NEW t \in Traces, NEW caller \in {"timer", "stop"},
             TakePending(t, caller),
             unsent' = unsent, completed' = completed, panicked' = panicked
      PROVE  UNCHANGED Grouping!vars
  <2>1. h' = h
    BY <1>2, TakeMoves
  <2>2. o' = o
    BY <1>2 DEF HandedOn
  <2> QED
    BY <2>1, <2>2 DEF Grouping!vars
<1>3. ASSUME NEW b \in building, Complete(b) \/ CompletePanics(b)
      PROVE  Grouping!HandOn(b.trace, b.spans) /\ b.trace \in Traces /\ b.spans \in SUBSET Spans
  <2>1. /\ building' = building \ {b}
        /\ HandedOn' = HandedOn \cup {b}
        /\ UNCHANGED <<unsent, pending>>
    BY <1>3 DEF Complete, CompletePanics, HandedOn
  <2>2. /\ Pending' = Pending
        /\ SpansOf(building)' = SpansOf(building) \ b.spans
        /\ b.spans \subseteq SpansOf(building)
    BY <2>1, HandOnMoves
  <2>3. Pending \cap b.spans = {}
    BY <2>2 DEF ExactlyOnce
  <2>4. h' = h \ b.spans
    BY <2>2, <2>3
  <2>5. o' = o \cup {b.spans}
    BY <2>1
  <2>6. b.spans # {} /\ \A s \in b.spans : traceOf[s] = b.trace
    BY DEF Pure
  <2>7. b.trace \in Traces /\ b.spans \in SUBSET Spans
    BY DEF TypeOK, Batches
  <2> QED
    BY <2>2, <2>4, <2>5, <2>6, <2>7 DEF Grouping!HandOn
<1>4. ASSUME NEW t \in Traces, TimerFires(t) \/ OrphanFires(t) PROVE UNCHANGED Grouping!vars
  BY <1>4 DEF TimerFires, OrphanFires, batchVars, Grouping!vars, Pending, SpansOf, HandedOn
<1>5. ASSUME NEW t \in Traces, TimerFinalize(t) \/ StopFinalize(t) PROVE UNCHANGED Grouping!vars
  BY <1>2, <1>5 DEF TimerFinalize, StopFinalize
<1>6. ASSUME StopBegin \/ StopReturns \/ UNCHANGED vars PROVE UNCHANGED Grouping!vars
  BY <1>6 DEF StopBegin, StopReturns, vars, batchVars, Grouping!vars, Pending, SpansOf, HandedOn
<1> QED
  BY <1>1, <1>3, <1>4, <1>5, <1>6
     DEF Next, FinishBuilding, StopStep, Grouping!Next

(* The assembler implements the grouping contract: timers, races and Stop  *)
(* are invisible to a caller that only sees batches of whole entries.      *)
THEOREM Refinement == Spec => ImplementsGrouping
<1>1. Init => Grouping!Init
  BY DEF Init, Grouping!Init, Pending, SpansOf, HandedOn
<1> QED
  BY <1>1, StepSimulation, SpecInv, PTL DEF Spec, ImplementsGrouping, Grouping!Spec

-----------------------------------------------------------------------------
(* Every step of the assembler is the step of the same name of its         *)
(* contract; the timers' own steps leave the contract unchanged.           *)
LEMMA ContractSimulation == [Next]_vars => [Contract!Next]_(Contract!vars)
<1> SUFFICES ASSUME [Next]_vars PROVE [Contract!Next]_(Contract!vars)
  OBVIOUS
<1> USE DEF batchVars, stopVars, Contract!batchVars, Contract!stopVars, Contract!vars
<1>1. ASSUME NEW s \in Spans, AddSpan(s) PROVE Contract!AddSpan(s)
  BY <1>1 DEF AddSpan, Contract!AddSpan
<1>2. ASSUME NEW t \in Traces, TimerFires(t) \/ OrphanFires(t)
      PROVE  UNCHANGED Contract!vars
  BY <1>2 DEF TimerFires, OrphanFires
<1>3. ASSUME NEW t \in Traces, TimerFinalize(t)
      PROVE  Contract!Finalize(t) \/ UNCHANGED Contract!vars
  BY <1>3 DEF TimerFinalize, TakePending, Contract!Finalize, Contract!Take
<1>4. ASSUME NEW b \in building, Complete(b) \/ CompletePanics(b)
      PROVE  Contract!Complete(b) \/ Contract!CompletePanics(b)
  BY <1>4 DEF Complete, CompletePanics, Contract!Complete, Contract!CompletePanics
<1>5. ASSUME NEW t \in Traces, StopFinalize(t) PROVE Contract!StopFinalize(t)
  BY <1>5 DEF StopFinalize, TakePending, StopBuilding,
              Contract!StopFinalize, Contract!Take, Contract!StopBuilding
<1>6. ASSUME StopBegin PROVE Contract!StopBegin
  BY <1>6 DEF StopBegin, Contract!StopBegin
<1>7. ASSUME StopReturns PROVE Contract!StopReturns
  BY <1>7 DEF StopReturns, StopBuilding, Contract!StopReturns, Contract!StopBuilding
<1>8. CASE UNCHANGED vars
  BY <1>8 DEF vars
<1> QED
  BY <1>1, <1>2, <1>3, <1>4, <1>5, <1>6, <1>7, <1>8
     DEF Next, FinishBuilding, StopStep, Contract!Next

(* The assembler with its timers implements the assembler the pipeline is  *)
(* built on.                                                               *)
THEOREM ContractRefinement == Spec => ImplementsContract
<1>1. Init => Contract!Init
  BY DEF Init, Contract!Init
<1> QED
  BY <1>1, ContractSimulation, PTL DEF Spec, ImplementsContract, Contract!Spec

=============================================================================
