---------------------------- MODULE SpanGrouping ----------------------------
(***************************************************************************)
(* What a span-grouping stage promises its caller, with no timers, locks   *)
(* or goroutines in sight.  Spans come in one at a time; the stage holds   *)
(* them and hands them on in batches.  A batch is not empty, holds spans   *)
(* of one trace only, and no span is ever handed on twice.                 *)
(*                                                                         *)
(* internal/processor/assembler.go is shown to implement this module by    *)
(* the refinement mapping in Assembler.tla.                                *)
(***************************************************************************)

CONSTANTS
    Spans,      \* span objects (pointers: two arrivals are two spans)
    Traces,     \* trace ids
    traceOf     \* the trace id a span carries

VARIABLES
    held,       \* spans taken in and not yet handed on
    handedOn    \* the batches handed on so far

vars == <<held, handedOn>>

Init == held = {} /\ handedOn = {}

TakeIn(s) ==
    /\ s \notin held \cup UNION handedOn
    /\ held' = held \cup {s}
    /\ UNCHANGED handedOn

HandOn(t, batch) ==
    /\ batch # {}
    /\ batch \subseteq held
    /\ \A s \in batch : traceOf[s] = t
    /\ held' = held \ batch
    /\ handedOn' = handedOn \cup {batch}

Next ==
    \/ \E s \in Spans : TakeIn(s)
    \/ \E t \in Traces : \E batch \in SUBSET Spans : HandOn(t, batch)

Spec == Init /\ [][Next]_vars

=============================================================================
