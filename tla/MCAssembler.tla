---------------------------- MODULE MCAssembler -----------------------------
(* Assembler.tla for TLC: three spans of one trace, so that an entry can   *)
(* be finalized, replaced and finalized again, and one of another trace.   *)
EXTENDS Assembler

CONSTANTS t1, t2, s1, s2, s3, s4

MCTraces  == {t1, t2}
MCSpans   == {s1, s2, s3, s4}
MCTraceOf == [s \in MCSpans |-> IF s = s4 THEN t2 ELSE t1]

=============================================================================
