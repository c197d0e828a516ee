--------------------------- MODULE MCTailSampler ----------------------------
(* TailSampler.tla for TLC: a buffer with room for one trace and three     *)
(* traces, one of two spans, so that evictions, decided traces, second     *)
(* evaluations and a cleared s.decided all happen.                         *)
EXTENDS TailSampler

CONSTANTS t1, t2, t3, s1, s2, s3, s4

MCTraces  == {t1, t2, t3}
MCSpans   == {s1, s2, s3, s4}
MCTraceOf == s1 :> t1 @@ s2 :> t1 @@ s3 :> t2 @@ s4 :> t3
MCIsError == [s \in MCSpans |-> s = s2]
MCStart   == [s \in MCSpans |-> 1]
MCEnd     == [s \in MCSpans |-> IF s = s3 THEN 4 ELSE 2]
MCHash    == [t \in MCTraces |-> FALSE]

MCPolicies == <<"error", "latency", "probabilistic">>

=============================================================================
