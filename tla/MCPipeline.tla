---------------------------- MODULE MCPipeline ------------------------------
(* Pipeline.tla for TLC: two spans of one trace, the second over gRPC.     *)
EXTENDS Pipeline

CONSTANTS t1, s1, s2, w1, w2

MCTraceOf   == [s \in Spans |-> t1]
MCTransport == [s \in Spans |-> IF s = s2 THEN "grpc" ELSE "http"]

=============================================================================
