----------------------------- MODULE MCSampling -----------------------------
(* Sampling.tla for TLC: two calls of IngestSpans with spans of the same   *)
(* trace, and a swap of the sampler.                                       *)
EXTENDS Sampling, TLC

CONSTANTS t1, t2, s1, s2, s3, s4, r1, r2, always, limited, adaptive, tail, put1, put2

MCTraces   == {t1, t2}
MCSpans    == {s1, s2, s3, s4}
MCTraceOf  == [s \in MCSpans |-> IF s = s4 THEN t2 ELSE t1]
MCRequests == {r1, r2}
MCSpansOf  == (r1 :> <<s1, s2>>) @@ (r2 :> <<s3, s4>>)

(* s4 has a zero span id; of the roots s1 and s2 only s2 has a start time. *)
MCIsValid  == [s \in MCSpans |-> s # s4]
MCIsRoot   == [s \in MCSpans |-> s \in {s1, s2}]
MCStart    == [s \in MCSpans |-> IF s = s1 THEN 0 ELSE 1]

MCSamplers == {always, limited, adaptive, tail}

(* `always' keeps everything.  A rate limit and an adaptive rate may say   *)
(* either, and here the adaptive one never drops what s2 is the root of.   *)
MCResults  == [x \in MCSamplers |-> [s \in MCSpans |->
                 IF x = always \/ (x = adaptive /\ s = s2) THEN {"keep"} ELSE Decisions]]

TwoSwaps   == {put1, put2}
MCSwapTo   == [a \in Swaps |-> IF a = put1 THEN tail ELSE limited]

=============================================================================
