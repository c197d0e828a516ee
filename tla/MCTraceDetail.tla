---------------------------- MODULE MCTraceDetail ---------------------------
(* TraceDetail.tla for TLC: a trace of one span, and one of three spans    *)
(* with their parents among themselves, missing or none (one may be its    *)
(* own parent), with distinct ids, with two that share one, or with a      *)
(* fourth span below those two.  The second span of the list starts first. *)
EXTENDS TraceDetail

CONSTANTS a, b

Span(i, parent, start) ==
    [spanId |-> i, parentSpanId |-> parent, start |-> start, error |-> start > 0]

Trace(ids, parents) ==
    <<Span(ids[1], parents[1], 1), Span(ids[2], parents[2], 0), Span(ids[3], parents[3], 2)>>

Distinct ==
    {Trace(<<1, 2, 3>>, <<p, q, r>>) :
        p \in {NoParent, 1, 3}, q \in {NoParent, 1, 3, 4}, r \in {NoParent, 1}}

Duplicates ==
    {Trace(ids, <<NoParent, q, r>>) : ids \in {<<1, 1, 2>>, <<1, 2, 2>>},
                                      q \in {NoParent, 1, 2}, r \in {1, 2}}
        \cup {Append(Trace(<<1, 2, 2>>, <<NoParent, 1, 1>>), Span(3, 2, 3))}

MCContents ==
    {[i \in {a, b} |-> IF i = a THEN <<Span(0, NoParent, 0)>> ELSE spans] :
        spans \in Distinct \cup Duplicates}

=============================================================================
