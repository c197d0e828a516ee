------------------------------ MODULE SpanRows ------------------------------
(***************************************************************************)
(* web/src/components/waterfall/span-layout.ts: the rows of the waterfall  *)
(* and of the flame graph.  A span is a record with its spanId, its        *)
(* parentSpanId (NoParent for none or sixteen zeros), its start and its    *)
(* error flag; a trace is the sequence of its spans.  Neither the assembler *)
(* nor an import makes their ids distinct: an export that is retried files *)
(* a span twice.                                                           *)
(***************************************************************************)
EXTENDS Integers, SequencesExt

CONSTANT NoParent

(* Mutant of Children: not sorted.                                         *)
ChildrenAsListed(spans, span) == SelectSeq(spans, LAMBDA s : s.parentSpanId = span.spanId)

Children(spans, span) ==
    SortSeq(SelectSeq(spans, LAMBDA s : s.parentSpanId = span.spanId),
            LAMBDA x, y : x.start < y.start)

(* A span, then the subtrees of its children in the order of their start.  *)
(* The code has no bound.  A path of more spans than the trace has holds   *)
(* one of them twice and goes on for ever; here it is cut at that depth.   *)
Visit(spans) ==
    LET visit[span \in Range(spans), depth \in 0 .. Len(spans)] ==
            LET children == IF depth = Len(spans) THEN <<>> ELSE Children(spans, span)
            IN  FoldLeft(LAMBDA rows, child : rows \o visit[child, depth + 1],
                         <<[span |-> span, depth |-> depth]>>, children)
    IN  visit

(* The tree of the first span without a parent, then every other span of   *)
(* the trace, unless its id has a row, at depth 0.                         *)
BuildSpanRows(spans) ==
    LET roots   == SelectSeq(spans, LAMBDA s : s.parentSpanId = NoParent)
        tree    == IF roots = <<>> THEN <<>> ELSE Visit(spans)[Head(roots), 0]
        visited == {tree[i].span.spanId : i \in DOMAIN tree}
        others  == SelectSeq(spans, LAMBDA s : s.spanId \notin visited)
    IN  tree \o [i \in DOMAIN others |-> [span |-> others[i], depth |-> 0]]

(* The recursion does not end, and exhausts the stack.                     *)
Overflows(spans) ==
    LET rows == BuildSpanRows(spans)
    IN  \E i \in DOMAIN rows : rows[i].depth = Len(spans)

-----------------------------------------------------------------------------
DistinctIds(spans) ==
    \A i, j \in DOMAIN spans : spans[i].spanId = spans[j].spanId => i = j

(* Every span of the trace has one row: several roots, spans with a parent *)
(* that is missing, and spans that are their own ancestors included.       *)
OneRowPerSpan(spans, rows) ==
    /\ Len(rows) = Len(spans)
    /\ \A i \in DOMAIN spans : \E j \in DOMAIN rows : rows[j].span = spans[i]

(* No id of the trace is without a row, though a span may be without one.  *)
EveryIdHasRow(spans, rows) ==
    \A i \in DOMAIN spans : \E j \in DOMAIN rows : rows[j].span.spanId = spans[i].spanId

(* An indented row stands below its parent, one deeper than it, with only  *)
(* earlier subtrees of that parent between them, and after the siblings    *)
(* that started before it.                                                 *)
DepthFirst(rows) ==
    \A i \in DOMAIN rows : rows[i].depth > 0 =>
        \E p \in 1 .. i - 1 :
            /\ rows[p].span.spanId = rows[i].span.parentSpanId
            /\ rows[p].depth = rows[i].depth - 1
            /\ \A k \in p + 1 .. i - 1 :
                  /\ rows[k].depth >= rows[i].depth
                  /\ rows[k].depth = rows[i].depth => rows[k].span.start <= rows[i].span.start

(* A span is only flattened to depth 0 when its parent is no part of the   *)
(* tree of the root.                                                       *)
FlattenedOnlyOrphans(rows) ==
    LET tree == {k \in DOMAIN rows : rows[k].depth > 0} \cup
                (IF rows[1].span.parentSpanId = NoParent THEN {1} ELSE {})
    IN  \A i \in DOMAIN rows \ tree :
            \A k \in tree : rows[k].span.spanId # rows[i].span.parentSpanId

=============================================================================
