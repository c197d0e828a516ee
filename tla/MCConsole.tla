------------------------------ MODULE MCConsole -----------------------------
(* Console.tla for TLC: two traces to compare, three traces of which the   *)
(* timeline shows two, and graphs that gain, lose and exchange services,   *)
(* one with an edge to a service that sends no spans.                      *)
EXTENDS Console

CONSTANTS t1, t2, a, b, slowOnly, onError

Graph(stats, calls) == [stats |-> stats, calls |-> calls]

MCGraphs ==
    {Graph(<<>>, <<>>),
     Graph(a :> 0, <<>>),
     Graph(b :> 0, <<b, a>> :> 1),
     Graph(a :> 1 @@ b :> 0, <<a, b>> :> 2)}

MCMeasured == {<<>>, <<a>>, <<b, a>>}

=============================================================================
