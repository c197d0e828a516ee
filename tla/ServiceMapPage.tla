---------------------------- MODULE ServiceMapPage --------------------------
(***************************************************************************)
(* web/src/pages/ServiceMap.tsx: the dependency graph is polled and laid   *)
(* out, while the user drags, deletes and selects nodes of it.             *)
(*                                                                         *)
(* A graph is a record of stats, a function on its services (their         *)
(* figures, by a version), and calls, a function on its edges (their       *)
(* counts).  The position of a node is the set of services of the layout   *)
(* that placed it, or "dragged".                                           *)
(***************************************************************************)
EXTENDS Integers, Functions, FiniteSetsExt, PageLoad

CONSTANT Graphs     \* the dependency graphs the collector may report

VARIABLES
    dependencies,   \* the graph of the collector
    mapGraph,       \* state graph, None before it
    mapNodes,       \* the nodes on the canvas: service -> position
    mapEdges,       \* the edges on the canvas: edge -> it is a busy one
    selectedNode,   \* the service and figures of the sidebar, or None
    mapTimer,       \* the timer of the effect is armed
    mapLoad

mapVars == <<dependencies, mapGraph, mapNodes, mapEdges, selectedNode, mapTimer, mapLoad>>

ServicesOf(g) == DOMAIN g.stats
EmptyCanvas == [x \in {} |-> None]
EmptyGraph == [stats |-> EmptyCanvas, calls |-> EmptyCanvas]

(* A collector without traces reports the empty graph; null is no graph.   *)
(* The callee of an edge need not be a service of the graph: it is what    *)
(* the caller's spans name (analysis/dependency.go).                       *)
ASSUME GraphsAssumption == EmptyGraph \in Graphs /\ None \notin Graphs

MapTypeOK ==
    /\ dependencies \in Graphs
    /\ mapGraph \in Graphs \cup {None}
    /\ \A s \in DOMAIN mapNodes : mapNodes[s] = {"dragged"} \/ s \in mapNodes[s]
    /\ \A e \in DOMAIN mapEdges : mapEdges[e] \in BOOLEAN
    /\ mapTimer \in BOOLEAN
    /\ mapLoad \in LoadType({"poll", "retry"}, Graphs)

MapOff ==
    /\ dependencies = EmptyGraph
    /\ mapGraph = None /\ mapNodes = EmptyCanvas /\ mapEdges = EmptyCanvas
    /\ selectedNode = None /\ mapTimer = FALSE /\ mapLoad = NewLoad

MapMount ==
    /\ dependencies' \in Graphs
    /\ mapTimer' = TRUE
    /\ UNCHANGED <<mapGraph, mapNodes, mapEdges, selectedNode, mapLoad>>

MapUnmount ==
    /\ dependencies' = EmptyGraph
    /\ mapGraph' = None /\ mapNodes' = EmptyCanvas /\ mapEdges' = EmptyCanvas
    /\ selectedNode' = None /\ mapTimer' = FALSE /\ mapLoad' = NewLoad

-----------------------------------------------------------------------------
(* New spans change the figures, a deletion removes services.              *)
DependenciesChange(g) ==
    /\ g # dependencies
    /\ dependencies' = g
    /\ UNCHANGED <<mapGraph, mapNodes, mapEdges, selectedNode, mapTimer, mapLoad>>

MapView ==
    IF mapGraph = None
    THEN IF mapLoad.loading THEN "loading" ELSE IF mapLoad.error THEN "error" ELSE "empty"
    ELSE IF ServicesOf(mapGraph) = {} THEN "empty" ELSE "map"

(* Instead of the map, or as a banner above it.                            *)
MapErrorShown == mapLoad.error /\ MapView \in {"error", "map"}

(* loadGraph.  The interval of 30 s outlasts the timeout of 15 s, so a     *)
(* request that the interval or the first timer started has ended when the *)
(* interval comes again.                                                   *)
LoadGraph(from) ==
    /\ \/ from = "poll" /\ mapTimer /\ mapTimer' = FALSE
       \/ from = "poll" /\ UNCHANGED mapTimer
          /\ ~mapTimer /\ \A r \in OpenOnes(mapLoad.reqs) : r.arg # "poll"
       \/ from = "retry" /\ MapView = "error" /\ UNCHANGED mapTimer
    /\ mapLoad' \in Started(mapLoad, from)
    /\ UNCHANGED <<dependencies, mapGraph, mapNodes, mapEdges, selectedNode>>

MapAnswered(r) ==
    /\ ~silent
    /\ r.phase = "open"
    /\ mapLoad' = Answered(mapLoad, r, dependencies)
    /\ UNCHANGED <<dependencies, mapGraph, mapNodes, mapEdges, selectedNode, mapTimer>>

(* The layout of dagre.                                                    *)
Layout(g) == [s \in ServicesOf(g) |-> ServicesOf(g)]

(* Mutant of NextNodes: known services keep their place, new ones are      *)
(* placed by the layout.                                                   *)
NextNodesMixed(g) ==
    [s \in ServicesOf(g) |-> IF s \in DOMAIN mapNodes THEN mapNodes[s] ELSE Layout(g)[s]]

(* The function given to setNodes: the old positions if the services are   *)
(* those on the canvas, else a new layout of all of them.                  *)
NextNodes(g) ==
    LET canReusePositions ==
            /\ DOMAIN mapNodes # {}
            /\ Cardinality(DOMAIN mapNodes) = Cardinality(ServicesOf(g))
            /\ ServicesOf(g) \subseteq DOMAIN mapNodes
    IN  IF canReusePositions THEN Restrict(mapNodes, ServicesOf(g)) ELSE Layout(g)

(* A busy edge: more than twice the average count, or the largest one.     *)
NextEdges(g) ==
    LET counts == Range(g.calls)
        total  == MapThenSumSet(LAMBDA e : g.calls[e], DOMAIN g.calls)
    IN  [e \in DOMAIN g.calls |->
            \/ g.calls[e] * Cardinality(DOMAIN g.calls) > 2 * total
            \/ g.calls[e] = Max(counts \cup {1})]

Figures(g, s) == [name |-> s, stat |-> g.stats[s]]

(* The selection follows the new graph, or ends.                           *)
NextSelected(g) ==
    IF selectedNode # None /\ selectedNode.name \in ServicesOf(g)
    THEN Figures(g, selectedNode.name) ELSE None

MapDelivers(r) ==
    /\ r.phase = "body"
    /\ mapLoad' = Settled(mapLoad, r)
    /\ IF r.newest
       THEN /\ mapGraph' = r.data
            /\ mapNodes' = NextNodes(r.data)
            /\ mapEdges' = NextEdges(r.data)
            /\ selectedNode' = NextSelected(r.data)
       ELSE UNCHANGED <<mapGraph, mapNodes, mapEdges, selectedNode>>
    /\ UNCHANGED <<dependencies, mapTimer>>

(* Mutant of MapFails: the error is only logged.                           *)
MapFailsUnseen(r) ==
    /\ mapLoad' = Settled(mapLoad, r)
    /\ UNCHANGED <<dependencies, mapGraph, mapNodes, mapEdges, selectedNode, mapTimer>>

MapFails(r) ==
    /\ mapLoad' = Failed(mapLoad, r)
    /\ UNCHANGED <<dependencies, mapGraph, mapNodes, mapEdges, selectedNode, mapTimer>>

-----------------------------------------------------------------------------
(* React Flow on the canvas: onNodesChange, onEdgesChange, handleNodeClick *)
(* and the close button of the sidebar.                                    *)
DragNode(s) ==
    /\ MapView = "map"
    /\ mapNodes' = [mapNodes EXCEPT ![s] = {"dragged"}]
    /\ UNCHANGED <<dependencies, mapGraph, mapEdges, selectedNode, mapTimer, mapLoad>>

(* The Backspace key removes the selected node and its edges.              *)
DeleteNode(s) ==
    /\ MapView = "map"
    /\ mapNodes' = Restrict(mapNodes, DOMAIN mapNodes \ {s})
    /\ mapEdges' = Restrict(mapEdges, {e \in DOMAIN mapEdges : s \notin {e[1], e[2]}})
    /\ UNCHANGED <<dependencies, mapGraph, selectedNode, mapTimer, mapLoad>>

(* The same key on a selected edge.                                        *)
DeleteEdge(e) ==
    /\ MapView = "map"
    /\ mapEdges' = Restrict(mapEdges, DOMAIN mapEdges \ {e})
    /\ UNCHANGED <<dependencies, mapGraph, mapNodes, selectedNode, mapTimer, mapLoad>>

ClickNode(s) ==
    /\ MapView = "map"
    /\ selectedNode' = IF s \in ServicesOf(mapGraph) THEN Figures(mapGraph, s) ELSE None
    /\ UNCHANGED <<dependencies, mapGraph, mapNodes, mapEdges, mapTimer, mapLoad>>

CloseSidebar ==
    /\ MapView = "map" /\ selectedNode # None
    /\ selectedNode' = None
    /\ UNCHANGED <<dependencies, mapGraph, mapNodes, mapEdges, mapTimer, mapLoad>>

MapNext ==
    \/ \E g \in Graphs : DependenciesChange(g)
    \/ \E from \in {"poll", "retry"} : LoadGraph(from)
    \/ \E r \in mapLoad.reqs : MapAnswered(r) \/ MapDelivers(r) \/ MapFails(r)
    \/ \E s \in DOMAIN mapNodes : DragNode(s) \/ DeleteNode(s) \/ ClickNode(s)
    \/ \E e \in DOMAIN mapEdges : DeleteEdge(e)
    \/ CloseSidebar

-----------------------------------------------------------------------------
(* Canvas and sidebar show the graph that is loaded: no node or edge of an *)
(* older one stays, no edge outlives a deleted end, the selected service   *)
(* is shown with its figures of now, or not at all, and the nodes that     *)
(* were not dragged were placed by one layout, so that they do not overlap.*)
CanvasIsOfGraph ==
    /\ mapGraph = None => mapNodes = EmptyCanvas /\ mapEdges = EmptyCanvas /\ selectedNode = None
    /\ mapGraph # None =>
        /\ DOMAIN mapNodes \subseteq ServicesOf(mapGraph)
        /\ \A e \in DOMAIN mapEdges :
              /\ e \in DOMAIN mapGraph.calls
              /\ {e[1], e[2]} \cap ServicesOf(mapGraph) \subseteq DOMAIN mapNodes
        /\ \A s, t \in DOMAIN mapNodes :
              {"dragged"} \notin {mapNodes[s], mapNodes[t]} => mapNodes[s] = mapNodes[t]
        /\ selectedNode # None => /\ selectedNode.name \in ServicesOf(mapGraph)
                                  /\ selectedNode = Figures(mapGraph, selectedNode.name)

=============================================================================
