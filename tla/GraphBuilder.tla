---------------------------- MODULE GraphBuilder ----------------------------
(***************************************************************************)
(* geode::GraphBuilder: the operations of Graph as a state machine.        *)
(*                                                                         *)
(* The user attribute of this module is a name: every vertex and edge gets *)
(* a fresh one, so that NamedGraph can say what an operation should do     *)
(* whatever it does to the indices.                                        *)
(***************************************************************************)
EXTENDS Graph

CONSTANTS
    VertexNames,  \* bound: the vertices a behaviour may name
    EdgeNames,    \* bound: the edges a behaviour may name
    NoName        \* stands for the end of an edge that was not given one

ASSUME NoNameAssumption == NoName \notin VertexNames

VARIABLE graph

-----------------------------------------------------------------------------
FreeVertexNames == VertexNames \ Range(graph.vlabel)
FreeEdgeNames == EdgeNames \ Range(graph.elabel)

\* No extremity holds NO_ID: the operations that renumber vertices read
\* old2new at the index of every extremity, without a check.
AllEndsSet == \A ev \in EdgeVertices(graph) : VertexAt(graph, ev) # NoId

PermutationsOf(S) == Bijection(S, S)

Init == graph = EmptyGraph

RunCreateVertex ==
    \E name \in FreeVertexNames : graph' = CreateVertex(graph, name)

\* create_edge() and create_edges(nb): no vertex is set yet.
RunCreateEmptyEdge ==
    \E name \in FreeEdgeNames : graph' = CreateEmptyEdge(graph, name)

RunCreateEdge ==
    \E name \in FreeEdgeNames, v0, v1 \in GraphVertices(graph) :
        graph' = CreateEdge(graph, v0, v1, name)

RunSetEdgeVertex ==
    \E ev \in EdgeVertices(graph), v \in GraphVertices(graph) :
        graph' = SetEdgeVertex(graph, ev, v)

RunDeleteEdges ==
    \E D \in SUBSET GraphEdges(graph) : graph' = DeleteEdges(graph, D)

RunPermuteEdges ==
    \E p \in PermutationsOf(GraphEdges(graph)) :
        graph' = PermuteEdges(graph, p)

\* delete_isolated_vertices(): all of them.
RunDeleteAllIsolatedVertices ==
    /\ AllEndsSet
    /\ graph' = DeleteVertices(graph, IsolatedVertices(graph))

\* delete_isolated_vertices(list), and delete_vertices(to_delete) where it
\* does not throw.
RunDeleteVertices ==
    /\ AllEndsSet
    /\ \E D \in SUBSET IsolatedVertices(graph) :
        graph' = DeleteVertices(graph, D)

RunPermuteVertices ==
    /\ AllEndsSet
    /\ \E p \in PermutationsOf(GraphVertices(graph)) :
        graph' = PermuteVertices(graph, p)

RunReplaceVertex(old, new) == graph' = ReplaceVertex(graph, old, new)

\* copy() of the graph into an empty one, as clone() does.
RunCopy == graph' = CopyGraph(graph)

Operations ==
    \/ RunCreateVertex
    \/ RunCreateEmptyEdge
    \/ RunCreateEdge
    \/ RunSetEdgeVertex
    \/ RunDeleteEdges
    \/ RunPermuteEdges
    \/ RunDeleteAllIsolatedVertices
    \/ RunDeleteVertices
    \/ RunPermuteVertices
    \/ RunCopy

\* replace_vertex() keeps its promise only for a vertex with one extremity.
Next ==
    \/ Operations
    \/ \E old, new \in GraphVertices(graph) :
        Len(graph.around[old]) <= 1 /\ RunReplaceVertex(old, new)

\* The same without that restriction.
NextReplaceAny ==
    \/ Operations
    \/ \E old, new \in GraphVertices(graph) : RunReplaceVertex(old, new)

Spec == Init /\ [][Next]_graph

SpecReplaceAny == Init /\ [][NextReplaceAny]_graph

-----------------------------------------------------------------------------
TypeOK ==
    /\ DOMAIN graph.edges = IndexRange(NbEdges(graph))
    /\ DOMAIN graph.elabel = DOMAIN graph.edges
    /\ DOMAIN graph.around = IndexRange(NbVertices(graph))
    /\ DOMAIN graph.vlabel = DOMAIN graph.around
    /\ \A ev \in EdgeVertices(graph) :
          VertexAt(graph, ev) \in GraphVertices(graph) \cup {NoId}

\* edges_around_vertex() lists exactly the edge extremities at the vertex,
\* once each, after any sequence of creations, moves, deletions, permutations
\* and copies: the lists stay dual to the attribute "edges" although each
\* operation renumbers one side before the other.
EdgesAroundDual == TypeOK /\ IsDual(graph)

\* The graph as somebody sees it who knows its elements by name.
NameAt(g, ev) ==
    LET v == VertexAt(g, ev)
    IN  IF v = NoId THEN NoName ELSE g.vlabel[v]

EdgeNamed(g, name) == CHOOSE e \in GraphEdges(g) : g.elabel[e] = name

NamesOfVertices(g) == Range(g.vlabel)

NamesOfEnds(g) ==
    [name \in Range(g.elabel) |->
        [side \in Sides |-> NameAt(g, <<EdgeNamed(g, name), side>>)]]

Named == INSTANCE NamedGraph WITH
    vertices <- NamesOfVertices(graph), ends <- NamesOfEnds(graph)

\* Seen by name, the builder is NamedGraph: no deletion, permutation or copy
\* changes which vertices an edge joins or which attribute values an element
\* carries.
ImplementsNamedGraph == Named!Spec

\* "Replace old edge vertices from a given vertex to another": after
\* replace_vertex(old, new) no edge ends at old any more.
ReplaceVertexMovesEveryEdge ==
    [][ \A old, new \in GraphVertices(graph) :
          (old # new /\ RunReplaceVertex(old, new)) =>
              \A ev \in EdgeVertices(graph) : VertexAt(graph', ev) # old
      ]_graph
=============================================================================
