------------------------- MODULE GraphBuilder_proof -------------------------
(***************************************************************************)
(* Proofs about GraphBuilder: the lists around the vertices stay dual to   *)
(* the edges, and the builder implements NamedGraph.                       *)
(***************************************************************************)
EXTENDS GraphBuilder, Graph_proof, TLAPS

\* The graphs of the builder: vertices and edges have names of their own.
NamedGraphs(ne, nv) ==
    {g \in DualGraphs(ne, nv, EdgeNames, VertexNames) :
        /\ g.elabel \in Injection(IndexRange(ne), EdgeNames)
        /\ g.vlabel \in Injection(IndexRange(nv), VertexNames)}

IsNamedGraph(g) ==
    /\ NbEdges(g) \in Nat
    /\ NbVertices(g) \in Nat
    /\ g \in NamedGraphs(NbEdges(g), NbVertices(g))

\* The inductive invariant.
IInv == IsNamedGraph(graph)

\* The numbers of edges and vertices of such a graph, and what it consists of.
LEMMA PartsOfNamedGraph ==
    ASSUME NEW ne \in Nat, NEW nv \in Nat, NEW g \in NamedGraphs(ne, nv)
    PROVE  /\ g \in DualGraphs(ne, nv, EdgeNames, VertexNames)
           /\ g.elabel \in Injection(IndexRange(ne), EdgeNames)
           /\ g.vlabel \in Injection(IndexRange(nv), VertexNames)
           /\ g.edges \in [IndexRange(ne) -> [Sides -> Ends(nv)]]
           /\ DOMAIN g.edges = IndexRange(ne)
           /\ DOMAIN g.elabel = IndexRange(ne)
           /\ DOMAIN g.around = IndexRange(nv)
           /\ DOMAIN g.vlabel = IndexRange(nv)
           /\ NbEdges(g) = ne
           /\ NbVertices(g) = nv
<1>1. /\ g \in DualGraphs(ne, nv, EdgeNames, VertexNames)
      /\ g.elabel \in Injection(IndexRange(ne), EdgeNames)
      /\ g.vlabel \in Injection(IndexRange(nv), VertexNames)
    BY DEF NamedGraphs
<1>2. /\ g.edges \in [IndexRange(ne) -> [Sides -> Ends(nv)]]
      /\ g.elabel \in [IndexRange(ne) -> EdgeNames]
      /\ g.around \in [IndexRange(nv) -> Seq(IndexRange(ne) \X Sides)]
      /\ g.vlabel \in [IndexRange(nv) -> VertexNames]
    BY <1>1 DEF DualGraphs, GraphsOf
<1>3. NbEdges(g) = ne /\ NbVertices(g) = nv
    BY <1>2, SizeOfVector DEF NbEdges, NbVertices
<1>4. QED
    BY <1>1, <1>2, <1>3

\* A graph with names of its own, in whatever number of elements.
LEMMA InvariantOf ==
    ASSUME NEW ne \in Nat, NEW nv \in Nat, NEW g \in NamedGraphs(ne, nv)
    PROVE  IsNamedGraph(g)
<1>1. NbEdges(g) = ne /\ NbVertices(g) = nv
    BY PartsOfNamedGraph
<1>2. QED
    BY <1>1 DEF IsNamedGraph

-----------------------------------------------------------------------------
\* A name that no element has yet.
LEMMA FreeName ==
    ASSUME NEW n \in Nat, NEW S, NEW f \in Injection(IndexRange(n), S),
           NEW name \in S \ Range(f)
    PROVE  AppendElement(f, name) \in Injection(IndexRange(n + 1), S)
<1>1. f \in [IndexRange(n) -> S]
    BY DEF Injection
<1>2. \A i \in IndexRange(n) : f[i] # name
    BY <1>1 DEF Range
<1>3. QED
    BY <1>2, AppendedNames

\* create_vertex()
LEMMA CreateVertexKeepsNames ==
    ASSUME NEW ne \in Nat, NEW nv \in Nat, NEW g \in NamedGraphs(ne, nv),
           NEW name \in VertexNames \ Range(g.vlabel)
    PROVE  CreateVertex(g, name) \in NamedGraphs(ne, nv + 1)
<1> DEFINE h == CreateVertex(g, name)
           more == nv + 1
<1>1. /\ g \in DualGraphs(ne, nv, EdgeNames, VertexNames)
      /\ g.elabel \in Injection(IndexRange(ne), EdgeNames)
      /\ g.vlabel \in Injection(IndexRange(nv), VertexNames)
    BY PartsOfNamedGraph
<1>2. /\ h \in DualGraphs(ne, more, EdgeNames, VertexNames)
      /\ h.elabel = g.elabel
      /\ h.vlabel = AppendElement(g.vlabel, name)
    BY <1>1, CreatedVertex
<1>3. AppendElement(g.vlabel, name) \in Injection(IndexRange(more), VertexNames)
    BY <1>1, FreeName
<1> HIDE DEF h, more
<1>4. h \in NamedGraphs(ne, more)
    BY <1>1, <1>2, <1>3 DEF NamedGraphs
<1>5. QED
    BY <1>4 DEF h, more

\* An edge that is added with a name of its own.
LEMMA AddedEdgeKeepsNames ==
    ASSUME NEW ne \in Nat, NEW nv \in Nat, NEW g \in NamedGraphs(ne, nv),
           NEW name \in EdgeNames \ Range(g.elabel),
           NEW h \in DualGraphs(ne + 1, nv, EdgeNames, VertexNames),
           h.elabel = AppendElement(g.elabel, name), h.vlabel = g.vlabel
    PROVE  h \in NamedGraphs(ne + 1, nv)
<1> DEFINE more == ne + 1
<1>1. /\ g.elabel \in Injection(IndexRange(ne), EdgeNames)
      /\ g.vlabel \in Injection(IndexRange(nv), VertexNames)
    BY PartsOfNamedGraph
<1>2. AppendElement(g.elabel, name) \in Injection(IndexRange(more), EdgeNames)
    BY <1>1, FreeName
<1>3. h \in DualGraphs(more, nv, EdgeNames, VertexNames)
    OBVIOUS
<1> HIDE DEF more
<1>4. h \in NamedGraphs(more, nv)
    BY <1>1, <1>2, <1>3 DEF NamedGraphs
<1>5. QED
    BY <1>4 DEF more

\* create_edge() without vertices
LEMMA CreateEmptyEdgeKeepsNames ==
    ASSUME NEW ne \in Nat, NEW nv \in Nat, NEW g \in NamedGraphs(ne, nv),
           NEW name \in EdgeNames \ Range(g.elabel)
    PROVE  CreateEmptyEdge(g, name) \in NamedGraphs(ne + 1, nv)
<1> DEFINE h == CreateEmptyEdge(g, name)
<1>1. g \in DualGraphs(ne, nv, EdgeNames, VertexNames)
    BY PartsOfNamedGraph
<1>2. /\ h \in DualGraphs(ne + 1, nv, EdgeNames, VertexNames)
      /\ h.elabel = AppendElement(g.elabel, name)
      /\ h.vlabel = g.vlabel
    BY <1>1, CreatedEmptyEdge
<1> HIDE DEF h
<1>3. h \in NamedGraphs(ne + 1, nv)
    BY <1>2, AddedEdgeKeepsNames
<1>4. QED
    BY <1>3 DEF h

\* create_edge(v0, v1)
LEMMA CreateEdgeKeepsNames ==
    ASSUME NEW ne \in Nat, NEW nv \in Nat, NEW g \in NamedGraphs(ne, nv),
           NEW name \in EdgeNames \ Range(g.elabel),
           NEW v0 \in IndexRange(nv), NEW v1 \in IndexRange(nv)
    PROVE  CreateEdge(g, v0, v1, name) \in NamedGraphs(ne + 1, nv)
<1> DEFINE h == CreateEdge(g, v0, v1, name)
<1>1. /\ g \in DualGraphs(ne, nv, EdgeNames, VertexNames)
      /\ name \in EdgeNames
    BY PartsOfNamedGraph
<1>2. /\ h \in DualGraphs(ne + 1, nv, EdgeNames, VertexNames)
      /\ h.elabel = AppendElement(g.elabel, name)
      /\ h.vlabel = g.vlabel
    BY <1>1, CreatedEdge
<1> HIDE DEF h
<1>3. h \in NamedGraphs(ne + 1, nv)
    BY <1>2, AddedEdgeKeepsNames
<1>4. QED
    BY <1>3 DEF h

\* An operation that leaves the elements and their names alone.
LEMMA SameNames ==
    ASSUME NEW ne \in Nat, NEW nv \in Nat, NEW g \in NamedGraphs(ne, nv),
           NEW h \in DualGraphs(ne, nv, EdgeNames, VertexNames),
           h.elabel = g.elabel, h.vlabel = g.vlabel
    PROVE  h \in NamedGraphs(ne, nv)
BY DEF NamedGraphs

\* set_edge_vertex()
LEMMA SetEdgeVertexKeepsNames ==
    ASSUME NEW ne \in Nat, NEW nv \in Nat, NEW g \in NamedGraphs(ne, nv),
           NEW ev \in IndexRange(ne) \X Sides, NEW v \in IndexRange(nv)
    PROVE  SetEdgeVertex(g, ev, v) \in NamedGraphs(ne, nv)
<1>1. g \in DualGraphs(ne, nv, EdgeNames, VertexNames)
    BY PartsOfNamedGraph
<1> DEFINE h == SetEdgeVertex(g, ev, v)
<1>2. /\ h \in DualGraphs(ne, nv, EdgeNames, VertexNames)
      /\ h.elabel = g.elabel
      /\ h.vlabel = g.vlabel
    BY <1>1, SetKeepsDual
<1> HIDE DEF h
<1>3. h \in NamedGraphs(ne, nv)
    BY <1>2, SameNames
<1>4. QED
    BY <1>3 DEF h

\* copy()
LEMMA CopyKeepsNames ==
    ASSUME NEW ne \in Nat, NEW nv \in Nat, NEW g \in NamedGraphs(ne, nv)
    PROVE  CopyGraph(g) \in NamedGraphs(ne, nv)
<1>1. g \in DualGraphs(ne, nv, EdgeNames, VertexNames)
    BY PartsOfNamedGraph
<1> DEFINE h == CopyGraph(g)
<1>2. /\ h \in DualGraphs(ne, nv, EdgeNames, VertexNames)
      /\ h.elabel = g.elabel
      /\ h.vlabel = g.vlabel
    BY <1>1, CopiedGraph
<1> HIDE DEF h
<1>3. h \in NamedGraphs(ne, nv)
    BY <1>2, SameNames
<1>4. QED
    BY <1>3 DEF h

\* replace_vertex() of a vertex with at most one extremity
LEMMA ReplaceVertexKeepsNames ==
    ASSUME NEW ne \in Nat, NEW nv \in Nat, NEW g \in NamedGraphs(ne, nv),
           NEW old \in IndexRange(nv), NEW new \in IndexRange(nv),
           Len(g.around[old]) <= 1
    PROVE  ReplaceVertex(g, old, new) \in NamedGraphs(ne, nv)
<1>1. g \in DualGraphs(ne, nv, EdgeNames, VertexNames)
    BY PartsOfNamedGraph
<1> DEFINE h == ReplaceVertex(g, old, new)
<1>2. /\ h \in DualGraphs(ne, nv, EdgeNames, VertexNames)
      /\ h.elabel = g.elabel
      /\ h.vlabel = g.vlabel
    BY <1>1, ReplacedVertex
<1> HIDE DEF h
<1>3. h \in NamedGraphs(ne, nv)
    BY <1>2, SameNames
<1>4. QED
    BY <1>3 DEF h

\* delete_edges()
LEMMA DeleteEdgesKeepsNames ==
    ASSUME NEW ne \in Nat, NEW nv \in Nat, NEW g \in NamedGraphs(ne, nv), NEW D
    PROVE  LET m == NbKept(ne, D)
           IN  m \in Nat /\ DeleteEdges(g, D) \in NamedGraphs(m, nv)
<1> DEFINE h == DeleteEdges(g, D)
           m == NbKept(ne, D)
<1>1. /\ g \in DualGraphs(ne, nv, EdgeNames, VertexNames)
      /\ g.elabel \in Injection(IndexRange(ne), EdgeNames)
      /\ g.vlabel \in Injection(IndexRange(nv), VertexNames)
    BY PartsOfNamedGraph
<1>2. /\ m \in Nat
      /\ h \in DualGraphs(m, nv, EdgeNames, VertexNames)
      /\ h.elabel = DeleteElements(g.elabel, D)
      /\ h.vlabel = g.vlabel
    BY <1>1, DeletedEdges
<1>3. DeleteElements(g.elabel, D) \in Injection(IndexRange(m), EdgeNames)
    BY <1>1, DeletedNames DEF NbKept
<1> HIDE DEF h, m
<1>4. h \in NamedGraphs(m, nv)
    BY <1>1, <1>2, <1>3 DEF NamedGraphs
<1>5. QED
    BY <1>2, <1>4 DEF h, m

\* permute_edges()
LEMMA PermuteEdgesKeepsNames ==
    ASSUME NEW ne \in Nat, NEW nv \in Nat, NEW g \in NamedGraphs(ne, nv),
           NEW p \in Bijection(IndexRange(ne), IndexRange(ne))
    PROVE  PermuteEdges(g, p) \in NamedGraphs(ne, nv)
<1> DEFINE h == PermuteEdges(g, p)
<1>1. /\ g \in DualGraphs(ne, nv, EdgeNames, VertexNames)
      /\ g.elabel \in Injection(IndexRange(ne), EdgeNames)
      /\ g.vlabel \in Injection(IndexRange(nv), VertexNames)
    BY PartsOfNamedGraph
<1>2. /\ h \in DualGraphs(ne, nv, EdgeNames, VertexNames)
      /\ h.elabel = PermuteElements(g.elabel, p)
      /\ h.vlabel = g.vlabel
    BY <1>1, PermutedEdges
<1>3. PermuteElements(g.elabel, p) \in Injection(IndexRange(ne), EdgeNames)
    BY <1>1, PermutedNames
<1> HIDE DEF h
<1>4. h \in NamedGraphs(ne, nv)
    BY <1>1, <1>2, <1>3 DEF NamedGraphs
<1>5. QED
    BY <1>4 DEF h

\* delete_vertices() of isolated vertices
LEMMA DeleteVerticesKeepsNames ==
    ASSUME NEW ne \in Nat, NEW nv \in Nat, NEW g \in NamedGraphs(ne, nv),
           EndsSet(g, ne), NEW D, D \subseteq IsolatedVertices(g)
    PROVE  LET m == NbKept(nv, D)
           IN  m \in Nat /\ DeleteVertices(g, D) \in NamedGraphs(ne, m)
<1> DEFINE h == DeleteVertices(g, D)
           m == NbKept(nv, D)
<1>1. /\ g \in DualGraphs(ne, nv, EdgeNames, VertexNames)
      /\ g.elabel \in Injection(IndexRange(ne), EdgeNames)
      /\ g.vlabel \in Injection(IndexRange(nv), VertexNames)
    BY PartsOfNamedGraph
<1>2. /\ m \in Nat
      /\ h \in DualGraphs(ne, m, EdgeNames, VertexNames)
      /\ h.elabel = g.elabel
      /\ h.vlabel = DeleteElements(g.vlabel, D)
    BY <1>1, DeletedVertices
<1>3. DeleteElements(g.vlabel, D) \in Injection(IndexRange(m), VertexNames)
    BY <1>1, DeletedNames DEF NbKept
<1> HIDE DEF h, m
<1>4. h \in NamedGraphs(ne, m)
    BY <1>1, <1>2, <1>3 DEF NamedGraphs
<1>5. QED
    BY <1>2, <1>4 DEF h, m

\* permute_vertices()
LEMMA PermuteVerticesKeepsNames ==
    ASSUME NEW ne \in Nat, NEW nv \in Nat, NEW g \in NamedGraphs(ne, nv),
           EndsSet(g, ne), NEW p \in Bijection(IndexRange(nv), IndexRange(nv))
    PROVE  PermuteVertices(g, p) \in NamedGraphs(ne, nv)
<1> DEFINE h == PermuteVertices(g, p)
<1>1. /\ g \in DualGraphs(ne, nv, EdgeNames, VertexNames)
      /\ g.elabel \in Injection(IndexRange(ne), EdgeNames)
      /\ g.vlabel \in Injection(IndexRange(nv), VertexNames)
    BY PartsOfNamedGraph
<1>2. /\ h \in DualGraphs(ne, nv, EdgeNames, VertexNames)
      /\ h.elabel = g.elabel
      /\ h.vlabel = PermuteElements(g.vlabel, p)
    BY <1>1, PermutedVertices
<1>3. PermuteElements(g.vlabel, p) \in Injection(IndexRange(nv), VertexNames)
    BY <1>1, PermutedNames
<1> HIDE DEF h
<1>4. h \in NamedGraphs(ne, nv)
    BY <1>1, <1>2, <1>3 DEF NamedGraphs
<1>5. QED
    BY <1>4 DEF h

-----------------------------------------------------------------------------
\* What the builder may be called with, in terms of the numbers of elements.
LEMMA ArgumentsOfBuilder ==
    ASSUME IInv
    PROVE  /\ NbEdges(graph) \in Nat
           /\ NbVertices(graph) \in Nat
           /\ graph \in NamedGraphs(NbEdges(graph), NbVertices(graph))
           /\ GraphEdges(graph) = IndexRange(NbEdges(graph))
           /\ GraphVertices(graph) = IndexRange(NbVertices(graph))
           /\ EdgeVertices(graph) = IndexRange(NbEdges(graph)) \X Sides
           /\ AllEndsSet => EndsSet(graph, NbEdges(graph))
<1>1. /\ NbEdges(graph) \in Nat
      /\ NbVertices(graph) \in Nat
      /\ graph \in NamedGraphs(NbEdges(graph), NbVertices(graph))
    BY DEF IInv, IsNamedGraph
<1>2. /\ DOMAIN graph.edges = IndexRange(NbEdges(graph))
      /\ DOMAIN graph.around = IndexRange(NbVertices(graph))
    BY <1>1, PartsOfNamedGraph
<1>3. EdgeVertices(graph) = IndexRange(NbEdges(graph)) \X Sides
    BY <1>2 DEF EdgeVertices, GraphEdges
<1>4. AllEndsSet => EndsSet(graph, NbEdges(graph))
    BY <1>3 DEF AllEndsSet, EndsSet
<1>5. QED
    BY <1>1, <1>2, <1>3, <1>4 DEF GraphEdges, GraphVertices

\* An empty graph.
LEMMA InitIsNamed == Init => IInv
<1> SUFFICES ASSUME Init
             PROVE  IInv
    OBVIOUS
<1>1. graph = EmptyGraph
    BY DEF Init
<1>2. IndexRange(0) = {} /\ 0 \in Nat
    BY DEF IndexRange
<1>3. /\ <<>> \in [IndexRange(0) -> [Sides -> Ends(0)]]
      /\ <<>> \in [IndexRange(0) -> Seq(IndexRange(0) \X Sides)]
      /\ <<>> \in Injection(IndexRange(0), EdgeNames)
      /\ <<>> \in Injection(IndexRange(0), VertexNames)
      /\ <<>> \in [IndexRange(0) -> EdgeNames]
      /\ <<>> \in [IndexRange(0) -> VertexNames]
    BY <1>2 DEF Injection, IsInjective
<1>4. graph \in GraphsOf(0, 0, Ends(0), EdgeNames, VertexNames)
    BY <1>1, <1>3 DEF EmptyGraph, GraphsOf
<1>5. graph \in DualGraphs(0, 0, EdgeNames, VertexNames)
    BY <1>2, <1>4 DEF DualGraphs, ListsFollowEdges
<1>6. graph.elabel = <<>> /\ graph.vlabel = <<>>
    BY <1>1 DEF EmptyGraph
<1>7. graph \in NamedGraphs(0, 0)
    BY <1>3, <1>5, <1>6 DEF NamedGraphs
<1>8. QED
    BY <1>2, <1>7, InvariantOf DEF IInv

\* Every operation leads from such a graph to such a graph.
LEMMA StepKeepsNamed == IInv /\ [Next]_graph => IInv'
<1> DEFINE ne == NbEdges(graph)
           nv == NbVertices(graph)
<1> SUFFICES ASSUME IInv, [Next]_graph
             PROVE  IInv'
    OBVIOUS
<1>1. /\ ne \in Nat
      /\ nv \in Nat
      /\ graph \in NamedGraphs(ne, nv)
      /\ GraphEdges(graph) = IndexRange(ne)
      /\ GraphVertices(graph) = IndexRange(nv)
      /\ EdgeVertices(graph) = IndexRange(ne) \X Sides
      /\ AllEndsSet => EndsSet(graph, ne)
    BY ArgumentsOfBuilder
<1> HIDE DEF ne, nv
<1>2. ASSUME NEW me \in Nat, NEW mv \in Nat, graph' \in NamedGraphs(me, mv)
      PROVE  IInv'
    <2> DEFINE h == graph'
    <2> HIDE DEF h
    <2>1. IsNamedGraph(h)
        BY <1>2, InvariantOf DEF h
    <2>2. QED
        BY <2>1 DEF IInv, h
<1>3. CASE RunCreateVertex
    <2>1. PICK name \in FreeVertexNames : graph' = CreateVertex(graph, name)
        BY <1>3 DEF RunCreateVertex
    <2>2. name \in VertexNames \ Range(graph.vlabel) /\ nv + 1 \in Nat
        BY <1>1 DEF FreeVertexNames
    <2>3. QED
        BY <1>1, <1>2, <2>1, <2>2, CreateVertexKeepsNames
<1>4. CASE RunCreateEmptyEdge
    <2>1. PICK name \in FreeEdgeNames : graph' = CreateEmptyEdge(graph, name)
        BY <1>4 DEF RunCreateEmptyEdge
    <2>2. name \in EdgeNames \ Range(graph.elabel) /\ ne + 1 \in Nat
        BY <1>1 DEF FreeEdgeNames
    <2>3. QED
        BY <1>1, <1>2, <2>1, <2>2, CreateEmptyEdgeKeepsNames
<1>5. CASE RunCreateEdge
    <2>1. PICK name \in FreeEdgeNames, v0 \in IndexRange(nv),
               v1 \in IndexRange(nv) : graph' = CreateEdge(graph, v0, v1, name)
        BY <1>1, <1>5 DEF RunCreateEdge
    <2>2. name \in EdgeNames \ Range(graph.elabel) /\ ne + 1 \in Nat
        BY <1>1 DEF FreeEdgeNames
    <2>3. QED
        BY <1>1, <1>2, <2>1, <2>2, CreateEdgeKeepsNames
<1>6. CASE RunSetEdgeVertex
    <2>1. PICK ev \in IndexRange(ne) \X Sides, v \in IndexRange(nv) :
                graph' = SetEdgeVertex(graph, ev, v)
        BY <1>1, <1>6 DEF RunSetEdgeVertex
    <2>2. QED
        BY <1>1, <1>2, <2>1, SetEdgeVertexKeepsNames
<1>7. CASE RunDeleteEdges
    <2>1. PICK D \in SUBSET GraphEdges(graph) : graph' = DeleteEdges(graph, D)
        BY <1>7 DEF RunDeleteEdges
    <2>2. QED
        BY <1>1, <1>2, <2>1, DeleteEdgesKeepsNames
<1>8. CASE RunPermuteEdges
    <2>1. PICK p \in Bijection(IndexRange(ne), IndexRange(ne)) :
                graph' = PermuteEdges(graph, p)
        BY <1>1, <1>8 DEF RunPermuteEdges, PermutationsOf
    <2>2. QED
        BY <1>1, <1>2, <2>1, PermuteEdgesKeepsNames
<1>9. ASSUME RunDeleteAllIsolatedVertices \/ RunDeleteVertices
      PROVE  IInv'
    <2>1. PICK D \in SUBSET IsolatedVertices(graph) :
                graph' = DeleteVertices(graph, D)
        BY <1>9 DEF RunDeleteAllIsolatedVertices, RunDeleteVertices
    <2>2. EndsSet(graph, ne)
        BY <1>1, <1>9 DEF RunDeleteAllIsolatedVertices, RunDeleteVertices
    <2>3. QED
        BY <1>1, <1>2, <2>1, <2>2, DeleteVerticesKeepsNames
<1>10. CASE RunPermuteVertices
    <2>1. PICK p \in Bijection(IndexRange(nv), IndexRange(nv)) :
                graph' = PermuteVertices(graph, p)
        BY <1>1, <1>10 DEF RunPermuteVertices, PermutationsOf
    <2>2. EndsSet(graph, ne)
        BY <1>1, <1>10 DEF RunPermuteVertices
    <2>3. QED
        BY <1>1, <1>2, <2>1, <2>2, PermuteVerticesKeepsNames
<1>11. CASE RunCopy
    BY <1>1, <1>2, <1>11, CopyKeepsNames DEF RunCopy
<1>12. ASSUME NEW old \in GraphVertices(graph),
              NEW new \in GraphVertices(graph),
              Len(graph.around[old]) <= 1, RunReplaceVertex(old, new)
       PROVE  IInv'
    BY <1>1, <1>2, <1>12, ReplaceVertexKeepsNames DEF RunReplaceVertex
<1>13. CASE UNCHANGED graph
    BY <1>13 DEF IInv
<1>14. QED
    BY <1>3, <1>4, <1>5, <1>6, <1>7, <1>8, <1>9, <1>10, <1>11, <1>12, <1>13
    DEF Next, Operations

\* What the invariant says of the lists around the vertices.
LEMMA NamedGraphIsDual == IInv => EdgesAroundDual
<1> DEFINE ne == NbEdges(graph)
           nv == NbVertices(graph)
<1> SUFFICES ASSUME IInv
             PROVE  EdgesAroundDual
    OBVIOUS
<1>1. /\ ne \in Nat
      /\ nv \in Nat
      /\ graph \in NamedGraphs(ne, nv)
      /\ GraphVertices(graph) = IndexRange(nv)
      /\ EdgeVertices(graph) = IndexRange(ne) \X Sides
    BY ArgumentsOfBuilder
<1>2. /\ graph \in DualGraphs(ne, nv, EdgeNames, VertexNames)
      /\ graph.edges \in [IndexRange(ne) -> [Sides -> Ends(nv)]]
      /\ DOMAIN graph.edges = IndexRange(ne)
      /\ DOMAIN graph.elabel = IndexRange(ne)
      /\ DOMAIN graph.around = IndexRange(nv)
      /\ DOMAIN graph.vlabel = IndexRange(nv)
    BY <1>1, PartsOfNamedGraph
<1>3. TypeOK
    <2>1. \A ev \in EdgeVertices(graph) :
                VertexAt(graph, ev) \in GraphVertices(graph) \cup {NoId}
        BY <1>1, <1>2 DEF VertexAt, Ends
    <2>2. QED
        BY <1>2, <2>1 DEF TypeOK
<1>4. IsDual(graph)
    BY <1>1, <1>2, DualGraphIsDual DEF DualGraphs
<1>5. QED
    BY <1>3, <1>4 DEF EdgesAroundDual

\* The lists of edges around the vertices say what the edges say, once each,
\* after any operations of the builder on any number of vertices and edges.
THEOREM ListsStayDual == Spec => []EdgesAroundDual
<1>1. IInv /\ [Next]_graph => IInv'
    BY StepKeepsNamed
<1>2. QED
    BY <1>1, InitIsNamed, NamedGraphIsDual, PTL DEF Spec

-----------------------------------------------------------------------------
\* What somebody sees of an edge who knows the vertices by name.
SeenEnds(g, e) == [side \in Sides |-> NameAt(g, <<e, side>>)]

\* Each edge is seen under its name.
LEMMA EndsUnderName ==
    ASSUME NEW ne \in Nat, NEW nv \in Nat, NEW g \in NamedGraphs(ne, nv)
    PROVE  /\ DOMAIN NamesOfEnds(g) = Range(g.elabel)
           /\ NamesOfEnds(g) = [name \in Range(g.elabel) |->
                                    NamesOfEnds(g)[name]]
           /\ \A e \in IndexRange(ne) :
                /\ g.elabel[e] \in Range(g.elabel)
                /\ NamesOfEnds(g)[g.elabel[e]] = SeenEnds(g, e)
<1>1. /\ DOMAIN g.edges = IndexRange(ne)
      /\ DOMAIN g.elabel = IndexRange(ne)
      /\ g.elabel \in Injection(IndexRange(ne), EdgeNames)
    BY PartsOfNamedGraph
<1>2. ASSUME NEW e \in IndexRange(ne)
      PROVE  /\ g.elabel[e] \in Range(g.elabel)
             /\ EdgeNamed(g, g.elabel[e]) = e
    <2>1. \A f \in IndexRange(ne) : g.elabel[f] = g.elabel[e] => f = e
        BY <1>1 DEF Injection, IsInjective
    <2>2. QED
        BY <1>1, <2>1 DEF EdgeNamed, GraphEdges, Range
<1>3. ASSUME NEW e \in IndexRange(ne)
      PROVE  NamesOfEnds(g)[g.elabel[e]] = SeenEnds(g, e)
    BY <1>2 DEF NamesOfEnds, SeenEnds
<1>4. /\ DOMAIN NamesOfEnds(g) = Range(g.elabel)
      /\ NamesOfEnds(g) = [name \in Range(g.elabel) |-> NamesOfEnds(g)[name]]
    BY DEF NamesOfEnds
<1>5. QED
    BY <1>2, <1>3, <1>4

\* To know what is seen of a graph it is enough to look at each of its edges.
LEMMA EndsFromEdges ==
    ASSUME NEW ne \in Nat, NEW nv \in Nat, NEW g \in NamedGraphs(ne, nv),
           NEW ends, ends = [name \in Range(g.elabel) |-> ends[name]],
           \A e \in IndexRange(ne) : ends[g.elabel[e]] = SeenEnds(g, e)
    PROVE  NamesOfEnds(g) = ends
<1> DEFINE named == NamesOfEnds(g)
           names == Range(g.elabel)
<1>1. \A e \in IndexRange(ne) : named[g.elabel[e]] = SeenEnds(g, e)
    BY EndsUnderName
<1>2. named = [name \in names |-> named[name]]
    BY EndsUnderName, Zenon
<1>3. DOMAIN g.elabel = IndexRange(ne)
    BY PartsOfNamedGraph
<1>4. \A name \in names : \E e \in IndexRange(ne) : name = g.elabel[e]
    BY <1>3 DEF Range
<1> HIDE DEF named, names
<1>5. \A name \in names : ends[name] = named[name]
    <2>1. \A e \in IndexRange(ne) : ends[g.elabel[e]] = named[g.elabel[e]]
        BY <1>1
    <2>2. QED
        BY <1>4, <2>1, Zenon
<1>6. [name \in names |-> ends[name]] = [name \in names |-> named[name]]
    BY <1>5
<1>7. ends = [name \in names |-> ends[name]]
    BY Zenon DEF names
<1>8. ends = named
    BY <1>2, <1>6, <1>7, Zenon
<1>9. QED
    BY <1>8 DEF named

\* Two graphs are seen alike when each edge of the one is an edge of the other.
LEMMA SeenAlike ==
    ASSUME NEW ne \in Nat, NEW nv \in Nat, NEW g \in NamedGraphs(ne, nv),
           NEW me \in Nat, NEW mv \in Nat, NEW h \in NamedGraphs(me, mv),
           \A k \in IndexRange(me) : \E e \in IndexRange(ne) :
                h.elabel[k] = g.elabel[e] /\ SeenEnds(h, k) = SeenEnds(g, e),
           Range(h.elabel) = Range(g.elabel)
    PROVE  NamesOfEnds(h) = NamesOfEnds(g)
<1>1. /\ NamesOfEnds(g) = [name \in Range(g.elabel) |-> NamesOfEnds(g)[name]]
      /\ \A e \in IndexRange(ne) :
            NamesOfEnds(g)[g.elabel[e]] = SeenEnds(g, e)
    BY EndsUnderName
<1> DEFINE ends == NamesOfEnds(g)
<1>2. /\ ends = [name \in Range(h.elabel) |-> ends[name]]
      /\ \A k \in IndexRange(me) : ends[h.elabel[k]] = SeenEnds(h, k)
    BY <1>1
<1> HIDE DEF ends
<1>3. NamesOfEnds(h) = ends
    BY <1>2, EndsFromEdges
<1>4. QED
    BY <1>3 DEF ends

\* The edge sees the same names when its ends and their names are the same.
LEMMA SameSeenEnds ==
    ASSUME NEW nv \in Nat, NEW g, NEW h, NEW e, NEW k,
           g.edges[e] \in [Sides -> Ends(nv)],
           h.edges[k] = g.edges[e],
           \A v \in IndexRange(nv) : h.vlabel[v] = g.vlabel[v]
    PROVE  SeenEnds(h, k) = SeenEnds(g, e)
<1>1. ASSUME NEW side \in Sides
      PROVE  NameAt(h, <<k, side>>) = NameAt(g, <<e, side>>)
    <2>1. /\ VertexAt(h, <<k, side>>) = VertexAt(g, <<e, side>>)
          /\ VertexAt(g, <<e, side>>) \in Ends(nv)
        BY DEF VertexAt
    <2>2. QED
        BY <2>1 DEF NameAt, Ends
<1>2. QED
    BY <1>1 DEF SeenEnds

-----------------------------------------------------------------------------
\* Appending a name to a vector adds it to the names in the vector.
LEMMA AppendedRange ==
    ASSUME NEW n \in Nat, NEW f, DOMAIN f = IndexRange(n), NEW name
    PROVE  Range(AppendElement(f, name)) = Range(f) \cup {name}
<1> DEFINE h == AppendElement(f, name)
<1>1. /\ DOMAIN h = IndexRange(n + 1)
      /\ h[n] = name
      /\ \A i \in IndexRange(n) : h[i] = f[i]
      /\ IndexRange(n + 1) = IndexRange(n) \cup {n}
    BY AppendedVector
<1> HIDE DEF h
<1>2. Range(h) = Range(f) \cup {name}
    BY <1>1 DEF Range
<1>3. QED
    BY <1>2 DEF h

\* The names in a vector stay when it is permuted.
LEMMA PermutedRange ==
    ASSUME NEW S, NEW permutation \in Bijection(S, S), NEW f, DOMAIN f = S
    PROVE  Range(PermuteElements(f, permutation)) = Range(f)
<1> DEFINE h == PermuteElements(f, permutation)
<1>1. /\ permutation \in [S -> S]
      /\ \A j \in S : \E i \in S : permutation[i] = j
    BY DEF Bijection, Injection, Surjection
<1>2. DOMAIN h = S /\ \A i \in S : h[i] = f[permutation[i]]
    BY DEF PermuteElements
<1> HIDE DEF h
<1>3. Range(h) = Range(f)
    BY <1>1, <1>2 DEF Range
<1>4. QED
    BY <1>3 DEF h

\* Those of the deleted elements go when it is compacted.
LEMMA DeletedRange ==
    ASSUME NEW n \in Nat, NEW D, D \subseteq IndexRange(n), NEW S,
           NEW f \in Injection(IndexRange(n), S)
    PROVE  Range(DeleteElements(f, D)) = Range(f) \ {f[i] : i \in D}
<1> DEFINE kept == IndexRange(n) \ D
           m == Cardinality(kept)
           old2new == MappingAfterDeletion(n, D)
           h == DeleteElements(f, D)
<1>1. /\ DOMAIN f = IndexRange(n)
      /\ \A i, j \in IndexRange(n) : f[i] = f[j] => i = j
    BY DEF Injection, IsInjective
<1>2. DOMAIN h = IndexRange(m)
    BY <1>1, DeletedVectorSize
<1>3. \A k \in IndexRange(m) : \E i \in kept : h[k] = f[i]
    BY <1>1, DeletedVectorComesFromKept
<1>4. \A i \in kept : old2new[i] \in DOMAIN h /\ h[old2new[i]] = f[i]
    BY <1>1, DeletedVectorFollowsMapping
<1> HIDE DEF h, m, old2new
<1>5. Range(h) \subseteq Range(f) \ {f[i] : i \in D}
    <2> SUFFICES ASSUME NEW k \in IndexRange(m)
                 PROVE  h[k] \in Range(f) \ {f[i] : i \in D}
        BY <1>2 DEF Range
    <2>1. PICK i \in kept : h[k] = f[i]
        BY <1>3
    <2>2. \A j \in D : f[j] # f[i]
        BY <1>1, <2>1
    <2>3. QED
        BY <1>1, <2>1, <2>2 DEF Range
<1>6. Range(f) \ {f[i] : i \in D} \subseteq Range(h)
    BY <1>1, <1>4 DEF Range
<1>7. Range(h) = Range(f) \ {f[i] : i \in D}
    BY <1>5, <1>6
<1>8. QED
    BY <1>7 DEF h

-----------------------------------------------------------------------------
\* create_vertex() adds a name and changes no end.
LEMMA CreateVertexIsSeen ==
    ASSUME NEW ne \in Nat, NEW nv \in Nat, NEW g \in NamedGraphs(ne, nv),
           NEW name \in VertexNames \ Range(g.vlabel)
    PROVE  LET h == CreateVertex(g, name)
           IN  /\ NamesOfVertices(h) = NamesOfVertices(g) \cup {name}
               /\ NamesOfEnds(h) = NamesOfEnds(g)
<1> DEFINE h == CreateVertex(g, name)
           more == nv + 1
<1>1. /\ g \in DualGraphs(ne, nv, EdgeNames, VertexNames)
      /\ DOMAIN g.elabel = IndexRange(ne)
      /\ DOMAIN g.vlabel = IndexRange(nv)
      /\ g.edges \in [IndexRange(ne) -> [Sides -> Ends(nv)]]
    BY PartsOfNamedGraph
<1>2. /\ h \in NamedGraphs(ne, more)
      /\ h.edges = g.edges
      /\ h.elabel = g.elabel
      /\ h.vlabel = AppendElement(g.vlabel, name)
      /\ more \in Nat
    BY <1>1, CreatedVertex, CreateVertexKeepsNames
<1>3. \A v \in IndexRange(nv) : h.vlabel[v] = g.vlabel[v]
    BY <1>1, <1>2, AppendedVector
<1> HIDE DEF h, more
<1>4. NamesOfVertices(h) = NamesOfVertices(g) \cup {name}
    BY <1>1, <1>2, AppendedRange DEF NamesOfVertices
<1>5. \A e \in IndexRange(ne) : SeenEnds(h, e) = SeenEnds(g, e)
    BY <1>1, <1>2, <1>3, SameSeenEnds
<1>6. NamesOfEnds(h) = NamesOfEnds(g)
    BY <1>2, <1>5, SeenAlike
<1>7. QED
    BY <1>4, <1>6 DEF h

\* A new edge is added to those that are seen.
WithEdge(ends, name, seen) ==
    [f \in DOMAIN ends \cup {name} |-> IF f = name THEN seen ELSE ends[f]]

\* Nothing else changes when an edge is added.
LEMMA AddedEdgeIsSeen ==
    ASSUME NEW ne \in Nat, NEW nv \in Nat, NEW g \in NamedGraphs(ne, nv),
           NEW name \in EdgeNames \ Range(g.elabel), NEW joined,
           NEW h \in NamedGraphs(ne + 1, nv),
           h.edges = AppendElement(g.edges, joined),
           h.elabel = AppendElement(g.elabel, name),
           h.vlabel = g.vlabel
    PROVE  /\ NamesOfVertices(h) = NamesOfVertices(g)
           /\ NamesOfEnds(h) = WithEdge(NamesOfEnds(g), name, SeenEnds(h, ne))
<1> DEFINE more == ne + 1
           ends == NamesOfEnds(g)
           new == WithEdge(ends, name, SeenEnds(h, ne))
<1>1. /\ DOMAIN g.elabel = IndexRange(ne)
      /\ DOMAIN g.edges = IndexRange(ne)
      /\ g.edges \in [IndexRange(ne) -> [Sides -> Ends(nv)]]
    BY PartsOfNamedGraph
<1>2. /\ h.elabel[ne] = name
      /\ \A e \in IndexRange(ne) :
            h.elabel[e] = g.elabel[e] /\ h.edges[e] = g.edges[e]
      /\ IndexRange(more) = IndexRange(ne) \cup {ne}
    BY <1>1, AppendedVector
<1>3. Range(h.elabel) = Range(g.elabel) \cup {name}
    BY <1>1, AppendedRange
<1>4. /\ DOMAIN ends = Range(g.elabel)
      /\ \A e \in IndexRange(ne) :
            /\ g.elabel[e] \in Range(g.elabel)
            /\ ends[g.elabel[e]] = SeenEnds(g, e)
    BY EndsUnderName
<1>5. \A e \in IndexRange(ne) : SeenEnds(h, e) = SeenEnds(g, e)
    BY <1>1, <1>2, SameSeenEnds
<1>6. more \in Nat /\ h \in NamedGraphs(more, nv)
    OBVIOUS
<1> HIDE DEF more, ends
<1>7. /\ DOMAIN new = Range(h.elabel)
      /\ new = [f \in Range(h.elabel) |-> new[f]]
    BY <1>3, <1>4 DEF WithEdge
<1>8. \A e \in IndexRange(more) : new[h.elabel[e]] = SeenEnds(h, e)
    <2>1. ASSUME NEW e \in IndexRange(ne)
          PROVE  new[h.elabel[e]] = SeenEnds(h, e)
        <3>1. h.elabel[e] # name /\ h.elabel[e] \in DOMAIN ends
            BY <1>2, <1>4
        <3>2. QED
            BY <1>2, <1>4, <1>5, <3>1 DEF WithEdge
    <2>2. new[h.elabel[ne]] = SeenEnds(h, ne)
        BY <1>2 DEF WithEdge
    <2>3. QED
        BY <1>2, <2>1, <2>2
<1> HIDE DEF new
<1>9. NamesOfEnds(h) = new
    BY <1>6, <1>7, <1>8, EndsFromEdges
<1>10. NamesOfVertices(h) = NamesOfVertices(g)
    BY DEF NamesOfVertices
<1>11. QED
    BY <1>9, <1>10 DEF new, ends

\* create_edge() adds an edge without ends.
LEMMA CreateEmptyEdgeIsSeen ==
    ASSUME NEW ne \in Nat, NEW nv \in Nat, NEW g \in NamedGraphs(ne, nv),
           NEW name \in EdgeNames \ Range(g.elabel)
    PROVE  LET h == CreateEmptyEdge(g, name)
           IN  /\ NamesOfVertices(h) = NamesOfVertices(g)
               /\ NamesOfEnds(h) = WithEdge(NamesOfEnds(g), name,
                                            Joining(NoName, NoName))
<1> DEFINE h == CreateEmptyEdge(g, name)
           none == [side \in Sides |-> NoId]
<1>1. /\ g \in DualGraphs(ne, nv, EdgeNames, VertexNames)
      /\ DOMAIN g.edges = IndexRange(ne)
    BY PartsOfNamedGraph
<1>2. /\ h \in NamedGraphs(ne + 1, nv)
      /\ h.edges = AppendElement(g.edges, none)
      /\ h.elabel = AppendElement(g.elabel, name)
      /\ h.vlabel = g.vlabel
    BY <1>1, CreatedEmptyEdge, CreateEmptyEdgeKeepsNames
<1>3. h.edges[ne] = none
    BY <1>1, <1>2, AppendedVector
<1> HIDE DEF h
<1>4. SeenEnds(h, ne) = Joining(NoName, NoName)
    BY <1>3 DEF SeenEnds, NameAt, VertexAt, Joining
<1> HIDE DEF none
<1>5. /\ NamesOfVertices(h) = NamesOfVertices(g)
      /\ NamesOfEnds(h) = WithEdge(NamesOfEnds(g), name, SeenEnds(h, ne))
    BY <1>2, AddedEdgeIsSeen
<1>6. QED
    BY <1>4, <1>5 DEF h

\* create_edge(v0, v1) adds an edge with the names of v0 and v1 at its ends.
LEMMA CreateEdgeIsSeen ==
    ASSUME NEW ne \in Nat, NEW nv \in Nat, NEW g \in NamedGraphs(ne, nv),
           NEW name \in EdgeNames \ Range(g.elabel),
           NEW v0 \in IndexRange(nv), NEW v1 \in IndexRange(nv)
    PROVE  LET h == CreateEdge(g, v0, v1, name)
           IN  /\ NamesOfVertices(h) = NamesOfVertices(g)
               /\ NamesOfEnds(h) = WithEdge(NamesOfEnds(g), name,
                                        Joining(g.vlabel[v0], g.vlabel[v1]))
<1> DEFINE h == CreateEdge(g, v0, v1, name)
           joined == Joining(v0, v1)
<1>1. /\ g \in DualGraphs(ne, nv, EdgeNames, VertexNames)
      /\ DOMAIN g.edges = IndexRange(ne)
      /\ name \in EdgeNames
    BY PartsOfNamedGraph
<1>2. h \in NamedGraphs(ne + 1, nv)
    BY CreateEdgeKeepsNames
<1>3. /\ h.edges = AppendElement(g.edges, joined)
      /\ h.elabel = AppendElement(g.elabel, name)
      /\ h.vlabel = g.vlabel
    BY <1>1, CreatedEdge
<1>4. h.edges[ne] = joined
    BY <1>1, <1>3, AppendedVector
<1>5. v0 # NoId /\ v1 # NoId
    BY DEF IndexRange, NoId
<1> HIDE DEF h
<1>6. SeenEnds(h, ne) = Joining(g.vlabel[v0], g.vlabel[v1])
    BY <1>3, <1>4, <1>5 DEF SeenEnds, NameAt, VertexAt, Joining
<1> HIDE DEF joined
<1>7. /\ NamesOfVertices(h) = NamesOfVertices(g)
      /\ NamesOfEnds(h) = WithEdge(NamesOfEnds(g), name, SeenEnds(h, ne))
    BY <1>2, <1>3, AddedEdgeIsSeen
<1>8. QED
    BY <1>6, <1>7 DEF h

\* set_edge_vertex() changes what is seen at one end.
LEMMA SetEdgeVertexIsSeen ==
    ASSUME NEW ne \in Nat, NEW nv \in Nat, NEW g \in NamedGraphs(ne, nv),
           NEW ev \in IndexRange(ne) \X Sides, NEW v \in IndexRange(nv)
    PROVE  LET h == SetEdgeVertex(g, ev, v)
               seen == <<g.elabel[ev[1]], ev[2]>>
           IN  /\ NamesOfVertices(h) = NamesOfVertices(g)
               /\ NamesOfEnds(h) = WithEnd(NamesOfEnds(g), seen, g.vlabel[v])
<1> DEFINE h == SetEdgeVertex(g, ev, v)
           ends == NamesOfEnds(g)
           e1 == ev[1]
           side1 == ev[2]
           new == WithEnd(ends, <<g.elabel[e1], side1>>, g.vlabel[v])
<1>1. /\ g \in DualGraphs(ne, nv, EdgeNames, VertexNames)
      /\ g.edges \in [IndexRange(ne) -> [Sides -> Ends(nv)]]
      /\ g.elabel \in Injection(IndexRange(ne), EdgeNames)
    BY PartsOfNamedGraph
<1>2. /\ h \in NamedGraphs(ne, nv)
      /\ h.edges = WithEnd(g.edges, ev, v)
      /\ h.elabel = g.elabel
      /\ h.vlabel = g.vlabel
    BY <1>1, SetKeepsDual, SetEdgeVertexKeepsNames
<1>3. /\ DOMAIN ends = Range(g.elabel)
      /\ ends = [name \in Range(g.elabel) |-> ends[name]]
      /\ \A e \in IndexRange(ne) :
            /\ g.elabel[e] \in Range(g.elabel)
            /\ ends[g.elabel[e]] = SeenEnds(g, e)
    BY EndsUnderName
<1>4. /\ e1 \in IndexRange(ne) /\ side1 \in Sides
      /\ v # NoId
    BY DEF IndexRange, NoId
<1>5. \A e \in IndexRange(ne) : g.elabel[e] = g.elabel[e1] => e = e1
    BY <1>1, <1>4 DEF Injection, IsInjective
<1>6. /\ \A e \in IndexRange(ne) : e # e1 => h.edges[e] = g.edges[e]
      /\ h.edges[e1] = [g.edges[e1] EXCEPT ![side1] = v]
    BY <1>1, <1>2, <1>4 DEF WithEnd
<1>7. \A e \in IndexRange(ne) : e # e1 => SeenEnds(h, e) = SeenEnds(g, e)
    BY <1>1, <1>2, <1>6, SameSeenEnds
<1> HIDE DEF h
<1>8. SeenEnds(h, e1) = [SeenEnds(g, e1) EXCEPT ![side1] = g.vlabel[v]]
    <2>1. ASSUME NEW side \in Sides
          PROVE  NameAt(h, <<e1, side>>) =
                    IF side = side1 THEN g.vlabel[v]
                    ELSE NameAt(g, <<e1, side>>)
        <3>1. VertexAt(h, <<e1, side>>) =
                    IF side = side1 THEN v ELSE VertexAt(g, <<e1, side>>)
            BY <1>1, <1>4, <1>6 DEF VertexAt
        <3>2. QED
            BY <1>2, <1>4, <3>1 DEF NameAt
    <2>2. QED
        BY <2>1 DEF SeenEnds
<1> HIDE DEF ends, e1, side1
<1>9. \A e \in IndexRange(ne) : new[g.elabel[e]] = SeenEnds(h, e)
    <2> SUFFICES ASSUME NEW e \in IndexRange(ne)
                 PROVE  new[g.elabel[e]] = SeenEnds(h, e)
        OBVIOUS
    <2>1. CASE e = e1
        BY <1>3, <1>4, <1>8, <2>1 DEF WithEnd
    <2>2. CASE e # e1
        BY <1>3, <1>4, <1>5, <1>7, <2>2 DEF WithEnd
    <2>3. QED
        BY <2>1, <2>2
<1>10. new = [name \in Range(g.elabel) |-> new[name]]
    BY <1>3 DEF WithEnd
<1> HIDE DEF new
<1>11. NamesOfEnds(h) = new
    BY <1>2, <1>9, <1>10, EndsFromEdges
<1>12. NamesOfVertices(h) = NamesOfVertices(g)
    BY <1>2 DEF NamesOfVertices
<1>13. QED
    BY <1>11, <1>12, Zenon DEF new, ends, h, e1, side1

\* The edges that are left when those named in names are deleted.
WithoutEdges(ends, names) == [e \in DOMAIN ends \ names |-> ends[e]]

\* delete_edges() removes the edges and changes no end.
LEMMA DeleteEdgesIsSeen ==
    ASSUME NEW ne \in Nat, NEW nv \in Nat, NEW g \in NamedGraphs(ne, nv),
           NEW D, D \subseteq IndexRange(ne)
    PROVE  LET h == DeleteEdges(g, D)
               names == {g.elabel[e] : e \in D}
           IN  /\ NamesOfVertices(h) = NamesOfVertices(g)
               /\ NamesOfEnds(h) = WithoutEdges(NamesOfEnds(g), names)
<1> DEFINE h == DeleteEdges(g, D)
           names == {g.elabel[e] : e \in D}
           ends == NamesOfEnds(g)
           new == WithoutEdges(ends, names)
           m == NbKept(ne, D)
           old2new == MappingAfterDeletion(ne, D)
<1>1. /\ g \in DualGraphs(ne, nv, EdgeNames, VertexNames)
      /\ DOMAIN g.edges = IndexRange(ne)
      /\ DOMAIN g.elabel = IndexRange(ne)
      /\ g.edges \in [IndexRange(ne) -> [Sides -> Ends(nv)]]
      /\ g.elabel \in Injection(IndexRange(ne), EdgeNames)
    BY PartsOfNamedGraph
<1>2. /\ m \in Nat
      /\ h \in NamedGraphs(m, nv)
    BY DeleteEdgesKeepsNames
<1>3. /\ h.edges = DeleteElements(g.edges, D)
      /\ h.elabel = DeleteElements(g.elabel, D)
      /\ h.vlabel = g.vlabel
    BY <1>1, DeletedEdges
<1>4. ASSUME NEW k \in IndexRange(m)
      PROVE  \E e \in IndexRange(ne) \ D :
                h.elabel[k] = g.elabel[e] /\ h.edges[k] = g.edges[e]
    <2>1. PICK e \in IndexRange(ne) \ D :
                old2new[e] = k /\ DeleteElements(g.edges, D)[k] = g.edges[e]
        BY <1>1, DeletedVectorComesFromKept DEF NbKept
    <2>2. DeleteElements(g.elabel, D)[old2new[e]] = g.elabel[e]
        BY <1>1, DeletedVectorFollowsMapping
    <2> HIDE DEF h, old2new
    <2>3. QED
        BY <1>3, <2>1, <2>2
<1>5. Range(h.elabel) = Range(g.elabel) \ names
    BY <1>1, <1>3, DeletedRange
<1>6. /\ DOMAIN ends = Range(g.elabel)
      /\ \A e \in IndexRange(ne) :
            /\ g.elabel[e] \in Range(g.elabel)
            /\ ends[g.elabel[e]] = SeenEnds(g, e)
    BY EndsUnderName
<1>7. \A e \in IndexRange(ne) \ D : g.elabel[e] \notin names
    BY <1>1 DEF Injection, IsInjective
<1> HIDE DEF h, m, ends, names
<1>8. \A k \in IndexRange(m) : new[h.elabel[k]] = SeenEnds(h, k)
    <2> SUFFICES ASSUME NEW k \in IndexRange(m)
                 PROVE  new[h.elabel[k]] = SeenEnds(h, k)
        OBVIOUS
    <2>1. PICK e \in IndexRange(ne) \ D :
                h.elabel[k] = g.elabel[e] /\ h.edges[k] = g.edges[e]
        BY <1>4
    <2>2. SeenEnds(h, k) = SeenEnds(g, e)
        BY <1>1, <1>3, <2>1, SameSeenEnds
    <2>3. g.elabel[e] \in DOMAIN ends \ names
        BY <1>6, <1>7
    <2>4. new[g.elabel[e]] = ends[g.elabel[e]]
        BY <2>3 DEF WithoutEdges
    <2>5. QED
        BY <1>6, <2>1, <2>2, <2>4
<1>9. new = [name \in Range(h.elabel) |-> new[name]]
    BY <1>5, <1>6 DEF WithoutEdges
<1> HIDE DEF new
<1>10. NamesOfEnds(h) = new
    BY <1>2, <1>8, <1>9, EndsFromEdges
<1>11. NamesOfVertices(h) = NamesOfVertices(g)
    BY <1>3 DEF NamesOfVertices
<1>12. QED
    BY <1>10, <1>11, Zenon DEF new, ends, h, names

\* permute_edges() is not seen.
LEMMA PermuteEdgesIsSeen ==
    ASSUME NEW ne \in Nat, NEW nv \in Nat, NEW g \in NamedGraphs(ne, nv),
           NEW p \in Bijection(IndexRange(ne), IndexRange(ne))
    PROVE  LET h == PermuteEdges(g, p)
           IN  /\ NamesOfVertices(h) = NamesOfVertices(g)
               /\ NamesOfEnds(h) = NamesOfEnds(g)
<1> DEFINE h == PermuteEdges(g, p)
<1>1. /\ g \in DualGraphs(ne, nv, EdgeNames, VertexNames)
      /\ DOMAIN g.edges = IndexRange(ne)
      /\ DOMAIN g.elabel = IndexRange(ne)
      /\ g.edges \in [IndexRange(ne) -> [Sides -> Ends(nv)]]
    BY PartsOfNamedGraph
<1>2. /\ h \in NamedGraphs(ne, nv)
      /\ h.edges = PermuteElements(g.edges, p)
      /\ h.elabel = PermuteElements(g.elabel, p)
      /\ h.vlabel = g.vlabel
    BY <1>1, PermutedEdges, PermuteEdgesKeepsNames
<1>3. Range(h.elabel) = Range(g.elabel)
    BY <1>1, <1>2, PermutedRange
<1>4. p \in [IndexRange(ne) -> IndexRange(ne)]
    BY DEF Bijection, Injection
<1> HIDE DEF h
<1>5. ASSUME NEW k \in IndexRange(ne)
      PROVE  \E e \in IndexRange(ne) :
                h.elabel[k] = g.elabel[e] /\ SeenEnds(h, k) = SeenEnds(g, e)
    <2>1. /\ p[k] \in IndexRange(ne)
          /\ h.elabel[k] = g.elabel[p[k]]
          /\ h.edges[k] = g.edges[p[k]]
        BY <1>1, <1>2, <1>4 DEF PermuteElements
    <2>2. SeenEnds(h, k) = SeenEnds(g, p[k])
        BY <1>1, <1>2, <2>1, SameSeenEnds
    <2>3. QED
        BY <2>1, <2>2
<1>6. NamesOfEnds(h) = NamesOfEnds(g)
    BY <1>2, <1>3, <1>5, SeenAlike
<1>7. QED
    BY <1>2, <1>6 DEF h, NamesOfVertices

\* copy() is not seen.
LEMMA CopyIsSeen ==
    ASSUME NEW ne \in Nat, NEW nv \in Nat, NEW g \in NamedGraphs(ne, nv)
    PROVE  LET h == CopyGraph(g)
           IN  /\ NamesOfVertices(h) = NamesOfVertices(g)
               /\ NamesOfEnds(h) = NamesOfEnds(g)
<1> DEFINE h == CopyGraph(g)
<1>1. /\ g \in DualGraphs(ne, nv, EdgeNames, VertexNames)
      /\ g.edges \in [IndexRange(ne) -> [Sides -> Ends(nv)]]
    BY PartsOfNamedGraph
<1>2. /\ h \in NamedGraphs(ne, nv)
      /\ h.edges = g.edges
      /\ h.elabel = g.elabel
      /\ h.vlabel = g.vlabel
    BY <1>1, CopiedGraph, CopyKeepsNames
<1> HIDE DEF h
<1>3. \A e \in IndexRange(ne) : SeenEnds(h, e) = SeenEnds(g, e)
    BY <1>1, <1>2, SameSeenEnds
<1>4. NamesOfEnds(h) = NamesOfEnds(g)
    BY <1>2, <1>3, SeenAlike
<1>5. QED
    BY <1>2, <1>4 DEF h, NamesOfVertices

\* Every extremity in g has the same name in h, at the new index of its vertex.
NamesFollow(g, h, old2new, ne) ==
    \A x \in IndexRange(ne) \X Sides :
        /\ old2new[VertexAt(g, x)] # NoId
        /\ h.vlabel[old2new[VertexAt(g, x)]] = g.vlabel[VertexAt(g, x)]

\* Vertices that keep their names under their new indices are not seen to move.
LEMMA RenumberedVerticesAreSeen ==
    ASSUME NEW ne \in Nat, NEW nv \in Nat, NEW g \in NamedGraphs(ne, nv),
           NEW mv \in Nat, NEW h \in NamedGraphs(ne, mv), NEW old2new,
           h.edges = NewEnds(g.edges, old2new), h.elabel = g.elabel,
           EndsSet(g, ne), NamesFollow(g, h, old2new, ne)
    PROVE  NamesOfEnds(h) = NamesOfEnds(g)
<1>1. DOMAIN g.edges = IndexRange(ne)
    BY PartsOfNamedGraph
<1>2. ASSUME NEW e \in IndexRange(ne), NEW side \in Sides
      PROVE  NameAt(h, <<e, side>>) = NameAt(g, <<e, side>>)
    <2> DEFINE x == <<e, side>>
    <2>1. x \in IndexRange(ne) \X Sides
        OBVIOUS
    <2>2. VertexAt(h, x) = old2new[VertexAt(g, x)]
        <3> DEFINE edges == g.edges
        <3>1. e \in DOMAIN edges
            BY <1>1
        <3> HIDE DEF edges
        <3>2. NewEnds(edges, old2new)[e]
                    = [s \in Sides |-> old2new[edges[e][s]]]
            BY <3>1 DEF NewEnds
        <3>3. NewEnds(edges, old2new)[e][side] = old2new[edges[e][side]]
            BY <3>2
        <3>4. h.edges = NewEnds(edges, old2new)
            BY DEF edges
        <3>5. h.edges[e][side] = old2new[edges[e][side]]
            BY <3>3, <3>4
        <3>6. QED
            BY <3>5 DEF VertexAt, edges
    <2> HIDE DEF x
    <2>3. VertexAt(g, x) # NoId
        BY <2>1 DEF EndsSet
    <2>4. /\ VertexAt(h, x) # NoId
          /\ h.vlabel[VertexAt(h, x)] = g.vlabel[VertexAt(g, x)]
        BY <2>1, <2>2 DEF NamesFollow
    <2>5. NameAt(h, x) = h.vlabel[VertexAt(h, x)]
        BY <2>4 DEF NameAt
    <2>6. NameAt(g, x) = g.vlabel[VertexAt(g, x)]
        BY <2>3 DEF NameAt
    <2>7. QED
        BY <2>4, <2>5, <2>6 DEF x
<1>3. \A e \in IndexRange(ne) : SeenEnds(h, e) = SeenEnds(g, e)
    BY <1>2 DEF SeenEnds
<1>4. QED
    BY <1>3, SeenAlike

\* An isolated vertex is at the end of no edge.
LEMMA IsolatedIsNoEnd ==
    ASSUME NEW ne \in Nat, NEW nv \in Nat, NEW g \in NamedGraphs(ne, nv),
           EndsSet(g, ne), NEW D, D \subseteq IsolatedVertices(g),
           NEW x \in IndexRange(ne) \X Sides
    PROVE  VertexAt(g, x) \in IndexRange(nv) \ D
<1>1. /\ g \in DualGraphs(ne, nv, EdgeNames, VertexNames)
      /\ g.edges \in [IndexRange(ne) -> [Sides -> Ends(nv)]]
    BY PartsOfNamedGraph
<1>2. VertexAt(g, x) \in IndexRange(nv)
    BY <1>1 DEF VertexAt, EndsSet, Ends
<1>3. x \in ToSet(g.around[VertexAt(g, x)])
    BY <1>1, <1>2 DEF DualGraphs, ListsFollowEdges
<1>4. g.around[VertexAt(g, x)] # <<>>
    BY <1>3 DEF ToSet
<1>5. QED
    BY <1>2, <1>4 DEF IsolatedVertices

\* delete_vertices() of isolated vertices removes names that are at no end, and
\* changes no end.
LEMMA DeleteVerticesIsSeen ==
    ASSUME NEW ne \in Nat, NEW nv \in Nat, NEW g \in NamedGraphs(ne, nv),
           EndsSet(g, ne), NEW D, D \subseteq IsolatedVertices(g)
    PROVE  LET h == DeleteVertices(g, D)
               names == {g.vlabel[v] : v \in D}
           IN  /\ NamesOfVertices(h) = NamesOfVertices(g) \ names
               /\ NamesOfEnds(h) = NamesOfEnds(g)
               /\ \A e \in IndexRange(ne), side \in Sides :
                    SeenEnds(g, e)[side] \notin names
<1> DEFINE h == DeleteVertices(g, D)
           names == {g.vlabel[v] : v \in D}
           m == NbKept(nv, D)
           old2new == MappingAfterDeletion(nv, D)
<1>1. /\ g \in DualGraphs(ne, nv, EdgeNames, VertexNames)
      /\ DOMAIN g.around = IndexRange(nv)
      /\ DOMAIN g.vlabel = IndexRange(nv)
      /\ g.vlabel \in Injection(IndexRange(nv), VertexNames)
    BY PartsOfNamedGraph
<1>2. /\ m \in Nat
      /\ h \in NamedGraphs(ne, m)
    BY DeleteVerticesKeepsNames
<1>3. /\ h.edges = NewEnds(g.edges, old2new)
      /\ h.elabel = g.elabel
      /\ h.vlabel = DeleteElements(g.vlabel, D)
    BY <1>1, DeletedVertices
<1>4. D \subseteq IndexRange(nv)
    BY <1>1 DEF IsolatedVertices, GraphVertices
<1>5. NamesOfVertices(h) = NamesOfVertices(g) \ names
    BY <1>1, <1>3, <1>4, DeletedRange DEF NamesOfVertices
<1>6. ASSUME NEW x \in IndexRange(ne) \X Sides
      PROVE  /\ VertexAt(g, x) \in IndexRange(nv) \ D
             /\ old2new[VertexAt(g, x)] # NoId
             /\ h.vlabel[old2new[VertexAt(g, x)]] = g.vlabel[VertexAt(g, x)]
    <2> DEFINE v == VertexAt(g, x)
    <2>1. v \in IndexRange(nv) \ D
        BY IsolatedIsNoEnd
    <2> HIDE DEF v
    <2>2. DeleteElements(g.vlabel, D)[old2new[v]] = g.vlabel[v]
        BY <1>1, <2>1, DeletedVectorFollowsMapping
    <2>3. old2new[v] \in IndexRange(Cardinality(IndexRange(nv) \ D))
        BY <2>1, MappingIsOneToOne
    <2>4. NoId \notin IndexRange(Cardinality(IndexRange(nv) \ D))
        BY <1>2 DEF IndexRange, NoId, NbKept
    <2> HIDE DEF old2new, h
    <2>5. /\ v \in IndexRange(nv) \ D
          /\ old2new[v] # NoId
          /\ h.vlabel[old2new[v]] = g.vlabel[v]
        BY <1>3, <2>1, <2>2, <2>3, <2>4
    <2>6. QED
        BY <2>5 DEF v
<1> HIDE DEF h, m, old2new
<1>7. NamesOfEnds(h) = NamesOfEnds(g)
    <2>1. NamesFollow(g, h, old2new, ne)
        BY <1>6 DEF NamesFollow
    <2>2. QED
        BY <1>2, <1>3, <2>1, RenumberedVerticesAreSeen
<1>8. ASSUME NEW e \in IndexRange(ne), NEW side \in Sides
      PROVE  SeenEnds(g, e)[side] \notin names
    <2> DEFINE x == <<e, side>>
               v == VertexAt(g, x)
    <2>1. x \in IndexRange(ne) \X Sides
        OBVIOUS
    <2>2. v \in IndexRange(nv) \ D /\ v # NoId
        BY <1>6, <2>1 DEF EndsSet
    <2>3. SeenEnds(g, e)[side] = NameAt(g, x)
        BY DEF SeenEnds
    <2> HIDE DEF x
    <2>4. NameAt(g, x) = g.vlabel[v]
        BY <2>2 DEF NameAt
    <2>5. \A w \in D : g.vlabel[w] # g.vlabel[v]
        BY <1>1, <1>4, <2>2 DEF Injection, IsInjective
    <2>6. QED
        BY <2>3, <2>4, <2>5
<1>9. QED
    BY <1>5, <1>7, <1>8 DEF h

\* permute_vertices() is not seen.
LEMMA PermuteVerticesIsSeen ==
    ASSUME NEW ne \in Nat, NEW nv \in Nat, NEW g \in NamedGraphs(ne, nv),
           EndsSet(g, ne), NEW p \in Bijection(IndexRange(nv), IndexRange(nv))
    PROVE  LET h == PermuteVertices(g, p)
           IN  /\ NamesOfVertices(h) = NamesOfVertices(g)
               /\ NamesOfEnds(h) = NamesOfEnds(g)
<1> DEFINE h == PermuteVertices(g, p)
           old2new == Old2NewPermutation(p)
<1>1. /\ g \in DualGraphs(ne, nv, EdgeNames, VertexNames)
      /\ DOMAIN g.vlabel = IndexRange(nv)
      /\ g.edges \in [IndexRange(ne) -> [Sides -> Ends(nv)]]
    BY PartsOfNamedGraph
<1>2. /\ h \in NamedGraphs(ne, nv)
      /\ h.edges = NewEnds(g.edges, old2new)
      /\ h.elabel = g.elabel
      /\ h.vlabel = PermuteElements(g.vlabel, p)
    BY <1>1, PermutedVertices, PermuteVerticesKeepsNames
<1>3. NamesOfVertices(h) = NamesOfVertices(g)
    BY <1>1, <1>2, PermutedRange DEF NamesOfVertices
<1>4. ASSUME NEW x \in IndexRange(ne) \X Sides
      PROVE  /\ old2new[VertexAt(g, x)] # NoId
             /\ h.vlabel[old2new[VertexAt(g, x)]] = g.vlabel[VertexAt(g, x)]
    <2> DEFINE v == VertexAt(g, x)
    <2>1. v \in IndexRange(nv)
        BY <1>1 DEF VertexAt, EndsSet, Ends
    <2> HIDE DEF v
    <2>2. PermuteElements(g.vlabel, p)[old2new[v]] = g.vlabel[v]
        BY <1>1, <2>1, PermutedVectorFollowsMapping
    <2>3. old2new \in [IndexRange(nv) -> IndexRange(nv)]
        BY <2>1, Old2NewInvertsPermutation
    <2>4. NoId \notin IndexRange(nv)
        BY DEF IndexRange, NoId
    <2> HIDE DEF old2new, h
    <2>5. /\ old2new[v] # NoId
          /\ h.vlabel[old2new[v]] = g.vlabel[v]
        BY <1>2, <2>1, <2>2, <2>3, <2>4
    <2>6. QED
        BY <2>5 DEF v
<1> HIDE DEF h, old2new
<1>5. NamesFollow(g, h, old2new, ne)
    BY <1>4 DEF NamesFollow
<1>6. NamesOfEnds(h) = NamesOfEnds(g)
    BY <1>2, <1>5, RenumberedVerticesAreSeen
<1>7. QED
    BY <1>3, <1>6 DEF h

\* What is seen when every end named old becomes new.
WithNames(ends, old, new) ==
    [e \in DOMAIN ends |-> [side \in Sides |->
        IF ends[e][side] = old THEN new ELSE ends[e][side]]]

\* replace_vertex() of a vertex with at most one extremity moves that one.
LEMMA ReplaceVertexIsSeen ==
    ASSUME NEW ne \in Nat, NEW nv \in Nat, NEW g \in NamedGraphs(ne, nv),
           NEW old \in IndexRange(nv), NEW new \in IndexRange(nv),
           Len(g.around[old]) <= 1
    PROVE  LET h == ReplaceVertex(g, old, new)
           IN  /\ NamesOfVertices(h) = NamesOfVertices(g)
               /\ NamesOfEnds(h) = WithNames(NamesOfEnds(g), g.vlabel[old],
                                             g.vlabel[new])
<1> DEFINE h == ReplaceVertex(g, old, new)
           ends == NamesOfEnds(g)
           name == g.vlabel[old]
           other == g.vlabel[new]
           moved == WithNames(ends, name, other)
<1>1. /\ g \in DualGraphs(ne, nv, EdgeNames, VertexNames)
      /\ g.edges \in [IndexRange(ne) -> [Sides -> Ends(nv)]]
      /\ g.vlabel \in Injection(IndexRange(nv), VertexNames)
    BY PartsOfNamedGraph
<1>2. /\ h \in NamedGraphs(ne, nv)
      /\ h.edges = MovedEnds(g.edges, old, new)
      /\ h.elabel = g.elabel
      /\ h.vlabel = g.vlabel
    BY <1>1, ReplacedVertex, ReplaceVertexKeepsNames
<1>3. /\ DOMAIN ends = Range(g.elabel)
      /\ \A e \in IndexRange(ne) :
            /\ g.elabel[e] \in Range(g.elabel)
            /\ ends[g.elabel[e]] = SeenEnds(g, e)
    BY EndsUnderName
<1>4. /\ name # NoName /\ new # NoId /\ old # NoId
      /\ \A v \in IndexRange(nv) : g.vlabel[v] = name <=> v = old
    BY <1>1, NoNameAssumption DEF Injection, IsInjective, IndexRange, NoId
<1> HIDE DEF h, ends
<1>5. ASSUME NEW e \in IndexRange(ne), NEW side \in Sides
      PROVE  NameAt(h, <<e, side>>) =
                IF NameAt(g, <<e, side>>) = name
                THEN other ELSE NameAt(g, <<e, side>>)
    <2> DEFINE x == <<e, side>>
               edges == g.edges
               v == edges[e][side]
               w == IF v = old THEN new ELSE v
    <2>1. edges \in [IndexRange(ne) -> [Sides -> Ends(nv)]]
        BY <1>1
    <2>2. v \in Ends(nv) /\ VertexAt(g, x) = v
        BY <2>1 DEF VertexAt
    <2>3. h.edges = MovedEnds(edges, old, new)
        BY <1>2
    <2> HIDE DEF edges
    <2>4. MovedEnds(edges, old, new)[e][side] = w
        BY <2>1 DEF MovedEnds
    <2>5. VertexAt(h, x) = w
        BY <2>3, <2>4 DEF VertexAt
    <2> HIDE DEF x, v, w
    <2>6. /\ NameAt(h, x) = IF w = NoId THEN NoName ELSE g.vlabel[w]
          /\ NameAt(g, x) = IF v = NoId THEN NoName ELSE g.vlabel[v]
        BY <1>2, <2>2, <2>5 DEF NameAt
    <2>7. w = IF v = old THEN new ELSE v
        BY DEF w
    <2>8. v = NoId \/ v \in IndexRange(nv)
        BY <2>2 DEF Ends
    <2>9. NameAt(h, x) = IF NameAt(g, x) = name THEN other ELSE NameAt(g, x)
        BY <1>4, <2>6, <2>7, <2>8
    <2>10. QED
        BY <2>9 DEF x
<1> HIDE DEF name, other
<1>6. ASSUME NEW e \in IndexRange(ne)
      PROVE  moved[g.elabel[e]] = SeenEnds(h, e)
    <2> DEFINE seen == SeenEnds(g, e)
    <2>1. g.elabel[e] \in DOMAIN ends /\ ends[g.elabel[e]] = seen
        BY <1>3
    <2>2. \A side \in Sides : seen[side] = NameAt(g, <<e, side>>)
        BY DEF SeenEnds
    <2> HIDE DEF seen
    <2>3. moved[g.elabel[e]] = [side \in Sides |->
                IF seen[side] = name THEN other ELSE seen[side]]
        BY <2>1 DEF WithNames
    <2>4. QED
        BY <1>5, <2>2, <2>3 DEF SeenEnds
<1>7. moved = [n \in Range(g.elabel) |-> moved[n]]
    BY <1>3 DEF WithNames
<1> HIDE DEF moved
<1>8. NamesOfEnds(h) = moved
    BY <1>2, <1>6, <1>7, EndsFromEdges
<1>9. NamesOfVertices(h) = NamesOfVertices(g)
    BY <1>2 DEF NamesOfVertices
<1>10. QED
    BY <1>8, <1>9, Zenon DEF moved, ends, h, name, other

-----------------------------------------------------------------------------
\* The actions of NamedGraph, on what is seen of the graph.
LEMMA NamedActions ==
    /\ \A name : Named!CreateVertex(name) <=>
            /\ NamesOfVertices(graph') = NamesOfVertices(graph) \cup {name}
            /\ NamesOfEnds(graph') = NamesOfEnds(graph)
    /\ \A name, v0, v1 : Named!CreateEdge(name, v0, v1) <=>
            /\ NamesOfEnds(graph') =
                    WithEdge(NamesOfEnds(graph), name, Joining(v0, v1))
            /\ NamesOfVertices(graph') = NamesOfVertices(graph)
    /\ \A name, side, v : Named!MoveEnd(name, side, v) <=>
            /\ NamesOfEnds(graph') =
                    WithEnd(NamesOfEnds(graph), <<name, side>>, v)
            /\ NamesOfVertices(graph') = NamesOfVertices(graph)
    /\ \A old, new : Named!MoveAllEnds(old, new) <=>
            /\ NamesOfEnds(graph') = WithNames(NamesOfEnds(graph), old, new)
            /\ NamesOfVertices(graph') = NamesOfVertices(graph)
    /\ \A names : Named!DeleteEdges(names) <=>
            /\ NamesOfEnds(graph') = WithoutEdges(NamesOfEnds(graph), names)
            /\ NamesOfVertices(graph') = NamesOfVertices(graph)
<1>1. \A name : Named!CreateVertex(name) <=>
            /\ NamesOfVertices(graph') = NamesOfVertices(graph) \cup {name}
            /\ NamesOfEnds(graph') = NamesOfEnds(graph)
    BY DEF Named!CreateVertex
<1>2. \A name, v0, v1 : Named!CreateEdge(name, v0, v1) <=>
            /\ NamesOfEnds(graph') =
                    WithEdge(NamesOfEnds(graph), name, Joining(v0, v1))
            /\ NamesOfVertices(graph') = NamesOfVertices(graph)
    BY DEF Named!CreateEdge, WithEdge, Joining, Sides
<1>3. \A name, side, v : Named!MoveEnd(name, side, v) <=>
            /\ NamesOfEnds(graph') =
                    WithEnd(NamesOfEnds(graph), <<name, side>>, v)
            /\ NamesOfVertices(graph') = NamesOfVertices(graph)
    BY DEF Named!MoveEnd, WithEnd
<1>4. \A old, new : Named!MoveAllEnds(old, new) <=>
            /\ NamesOfEnds(graph') = WithNames(NamesOfEnds(graph), old, new)
            /\ NamesOfVertices(graph') = NamesOfVertices(graph)
    BY DEF Named!MoveAllEnds, WithNames, Sides
<1>5. \A names : Named!DeleteEdges(names) <=>
            /\ NamesOfEnds(graph') = WithoutEdges(NamesOfEnds(graph), names)
            /\ NamesOfVertices(graph') = NamesOfVertices(graph)
    BY DEF Named!DeleteEdges, WithoutEdges
<1>6. QED
    BY <1>1, <1>2, <1>3, <1>4, <1>5

\* The empty graph is seen empty.
LEMMA InitIsSeen == Init => Named!Init
<1> SUFFICES ASSUME Init
             PROVE  Named!Init
    OBVIOUS
<1>1. graph.vlabel = <<>> /\ graph.elabel = <<>>
    BY DEF Init, EmptyGraph
<1>2. Range(graph.vlabel) = {} /\ Range(graph.elabel) = {}
    BY <1>1 DEF Range
<1>3. NamesOfVertices(graph) = {} /\ NamesOfEnds(graph) = <<>>
    BY <1>2 DEF NamesOfVertices, NamesOfEnds
<1>4. QED
    BY <1>3 DEF Named!Init

\* Every operation does what NamedGraph says, or nothing that is seen.
LEMMA StepIsSeen == IInv /\ [Next]_graph => [Named!Next]_(Named!namedVars)
<1> DEFINE ne == NbEdges(graph)
           nv == NbVertices(graph)
           vertices == NamesOfVertices(graph)
           ends == NamesOfEnds(graph)
           Unseen == UNCHANGED Named!namedVars
<1> SUFFICES ASSUME IInv, [Next]_graph
             PROVE  Named!Next \/ Unseen
    OBVIOUS
<1>1. /\ ne \in Nat
      /\ nv \in Nat
      /\ graph \in NamedGraphs(ne, nv)
      /\ GraphEdges(graph) = IndexRange(ne)
      /\ GraphVertices(graph) = IndexRange(nv)
      /\ EdgeVertices(graph) = IndexRange(ne) \X Sides
      /\ AllEndsSet => EndsSet(graph, ne)
    BY ArgumentsOfBuilder
<1> HIDE DEF ne, nv
<1>2. /\ DOMAIN graph.vlabel = IndexRange(nv)
      /\ \A v \in IndexRange(nv) : graph.vlabel[v] \in vertices
    BY <1>1, PartsOfNamedGraph DEF NamesOfVertices, Range
<1>3. /\ DOMAIN ends = Range(graph.elabel)
      /\ \A e \in IndexRange(ne) :
            /\ graph.elabel[e] \in DOMAIN ends
            /\ ends[graph.elabel[e]] = SeenEnds(graph, e)
    BY <1>1, EndsUnderName
<1>4. /\ NamesOfVertices(graph') = vertices
      /\ NamesOfEnds(graph') = ends
      => Unseen
    BY DEF Named!namedVars
<1>5. CASE RunCreateVertex
    <2>1. PICK name \in VertexNames \ vertices :
                graph' = CreateVertex(graph, name)
        BY <1>5 DEF RunCreateVertex, FreeVertexNames, NamesOfVertices
    <2>2. name \in VertexNames \ Range(graph.vlabel)
        BY DEF NamesOfVertices
    <2>3. Named!CreateVertex(name)
        BY <1>1, <2>1, <2>2, CreateVertexIsSeen, NamedActions
    <2>4. QED
        BY <2>1, <2>3 DEF Named!Next
<1>6. CASE RunCreateEmptyEdge
    <2>1. PICK name \in EdgeNames \ Range(graph.elabel) :
                graph' = CreateEmptyEdge(graph, name)
        BY <1>6 DEF RunCreateEmptyEdge, FreeEdgeNames
    <2>2. Named!CreateEdge(name, NoName, NoName)
        BY <1>1, <2>1, CreateEmptyEdgeIsSeen, NamedActions
    <2>3. name \in EdgeNames \ DOMAIN ends
        BY <1>3
    <2>4. QED
        BY <2>2, <2>3 DEF Named!Next
<1>7. CASE RunCreateEdge
    <2>1. PICK name \in EdgeNames \ Range(graph.elabel), v0 \in IndexRange(nv),
               v1 \in IndexRange(nv) : graph' = CreateEdge(graph, v0, v1, name)
        BY <1>1, <1>7 DEF RunCreateEdge, FreeEdgeNames
    <2>2. Named!CreateEdge(name, graph.vlabel[v0], graph.vlabel[v1])
        BY <1>1, <2>1, CreateEdgeIsSeen, NamedActions
    <2>3. /\ name \in EdgeNames \ DOMAIN ends
          /\ graph.vlabel[v0] \in vertices /\ graph.vlabel[v1] \in vertices
        BY <1>2, <1>3
    <2>4. QED
        BY <2>2, <2>3 DEF Named!Next
<1>8. CASE RunSetEdgeVertex
    <2>1. PICK ev \in IndexRange(ne) \X Sides, v \in IndexRange(nv) :
                graph' = SetEdgeVertex(graph, ev, v)
        BY <1>1, <1>8 DEF RunSetEdgeVertex
    <2>2. Named!MoveEnd(graph.elabel[ev[1]], ev[2], graph.vlabel[v])
        <3> DEFINE name == graph.elabel[ev[1]]
                   side == ev[2]
                   target == graph.vlabel[v]
        <3>1. /\ NamesOfVertices(graph') = vertices
              /\ NamesOfEnds(graph') = WithEnd(ends, <<name, side>>, target)
            BY <1>1, <2>1, SetEdgeVertexIsSeen
        <3> HIDE DEF name, side, target
        <3>2. Named!MoveEnd(name, side, target)
            BY <3>1, NamedActions, Zenon
        <3>3. QED
            BY <3>2 DEF name, side, target
    <2>3. /\ graph.elabel[ev[1]] \in DOMAIN ends
          /\ ev[2] \in {0, 1}
          /\ graph.vlabel[v] \in vertices
        BY <1>2, <1>3 DEF Sides
    <2>4. QED
        BY <2>2, <2>3 DEF Named!Next
<1>9. CASE RunDeleteEdges
    <2>1. PICK D \in SUBSET IndexRange(ne) : graph' = DeleteEdges(graph, D)
        BY <1>1, <1>9 DEF RunDeleteEdges
    <2> DEFINE names == {graph.elabel[e] : e \in D}
    <2>2. Named!DeleteEdges(names)
        BY <1>1, <2>1, DeleteEdgesIsSeen, NamedActions
    <2>3. names \in SUBSET DOMAIN ends
        BY <1>3
    <2>4. QED
        BY <2>2, <2>3 DEF Named!Next
<1>10. CASE RunPermuteEdges
    <2>1. PICK p \in Bijection(IndexRange(ne), IndexRange(ne)) :
                graph' = PermuteEdges(graph, p)
        BY <1>1, <1>10 DEF RunPermuteEdges, PermutationsOf
    <2>2. QED
        BY <1>1, <1>4, <2>1, PermuteEdgesIsSeen
<1>11. ASSUME RunDeleteAllIsolatedVertices \/ RunDeleteVertices
       PROVE  Named!Next
    <2>1. PICK D \in SUBSET IsolatedVertices(graph) :
                graph' = DeleteVertices(graph, D)
        BY <1>11 DEF RunDeleteAllIsolatedVertices, RunDeleteVertices
    <2>2. EndsSet(graph, ne)
        BY <1>1, <1>11 DEF RunDeleteAllIsolatedVertices, RunDeleteVertices
    <2> DEFINE names == {graph.vlabel[v] : v \in D}
    <2>3. /\ NamesOfVertices(graph') = vertices \ names
          /\ NamesOfEnds(graph') = ends
          /\ \A e \in IndexRange(ne), side \in Sides :
                SeenEnds(graph, e)[side] \notin names
        BY <1>1, <2>1, <2>2, DeleteVerticesIsSeen
    <2>4. names \in SUBSET vertices
        BY <1>1, <1>2 DEF IsolatedVertices
    <2>5. names \cap Named!Joined = {}
        <3>1. ASSUME NEW name \in DOMAIN ends, NEW side \in {0, 1}
              PROVE  ends[name][side] \notin names
            <4>1. PICK e \in IndexRange(ne) : name = graph.elabel[e]
                <5>1. DOMAIN graph.elabel = IndexRange(ne)
                    BY <1>1, PartsOfNamedGraph
                <5>2. QED
                    BY <1>3, <5>1 DEF Range
            <4>2. ends[name] = SeenEnds(graph, e)
                BY <1>3, <4>1
            <4>3. QED
                BY <2>3, <4>2 DEF Sides
        <3>2. QED
            BY <3>1 DEF Named!Joined
    <2>6. Named!DeleteVertices(names)
        BY <2>3, <2>5 DEF Named!DeleteVertices
    <2>7. QED
        BY <2>4, <2>6 DEF Named!Next
<1>12. CASE RunPermuteVertices
    <2>1. PICK p \in Bijection(IndexRange(nv), IndexRange(nv)) :
                graph' = PermuteVertices(graph, p)
        BY <1>1, <1>12 DEF RunPermuteVertices, PermutationsOf
    <2>2. EndsSet(graph, ne)
        BY <1>1, <1>12 DEF RunPermuteVertices
    <2>3. QED
        BY <1>1, <1>4, <2>1, <2>2, PermuteVerticesIsSeen
<1>13. CASE RunCopy
    BY <1>1, <1>4, <1>13, CopyIsSeen DEF RunCopy
<1>14. ASSUME NEW old \in GraphVertices(graph),
              NEW new \in GraphVertices(graph),
              Len(graph.around[old]) <= 1, RunReplaceVertex(old, new)
       PROVE  Named!Next
    <2>1. old \in IndexRange(nv) /\ new \in IndexRange(nv)
        BY <1>1
    <2>2. graph' = ReplaceVertex(graph, old, new)
        BY <1>14 DEF RunReplaceVertex
    <2>3. Named!MoveAllEnds(graph.vlabel[old], graph.vlabel[new])
        BY <1>1, <1>14, <2>1, <2>2, ReplaceVertexIsSeen, NamedActions
    <2>4. graph.vlabel[old] \in vertices /\ graph.vlabel[new] \in vertices
        BY <1>2, <2>1
    <2>5. QED
        BY <2>3, <2>4 DEF Named!Next
<1>15. CASE UNCHANGED graph
    BY <1>4, <1>15
<1>16. QED
    BY <1>5, <1>6, <1>7, <1>8, <1>9, <1>10, <1>11, <1>12, <1>13, <1>14, <1>15
    DEF Next, Operations

\* For somebody who follows the elements by name, the operations of the builder
\* do what NamedGraph says: no deletion, permutation or copy changes which
\* vertices an edge joins, for any number of vertices and edges.
THEOREM NamedGraphIsImplemented == Spec => ImplementsNamedGraph
<1>1. IInv /\ [Next]_graph => IInv'
    BY StepKeepsNamed
<1>2. QED
    BY <1>1, InitIsNamed, InitIsSeen, StepIsSeen, PTL
    DEF Spec, ImplementsNamedGraph, Named!Spec
===============================================================================
