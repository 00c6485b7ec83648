------------------------------- MODULE Graph -------------------------------
(***************************************************************************)
(* The data structure of geode::Graph and the operations of GraphBuilder.  *)
(*                                                                         *)
(* A graph is two groups of attributes.  On the edges: the two vertices of *)
(* each edge, and whatever users attach to edges.  On the vertices: the    *)
(* list edges_around of the edge extremities at each vertex, and whatever  *)
(* users attach to vertices.  The lists repeat what the edges say, and     *)
(* every operation has to keep the two in step by hand.                    *)
(*                                                                         *)
(* This module holds the operations, as operators from graph to graph;     *)
(* GraphBuilder runs them as a state machine and Relationships stores the  *)
(* relations of a model in one.                                            *)
(***************************************************************************)
EXTENDS Loops

\* A graph g has
\*   g.edges   edge -> [side -> vertex], the attribute "edges"
\*   g.elabel  edge -> value of a user attribute on the edges
\*   g.around  vertex -> sequence of <<edge, side>>, "edges_around_vertex"
\*   g.vlabel  vertex -> value of a user attribute on the vertices
EmptyGraph ==
    [edges |-> <<>>, elabel |-> <<>>, around |-> <<>>, vlabel |-> <<>>]

NbVertices(g) == Size(g.around)
NbEdges(g) == Size(g.edges)
GraphVertices(g) == DOMAIN g.around
GraphEdges(g) == DOMAIN g.edges

Sides == {0, 1}
EdgeVertices(g) == GraphEdges(g) \X Sides

\* edge_vertex(): the vertex at an edge extremity.
VertexAt(g, ev) == g.edges[ev[1]][ev[2]]

\* EdgeVertex::opposite()
Opposite(ev) == <<ev[1], 1 - ev[2]>>

\* The lists around the vertices say what the edges say, once each.
IsDual(g) ==
    /\ \A v \in GraphVertices(g) : \A i, j \in DOMAIN g.around[v] :
          g.around[v][i] = g.around[v][j] => i = j
    /\ \A v \in GraphVertices(g) : ToSet(g.around[v]) =
          {ev \in EdgeVertices(g) : VertexAt(g, ev) = v}

-----------------------------------------------------------------------------
\* disassociate_edge_vertex_to_vertex(): erased from the list of its vertex,
\* when it has one and is there.
Disassociate(g, ev) ==
    LET previous == VertexAt(g, ev)
    IN  IF previous \in GraphVertices(g)
        THEN [g EXCEPT !.around[previous] = RemoveFirst(@, ev)]
        ELSE g

\* Added to the list of v, once.
AddToList(g, ev, v) ==
    IF ev \in ToSet(g.around[v])
    THEN g
    ELSE [g EXCEPT !.around[v] = Append(@, ev)]

\* Mutant: added to the list of v, left in the list of the previous vertex.
AssociateOnly(g, ev, v) == AddToList(g, ev, v)

\* associate_edge_vertex_to_vertex(): moved to the list of v.
Associate(g, ev, v) == AddToList(Disassociate(g, ev), ev, v)

\* The attribute of the edge is written.
SetEnd(g, ev, v) == [g EXCEPT !.edges[ev[1]][ev[2]] = v]

\* set_edge_vertex()
SetEdgeVertex(g, ev, v) ==
    IF VertexAt(g, ev) = v
    THEN g
    ELSE SetEnd(Associate(g, ev, v), ev, v)

\* create_vertex(): the attributes are resized with their default values.
CreateVertex(g, label) ==
    [g EXCEPT !.around = AppendElement(@, <<>>),
              !.vlabel = AppendElement(@, label)]

\* create_edge(): a new edge, without vertices yet.
CreateEmptyEdge(g, label) ==
    [g EXCEPT !.edges = AppendElement(@, [side \in Sides |-> NoId]),
              !.elabel = AppendElement(@, label)]

\* create_edge(v0, v1): a new edge, then its two extremities one by one.
CreateEdge(g, v0, v1, label) ==
    LET e == NbEdges(g)
        created == CreateEmptyEdge(g, label)
    IN  SetEdgeVertex(SetEdgeVertex(created, <<e, 0>>, v0), <<e, 1>>, v1)

\* edge_from_vertices(): the first edge around v0 that ends at v1, or NoId.
EdgeFromVertices(g, v0, v1) ==
    LET i == SelectInSeq(g.around[v0],
                LAMBDA ev : VertexAt(g, Opposite(ev)) = v1)
    IN  IF i = 0 THEN NoId ELSE g.around[v0][i][1]

-----------------------------------------------------------------------------
\* The new list of one vertex in update_edges_around(): the extremities of
\* deleted edges are left out.
NewEdges(list, old2new) ==
    FoldInOrder(LAMBDA kept, ev :
                    IF old2new[ev[1]] = NoId
                    THEN kept
                    ELSE Append(kept, <<old2new[ev[1]], ev[2]>>),
                <<>>, list)

\* update_edges_around(): every list is rewritten through old2new.
UpdateEdgesAround(g, old2new) ==
    [g EXCEPT !.around = [v \in GraphVertices(g) |->
                             NewEdges(g.around[v], old2new)]]

\* delete_edges()
DeleteEdges(g, D) ==
    IF D = {}
    THEN g
    ELSE [UpdateEdgesAround(g, MappingAfterDeletion(NbEdges(g), D)) EXCEPT
            !.edges = DeleteElements(@, D),
            !.elabel = DeleteElements(@, D)]

\* permute_edges()
PermuteEdges(g, permutation) ==
    [UpdateEdgesAround(g, Old2NewPermutation(permutation)) EXCEPT
        !.edges = PermuteElements(@, permutation),
        !.elabel = PermuteElements(@, permutation)]

\* The extremities in the order of the loops over edges and sides.
EdgeVertexOrder(g) ==
    [i \in 1 .. 2 * NbEdges(g) |-> <<(i - 1) \div 2, (i - 1) % 2>>]

\* update_edge_vertices(): the extremities are moved one at a time to the new
\* index of their vertex, in a graph whose vertex attributes are renumbered
\* already: the previous vertex of an extremity is looked up by its old index
\* among the lists of the new ones.
UpdateEdgeVertices(g, old2new) ==
    FoldInOrder(LAMBDA h, ev :
                    SetEdgeVertex(h, ev, old2new[VertexAt(h, ev)]),
                g, EdgeVertexOrder(g))

\* delete_vertices(D): the vertex attributes first, then the edges.  It throws
\* from inside update_edge_vertices when a vertex of D is on an edge.
DeleteVertices(g, D) ==
    IF D = {}
    THEN g
    ELSE UpdateEdgeVertices(
            [g EXCEPT !.around = DeleteElements(@, D),
                      !.vlabel = DeleteElements(@, D)],
            MappingAfterDeletion(NbVertices(g), D))

\* The vertices that delete_isolated_vertices() looks for.
IsolatedVertices(g) == {v \in GraphVertices(g) : g.around[v] = <<>>}

\* permute_vertices()
PermuteVertices(g, permutation) ==
    UpdateEdgeVertices(
        [g EXCEPT !.around = PermuteElements(@, permutation),
                  !.vlabel = PermuteElements(@, permutation)],
        Old2NewPermutation(permutation))

-----------------------------------------------------------------------------
\* replace_vertex(): the loop walks the list around old by reference while
\* set_edge_vertex erases from that list.  The walk goes over the slots that
\* the list had when it began; an erase shifts the later slots to the left
\* and leaves a stale copy in the last one, and the extremity at hand is a
\* reference to its slot: once erased, it names the next extremity.
ShiftSlots(slots, place, live) ==
    [k \in DOMAIN slots |->
        IF k \in place .. live - 1 THEN slots[k + 1] ELSE slots[k]]

PlaceIn(list, ev) == SelectInSeq(list, LAMBDA x : x = ev)

EraseSlot(w, ev) ==
    LET place == PlaceIn(SubSeq(w.slots, 1, w.live), ev)
    IN  IF place = 0
        THEN w
        ELSE [w EXCEPT !.live = w.live - 1,
                       !.slots = ShiftSlots(w.slots, place, w.live)]

ReplaceVertexStep(w, i) ==
    LET erased == EraseSlot(w, w.slots[i])
        named == erased.slots[i]
        cut == [w.graph EXCEPT !.around[w.from] =
                    SubSeq(erased.slots, 1, erased.live)]
        moved == SetEnd(AddToList(cut, named, w.to), named, w.to)
    IN  IF VertexAt(w.graph, w.slots[i]) = w.to
        THEN w
        ELSE [erased EXCEPT !.graph = moved]

\* replace_vertex(old, new)
ReplaceVertex(g, old, new) ==
    IF old = new
    THEN g
    ELSE LET slots == g.around[old]
         IN  FoldInOrder(ReplaceVertexStep,
                [graph |-> g, slots |-> slots, live |-> Len(slots),
                 from |-> old, to |-> new],
                [i \in DOMAIN slots |-> i]).graph

\* copy() into an empty graph: the vertices and edges with their user
\* attributes (the attributes "edges" and "edges_around_vertex" are not
\* transferable), then the extremities one by one: the lists come out in the
\* order of the edges, whatever it was in g.
CopyGraph(g) ==
    FoldInOrder(LAMBDA h, ev :
                    IF VertexAt(g, ev) = NoId
                    THEN h
                    ELSE SetEdgeVertex(h, ev, VertexAt(g, ev)),
                [edges |-> [e \in GraphEdges(g) |->
                               [side \in Sides |-> NoId]],
                 elabel |-> g.elabel,
                 around |-> [v \in GraphVertices(g) |-> <<>>],
                 vlabel |-> g.vlabel],
                EdgeVertexOrder(g))
=============================================================================
