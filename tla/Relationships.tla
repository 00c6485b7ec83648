---------------------------- MODULE Relationships ----------------------------
(***************************************************************************)
(* geode::Relationships: which component of a model bounds, embeds or      *)
(* collects which.                                                         *)
(*                                                                         *)
(* The relations are the edges of a Graph, from the boundary, internal or  *)
(* item (side 0) to the incident, embedding or collection component (side  *)
(* 1); the attribute "relation_type" of the edges says which.  A component *)
(* is a vertex: the attribute "id" maps the vertex to the component and    *)
(* uuid2index maps it back.  Each removal renumbers the graph, so the two  *)
(* directions and the lists around the vertices have to follow.            *)
(***************************************************************************)
EXTENDS Graph

CONSTANTS
    Components,    \* the uuids of the components
    RelationTypes, \* BOUNDARY_RELATION, INTERNAL_RELATION, ITEM_RELATION
    CopyMappings,  \* the mappings of uuids that a copy may be given
    MaxRelations   \* bound: the relations a behaviour may hold at once

\* A ModelCopyMapping is one to one.
ASSUME MappingAssumption ==
    \A mapping \in CopyMappings :
        mapping \in Injection(DOMAIN mapping, Components)

VARIABLES
    graph,         \* graph_: vlabel is ids_, elabel is relation_type_
    uuid2index     \* uuid2index_

vars == <<graph, uuid2index>>

-----------------------------------------------------------------------------
\* relation_edge_index(): the edge between two components, in any direction.
EdgeBetween(c, d) ==
    IF {c, d} \subseteq DOMAIN uuid2index
    THEN EdgeFromVertices(graph, uuid2index[c], uuid2index[d])
    ELSE NoId

\* Mutant: the indices are not updated.
KeepIndex(kept, old2new) == [c \in kept |-> uuid2index[c]]

\* UuidToIndex::update() of the components that are left.
UpdateIndex(kept, old2new) == [c \in kept |-> old2new[uuid2index[c]]]

\* The edges that end at D, and the graph without D and without them.
EdgesAround(g, D) == {ev[1] : ev \in UNION {ToSet(g.around[v]) : v \in D}}

WithoutVertices(g, D) == DeleteVertices(DeleteEdges(g, EdgesAround(g, D)), D)

\* Deletes D and whatever ends there, then renumbers uuid2index for the
\* components that are kept.
DropVertices(D, kept) ==
    /\ graph' = WithoutVertices(graph, D)
    /\ uuid2index' =
            UpdateIndex(kept, MappingAfterDeletion(NbVertices(graph), D))

\* find_or_create_vertex_id(), on a graph and its index.
FindOrCreate(s, c) ==
    IF c \in DOMAIN s.index
    THEN s
    ELSE [g |-> CreateVertex(s.g, c),
          index |-> [d \in DOMAIN s.index \cup {c} |->
                        IF d = c THEN NbVertices(s.g) ELSE s.index[d]]]

-----------------------------------------------------------------------------
Init == graph = EmptyGraph /\ uuid2index = <<>>

\* Mutant: the ends of the edge are swapped.
AddSwappedRelation(from, to, type) ==
    /\ NbEdges(graph) < MaxRelations
    /\ EdgeBetween(from, to) = NoId
    /\ \E order \in {<<from, to>>, <<to, from>>} :
        LET s == FindOrCreate(FindOrCreate(
                     [g |-> graph, index |-> uuid2index], order[1]), order[2])
        IN  /\ graph' = CreateEdge(s.g, s.index[to], s.index[from], type)
            /\ uuid2index' = s.index

\* add_relation(), when the two are not in relation yet.  The two calls of
\* find_or_create_vertex_id() are arguments of one call: the compiler chooses
\* which of two new components gets the lower index.
AddRelation(from, to, type) ==
    /\ NbEdges(graph) < MaxRelations
    /\ EdgeBetween(from, to) = NoId
    /\ \E order \in {<<from, to>>, <<to, from>>} :
        LET s == FindOrCreate(FindOrCreate(
                     [g |-> graph, index |-> uuid2index], order[1]), order[2])
        IN  /\ graph' = CreateEdge(s.g, s.index[from], s.index[to], type)
            /\ uuid2index' = s.index

\* add_relation() otherwise: a warning, and the existing edge is returned.
AddExistingRelation(from, to) ==
    /\ EdgeBetween(from, to) # NoId
    /\ UNCHANGED vars

\* Mutant: every edge around the first component is deleted.
RemoveEveryRelation(c, d) ==
    /\ EdgeBetween(c, d) # NoId
    /\ graph' = DeleteEdges(graph,
                    {ev[1] : ev \in ToSet(graph.around[uuid2index[c]])})
    /\ UNCHANGED uuid2index

\* remove_relation(): the components stay registered.
RemoveRelation(c, d) ==
    /\ EdgeBetween(c, d) # NoId
    /\ graph' = DeleteEdges(graph, {EdgeBetween(c, d)})
    /\ UNCHANGED uuid2index

\* remove_component()
RemoveComponent(c) ==
    /\ c \in DOMAIN uuid2index
    /\ DropVertices({uuid2index[c]}, DOMAIN uuid2index \ {c})

\* save_relationships() and load_relationships(): the object just written, like
\* the one just read, ends in delete_isolated_vertices().
SaveOrLoad ==
    LET D == IsolatedVertices(graph)
    IN  DropVertices(D, {c \in DOMAIN uuid2index : uuid2index[c] \notin D})

\* The vertices of the components that a copy keeps, under their new uuids.
RenameVertices(g, kept, mapping) ==
    [g EXCEPT !.vlabel = [v \in DOMAIN @ |->
                             IF v \in kept THEN mapping[@[v]] ELSE @[v]]]

\* copy_relationships() into the new object of a clone or conversion.
Copy(mapping) ==
    LET clone == CopyGraph(graph)
        kept == {v \in GraphVertices(clone) :
                    clone.vlabel[v] \in DOMAIN mapping}
        D == GraphVertices(clone) \ kept
        renamed == RenameVertices(clone, kept, mapping)
        old2new == MappingAfterDeletion(NbVertices(clone), D)
        vertexOf(c) == CHOOSE v \in kept : renamed.vlabel[v] = c
    IN  /\ graph' = WithoutVertices(renamed, D)
        /\ uuid2index' = [c \in {renamed.vlabel[v] : v \in kept} |->
                            old2new[vertexOf(c)]]

Next ==
    \/ \E c, d \in Components :
          \/ \E type \in RelationTypes : AddRelation(c, d, type)
          \/ AddExistingRelation(c, d)
          \/ RemoveRelation(c, d)
    \/ \E c \in Components : RemoveComponent(c)
    \/ SaveOrLoad
    \/ \E mapping \in CopyMappings : Copy(mapping)

Spec == Init /\ [][Next]_vars

-----------------------------------------------------------------------------
\* Mutant: a range does not look at which end of the edge it stands.
RangesOfBothSides(c, type, side) ==
    IF c \in DOMAIN uuid2index
    THEN FoldInOrder(
            LAMBDA found, ev :
                IF graph.elabel[ev[1]] = type
                THEN Append(found, graph.vlabel[VertexAt(graph, Opposite(ev))])
                ELSE found,
            <<>>, graph.around[uuid2index[c]])
    ELSE <<>>

\* The ranges: the components at the other end of the edges of one type
\* around c, unless c itself is at the given side.
Ranges(c, type, side) ==
    IF c \in DOMAIN uuid2index
    THEN FoldInOrder(
            LAMBDA found, ev :
                IF graph.elabel[ev[1]] = type /\ ev[2] # side
                THEN Append(found, graph.vlabel[VertexAt(graph, Opposite(ev))])
                ELSE found,
            <<>>, graph.around[uuid2index[c]])
    ELSE <<>>

\* boundaries(), internals(), items()
SourcesOf(c, type) == Ranges(c, type, 0)

\* incidences(), embeddings(), collections()
TargetsOf(c, type) == Ranges(c, type, 1)

\* is_boundary(), is_internal(), is_item()
IsRelated(from, to, type) ==
    LET e == EdgeBetween(from, to)
    IN  /\ e # NoId
        /\ graph.elabel[e] = type
        /\ graph.vlabel[VertexAt(graph, <<e, 0>>)] = from

-----------------------------------------------------------------------------
TypeOK ==
    /\ \A ev \in EdgeVertices(graph) :
          VertexAt(graph, ev) \in GraphVertices(graph)
    /\ graph.elabel \in [IndexRange(NbEdges(graph)) -> RelationTypes]
    /\ graph.vlabel \in [IndexRange(NbVertices(graph)) -> Components]
    /\ DOMAIN graph.around = DOMAIN graph.vlabel
    /\ DOMAIN uuid2index \subseteq Components

\* uuid2index and the attribute "id" are inverse to each other whatever was
\* removed, pruned or copied in between: no component has a stale or shared
\* index, no vertex an unregistered component.
IndexMatchesIds ==
    /\ TypeOK
    /\ DOMAIN uuid2index = Range(graph.vlabel)
    /\ \A v \in GraphVertices(graph) : uuid2index[graph.vlabel[v]] = v

RelationTriples ==
    {<<graph.vlabel[VertexAt(graph, <<e, 0>>)],
       graph.vlabel[VertexAt(graph, <<e, 1>>)], graph.elabel[e]>> :
     e \in GraphEdges(graph)}

\* The three ways to ask about a relation agree: the range of the one side,
\* the range of the other, the predicate; each lists a component once.  Two
\* components are in one relation at most, whichever of them was given first
\* and whatever the types.
QueriesAgree ==
    /\ \A c, d \in Components, type \in RelationTypes :
          IsRelated(c, d, type) <=> <<c, d, type>> \in RelationTriples
    /\ \A c \in Components, type \in RelationTypes :
          /\ IsInjective(SourcesOf(c, type))
          /\ IsInjective(TargetsOf(c, type))
          /\ ToSet(SourcesOf(c, type)) =
                {d \in Components : <<d, c, type>> \in RelationTriples}
          /\ ToSet(TargetsOf(c, type)) =
                {d \in Components : <<c, d, type>> \in RelationTriples}
    /\ \A e, f \in GraphEdges(graph) :
          Range(graph.edges[e]) = Range(graph.edges[f]) => e = f

Abstract == INSTANCE RelationSet WITH
    registered <- DOMAIN uuid2index,
    relations <- RelationTriples

\* Relationships is a set of relations: an operation adds, removes, prunes or
\* copies relations and components as a set would, although it renumbers the
\* vertices and edges that stand for all the others.
ImplementsRelationSet == Abstract!Spec

\* add_relation( from, to ) adds the relation from "from" to "to" and no other,
\* whichever of the two were registered before and whichever gets its vertex
\* first.
AddsTheRelationAsked ==
    [][ NbEdges(graph') > NbEdges(graph) =>
          \A c, d \in Components, type \in RelationTypes :
              AddRelation(c, d, type) => Abstract!Add(c, d, type) ]_vars
=============================================================================
