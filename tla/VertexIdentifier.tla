-------------------------- MODULE VertexIdentifier --------------------------
(***************************************************************************)
(* geode::VertexIdentifier: which vertices of the meshes of a model are    *)
(* the same unique vertex.                                                 *)
(*                                                                         *)
(* It is written twice.  Every unique vertex lists its component vertices; *)
(* every registered component has in its own mesh an attribute with the    *)
(* unique vertex of each of its vertices.  The meshes belong to others:    *)
(* when a builder deletes or permutes mesh vertices the attribute follows  *)
(* at once, as all attributes do, and the lists follow only when somebody  *)
(* calls update_unique_vertices() with the mapping of that change.         *)
(***************************************************************************)
EXTENDS Renumbering

CONSTANTS
    Components,   \* the mesh components of the model
    MeshNames,    \* bound: the vertices of one mesh, by name
    UniqueNames   \* bound: the unique vertices, by name

VARIABLES
    mesh,                \* component -> [mesh vertex -> its name]
    unique_vertex,       \* vertex2unique_vertex_: registered component ->
                         \* [mesh vertex -> unique vertex or NoId]
    component_vertices,  \* unique vertex -> set of <<component, mesh vertex>>
    unnotified,          \* registered component -> [old mesh vertex -> new or
                         \* NoId]: what update_unique_vertices() is to be given
    unique_name          \* history: unique vertex -> name

vars == <<mesh, unique_vertex, component_vertices, unnotified, unique_name>>

-----------------------------------------------------------------------------
Registered == DOMAIN unique_vertex
UniqueVertices == DOMAIN component_vertices
MeshVertices(c) == DOMAIN mesh[c]
NamesOf(c) == {mesh[c][v] : v \in MeshVertices(c)}

SameIndices(c) == [v \in MeshVertices(c) |-> v]

\* The lists know the vertices of c by their present indices.
UpToDate(c) == c \in Registered => unnotified[c] = SameIndices(c)

\* The mesh of c changed by this mapping.
Notify(c, old2new) ==
    unnotified' = [d \in Registered |->
                    IF d = c THEN old2new ELSE unnotified[d]]

FreeMeshNames(c) == MeshNames \ NamesOf(c)
FreeUniqueNames ==
    UniqueNames \ {unique_name[u] : u \in UniqueVertices}

Init ==
    /\ mesh = [c \in Components |-> <<>>]
    /\ unique_vertex = <<>>
    /\ component_vertices = <<>>
    /\ unnotified = <<>>
    /\ unique_name = <<>>

-----------------------------------------------------------------------------
\* register_component(): a new attribute of the mesh, NO_ID everywhere.
RegisterComponent(c) ==
    /\ c \notin Registered
    /\ unique_vertex' = [d \in Registered \cup {c} |->
            IF d = c THEN [v \in MeshVertices(c) |-> NoId]
                     ELSE unique_vertex[d]]
    /\ unnotified' = [d \in Registered \cup {c} |->
            IF d = c THEN SameIndices(c) ELSE unnotified[d]]
    /\ UNCHANGED <<mesh, component_vertices, unique_name>>

\* Mutant: the lists keep the vertices of the component.
UnregisterUnfiltered(c) ==
    /\ c \in Registered
    /\ unique_vertex' = [d \in Registered \ {c} |-> unique_vertex[d]]
    /\ unnotified' = [d \in Registered \ {c} |-> unnotified[d]]
    /\ UNCHANGED <<mesh, component_vertices, unique_name>>

\* unregister_component(): the attribute is deleted, then the lists are
\* filtered, in parallel over the unique vertices.
UnregisterComponent(c) ==
    /\ c \in Registered
    /\ unique_vertex' = [d \in Registered \ {c} |-> unique_vertex[d]]
    /\ unnotified' = [d \in Registered \ {c} |-> unnotified[d]]
    /\ component_vertices' = [u \in UniqueVertices |->
            {cmv \in component_vertices[u] : cmv[1] # c}]
    /\ UNCHANGED <<mesh, unique_name>>

\* create_unique_vertex(), and create_unique_vertices() one by one.
CreateUniqueVertex ==
    /\ \E name \in FreeUniqueNames :
        unique_name' = AppendElement(unique_name, name)
    /\ component_vertices' = AppendElement(component_vertices, {})
    /\ UNCHANGED <<mesh, unique_vertex, unnotified>>

\* set_unique_vertex(): out of the list of the old one, into the new list.
SetUniqueVertex(c, v, u) ==
    /\ c \in Registered
    /\ UpToDate(c)
    /\ unique_vertex' = [unique_vertex EXCEPT ![c][v] = u]
    /\ component_vertices' = [w \in UniqueVertices |->
            IF w = u THEN component_vertices[w] \cup {<<c, v>>}
            ELSE IF w = unique_vertex[c][v]
                 THEN component_vertices[w] \ {<<c, v>>}
                 ELSE component_vertices[w]]
    /\ UNCHANGED <<mesh, unnotified, unique_name>>

\* unset_unique_vertex(), given the unique vertex of the component vertex.
UnsetUniqueVertex(c, v) ==
    /\ c \in Registered
    /\ UpToDate(c)
    /\ unique_vertex[c][v] # NoId
    /\ unique_vertex' = [unique_vertex EXCEPT ![c][v] = NoId]
    /\ component_vertices' =
            [component_vertices EXCEPT ![unique_vertex[c][v]] = @ \ {<<c, v>>}]
    /\ UNCHANGED <<mesh, unnotified, unique_name>>

\* A mesh builder creates a vertex: the attribute is resized.
CreateMeshVertex(c) ==
    /\ UpToDate(c)
    /\ \E name \in FreeMeshNames(c) :
        mesh' = [mesh EXCEPT ![c] = AppendElement(@, name)]
    /\ unique_vertex' = [d \in Registered |->
            IF d = c THEN AppendElement(unique_vertex[d], NoId)
                     ELSE unique_vertex[d]]
    /\ Notify(c, AppendElement(SameIndices(c), Size(mesh[c])))
    /\ UNCHANGED <<component_vertices, unique_name>>

\* Mutant: the attribute loses its last values instead of the deleted ones.
DeleteAndShrink(c, D) ==
    /\ UpToDate(c)
    /\ mesh' = [mesh EXCEPT ![c] = DeleteElements(@, D)]
    /\ unique_vertex' = [d \in Registered |->
            IF d = c THEN [v \in DOMAIN mesh'[c] |-> unique_vertex[d][v]]
                     ELSE unique_vertex[d]]
    /\ Notify(c, MappingAfterDeletion(Size(mesh[c]), D))
    /\ UNCHANGED <<component_vertices, unique_name>>

\* A mesh builder deletes vertices: the attribute is compacted.
DeleteMeshVertices(c, D) ==
    /\ UpToDate(c)
    /\ mesh' = [mesh EXCEPT ![c] = DeleteElements(@, D)]
    /\ unique_vertex' = [d \in Registered |->
            IF d = c THEN DeleteElements(unique_vertex[d], D)
                     ELSE unique_vertex[d]]
    /\ Notify(c, MappingAfterDeletion(Size(mesh[c]), D))
    /\ UNCHANGED <<component_vertices, unique_name>>

\* A mesh builder permutes vertices: the attribute is permuted.
PermuteMeshVertices(c, permutation) ==
    /\ UpToDate(c)
    /\ mesh' = [mesh EXCEPT ![c] = PermuteElements(@, permutation)]
    /\ unique_vertex' = [d \in Registered |->
            IF d = c THEN PermuteElements(unique_vertex[d], permutation)
                     ELSE unique_vertex[d]]
    /\ Notify(c, Old2NewPermutation(permutation))
    /\ UNCHANGED <<component_vertices, unique_name>>

\* update_unique_vertices() with the mapping of the last change of the mesh,
\* in parallel over the unique vertices.
UpdateUniqueVertices(c) ==
    /\ ~ UpToDate(c)
    /\ component_vertices' = [u \in UniqueVertices |->
            {cmv \in component_vertices[u] : cmv[1] # c}
            \cup {<<c, unnotified[c][v]>> :
                    v \in {w \in DOMAIN unnotified[c] :
                            /\ <<c, w>> \in component_vertices[u]
                            /\ unnotified[c][w] # NoId}}]
    /\ Notify(c, SameIndices(c))
    /\ UNCHANGED <<mesh, unique_vertex, unique_name>>

\* delete_isolated_vertices(): the attributes are renumbered for the component
\* vertices found in the lists, so every list has to be up to date.
DeleteIsolatedVertices ==
    LET D == {u \in UniqueVertices : component_vertices[u] = {}}
        old2new == MappingAfterDeletion(Size(component_vertices), D)
        Listed(c, v) == \E u \in UniqueVertices : <<c, v>> \in component_vertices[u]
    IN  /\ \A c \in Registered : UpToDate(c)
        /\ component_vertices' = DeleteElements(component_vertices, D)
        /\ unique_name' = DeleteElements(unique_name, D)
        /\ unique_vertex' = [c \in Registered |-> [v \in MeshVertices(c) |->
                IF Listed(c, v) /\ unique_vertex[c][v] # NoId
                THEN old2new[unique_vertex[c][v]]
                ELSE unique_vertex[c][v]]]
        /\ UNCHANGED <<mesh, unnotified>>

PermutationsOf(S) ==
    {p \in [S -> S] : \A v, w \in S : p[v] = p[w] => v = w}

Next ==
    \/ \E c \in Components :
          \/ RegisterComponent(c)
          \/ UnregisterComponent(c)
          \/ CreateMeshVertex(c)
          \/ UpdateUniqueVertices(c)
          \/ \E v \in MeshVertices(c) :
                \/ \E u \in UniqueVertices : SetUniqueVertex(c, v, u)
                \/ UnsetUniqueVertex(c, v)
          \/ \E D \in SUBSET MeshVertices(c) : DeleteMeshVertices(c, D)
          \/ \E permutation \in PermutationsOf(MeshVertices(c)) :
                PermuteMeshVertices(c, permutation)
    \/ CreateUniqueVertex
    \/ DeleteIsolatedVertices

Spec == Init /\ [][Next]_vars

-----------------------------------------------------------------------------
TypeOK ==
    /\ DOMAIN mesh = Components
    /\ DOMAIN unnotified = Registered
    /\ Registered \subseteq Components
    /\ \A c \in Components : MeshVertices(c) = IndexRange(Size(mesh[c]))
    /\ \A c \in Registered :
          /\ \A v \in DOMAIN unnotified[c] :
                unnotified[c][v] \in MeshVertices(c) \cup {NoId}
          /\ unique_vertex[c] \in [MeshVertices(c) -> UniqueVertices \cup {NoId}]
    /\ UniqueVertices = IndexRange(Size(component_vertices))
    /\ \A u \in UniqueVertices :
          component_vertices[u] \subseteq Components \X Nat
    /\ DOMAIN unique_name = UniqueVertices

\* What a list says the attribute says too, or the mesh has deleted the vertex.
ListedIsIdentified ==
    \A u \in UniqueVertices : \A cmv \in component_vertices[u] :
        LET c == cmv[1]
            v == cmv[2]
        IN  /\ c \in Registered
            /\ v \in DOMAIN unnotified[c]
            /\ \/ unnotified[c][v] = NoId
               \/ unique_vertex[c][unnotified[c][v]] = u

\* What an attribute says of a vertex known to the lists, a list says too.
IdentifiedIsListed ==
    \A c \in Registered : \A v \in DOMAIN unnotified[c] :
        LET w == unnotified[c][v]
        IN  (w # NoId /\ unique_vertex[c][w] # NoId) =>
                <<c, v>> \in component_vertices[unique_vertex[c][w]]

ListedOnce ==
    \A u, w \in UniqueVertices :
        component_vertices[u] \cap component_vertices[w] # {} => u = w

\* The lists and the attributes say the same of every component whose lists
\* were told of the last change of its mesh; of the others they say the same
\* through the mapping that update_unique_vertices() will be given, and what
\* they say beyond that is of vertices that the mesh has deleted.  A mesh vertex
\* is in one list at most, also while the lists are out of date.
ListsMatchAttributes ==
    /\ TypeOK
    /\ ListedIsIdentified
    /\ IdentifiedIsListed
    /\ ListedOnce

VertexNamed(c, name) == CHOOSE v \in MeshVertices(c) : mesh[c][v] = name

\* The mesh vertices that have a unique vertex, by name.
IdentifiedNames ==
    {x \in Registered \X MeshNames :
        \E v \in MeshVertices(x[1]) :
            mesh[x[1]][v] = x[2] /\ unique_vertex[x[1]][v] # NoId}

Identified ==
    [x \in IdentifiedNames |->
        unique_name[unique_vertex[x[1]][VertexNamed(x[1], x[2])]]]

Abstract == INSTANCE Identification WITH
    registered <- Registered,
    vertices <- [c \in Components |-> NamesOf(c)],
    uniques <- {unique_name[u] : u \in UniqueVertices},
    identified <- Identified

\* Whatever is deleted, permuted or renumbered on either side, a mesh vertex
\* stays with the unique vertex it was identified with.
ImplementsIdentification == Abstract!Spec
=============================================================================
