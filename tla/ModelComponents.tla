--------------------------- MODULE ModelComponents ---------------------------
(***************************************************************************)
(* What a BRep and a Section are made of, and what their builders do to    *)
(* it.                                                                     *)
(*                                                                         *)
(* A model is spread over several parts that know the components by their  *)
(* uuid: one storage for each kind of components, the registry that lists  *)
(* the ids of each kind, Relationships, and VertexIdentifier.  A builder   *)
(* has to tell all of them whatever it does to a component.  Here a model  *)
(* is a record and every operation of a builder a function from models to  *)
(* models, so that operations that read a second model (a copy, a          *)
(* conversion) are written like the others.                                *)
(*                                                                         *)
(* Relationships is taken as the set of relations that module RelationSet  *)
(* specifies and module Relationships is checked to implement.             *)
(***************************************************************************)
EXTENDS Loops

CONSTANTS
    Ids,               \* the uuids
    Kinds,             \* the kinds of components of a BRep, which are more
                       \* than those of a Section
    GivenIds,          \* bound: the uuids that a caller chooses
    MaxComponents,     \* bound: the components that are added one by one
    MaxConcatenated,   \* bound: the components of two models together
    MaxMeshVertices,   \* bound: the vertices of a mesh
    MaxUniqueVertices  \* bound: the unique vertices of a model

\* There are uuids enough: a uuid has 128 bits.
ASSUME IdsAssumption ==
    /\ IsFiniteSet(Ids)
    /\ GivenIds \subseteq Ids
    /\ MaxComponents \in 0 .. Cardinality(Ids)
    /\ MaxConcatenated \in 0 .. Cardinality(Ids)

\* The kinds that the operations below tell from the others.
ASSUME KindsAssumption ==
    {"Corner", "Line", "Surface", "Block", "ModelBoundary"} \subseteq Kinds

ASSUME VerticesAssumption ==
    MaxMeshVertices \in Nat /\ MaxUniqueVertices \in Nat

VARIABLES
    model   \* the model that is built: a BRep or a Section, as its dim tells

\* The kinds whose components have a mesh.
MeshKinds == Kinds \cap {"Corner", "Line", "Surface", "Block"}

\* Of pairs of kinds, the ones that the model has.
Among(pairs) == pairs \cap (Kinds \X Kinds)

BOUNDARY_RELATION == 0
INTERNAL_RELATION == 1
ITEM_RELATION == 2
RelationTypes == {BOUNDARY_RELATION, INTERNAL_RELATION, ITEM_RELATION}

\* VertexIdentifier: the mesh of n vertices none of which is identified.
Unset(n) == [v \in IndexRange(n) |-> NoId]

EmptyModel(d) ==
    [dim |-> d,                                     \* 3 for a BRep
     components |-> [k \in Kinds |-> <<>>],         \* the storages
     inactive |-> {},                               \* the flags active_
     mesh_components |-> [k \in Kinds |-> <<>>],    \* ComponentRegistry
     collection_components |-> [k \in Kinds |-> <<>>],
     registered |-> <<>>,                           \* Relationships: uuid ->
     relations |-> {},                              \* kind, <<from, to, type>>
     unique_vertex |-> <<>>,                        \* VertexIdentifier: uuid ->
                                                    \* [mesh vertex -> unique]
     component_vertices |-> <<>>]                   \* unique vertex ->
                                                    \* {<<kind, uuid, vertex>>}

Stored(m, kind) == ToSet(m.components[kind])
AllStored(m) == UNION {Stored(m, k) : k \in Kinds}
StoredKind(m, id) == CHOOSE k \in Kinds : id \in Stored(m, k)
MeshComponents(m) == UNION {Stored(m, k) : k \in MeshKinds}
NbUniqueVertices(m) == Size(m.component_vertices)

Without(s, id) == Kept(s, ToSet(s) \ {id})

\* The function f, and g where f is not defined.
Joined(f, g) == [x \in DOMAIN f \cup DOMAIN g |->
                    IF x \in DOMAIN f THEN f[x] ELSE g[x]]

\* A new uuid.  Which of the unused ones makes no difference; one that was
\* used by a component since removed may be given again, as a caller may.
Fresh(m) == CHOOSE id \in Ids : id \notin AllStored(m)

\* New uuids for these.
FreshMapping(m, ids) ==
    CHOOSE f \in Injection(ids, Ids \ AllStored(m)) : TRUE

\* There is room for the components and the unique vertices of the other.
Fits(other) ==
    /\ Cardinality(AllStored(model)) + Cardinality(AllStored(other))
            <= MaxConcatenated
    /\ NbUniqueVertices(model) + NbUniqueVertices(other) <= MaxUniqueVertices

-----------------------------------------------------------------------------
\* Storage, relationships, vertex identifier.

\* ComponentsStorage::add_component() of an id that the storage has not.
Create(m, kind, id) == [m EXCEPT !.components[kind] = Append(@, id)]

\* ComponentsStorage::delete_component(): the component goes with its flag.
Delete(m, kind, id) ==
    [m EXCEPT !.components[kind] = Without(@, id),
              !.inactive = @ \ {id}]

\* register_component() of a component whose mesh has n vertices.
RegisterMesh(m, id, n) ==
    [m EXCEPT !.unique_vertex = Joined([c \in {id} |-> Unset(n)], @)]

\* unregister_component() of the VertexIdentifier.
UnregisterMesh(m, id) ==
    [m EXCEPT !.unique_vertex = Restrict(@, DOMAIN @ \ {id}),
              !.component_vertices =
                    [u \in DOMAIN @ |-> {cv \in @[u] : cv[2] # id}]]

\* unregister_component() of the Relationships.
UnregisterComponent(m, id) ==
    [m EXCEPT !.registered = Restrict(@, DOMAIN @ \ {id}),
              !.relations = {r \in @ : id \notin {r[1], r[2]}}]

Between(m, c, d) == {r \in m.relations : {r[1], r[2]} = {c, d}}

\* add_relation(): the two are registered under the kinds they come with,
\* unless they are registered already; a second relation is refused.
Relate(m, from, to, type) ==
    IF Between(m, from[2], to[2]) # {}
    THEN m
    ELSE [m EXCEPT !.registered = Joined(@, [c \in {from[2], to[2]} |->
                                IF c = from[2] THEN from[1] ELSE to[1]]),
                   !.relations = @ \cup {<<from[2], to[2], type>>}]

\* These relations <<from, to, type>>, one by one.
RelateAll(m, relations) ==
    ForEach(LAMBDA acc, r : Relate(acc, r[1], r[2], r[3]), m, relations)

\* remove_relation()
Unrelate(m, c, d) == [m EXCEPT !.relations = @ \ Between(m, c, d)]

CreateUniqueVertices(m, n) ==
    [m EXCEPT !.component_vertices =
        [u \in IndexRange(Size(@) + n) |-> IF u \in DOMAIN @ THEN @[u] ELSE {}]]

\* unset_unique_vertex() of the component vertex cv, which is in the list of
\* u if it is in any.
UnsetUniqueVertex(m, cv, u) ==
    [m EXCEPT !.unique_vertex[cv[2]][cv[3]] = NoId,
              !.component_vertices[u] = @ \ {cv}]

\* set_unique_vertex(): out of the old list, into the new one.
SetUniqueVertex(m, cv, u) ==
    LET old == m.unique_vertex[cv[2]][cv[3]]
        unset == IF old = NoId THEN m ELSE UnsetUniqueVertex(m, cv, old)
    IN  [unset EXCEPT !.unique_vertex[cv[2]][cv[3]] = u,
                      !.component_vertices[u] = @ \cup {cv}]

\* Component vertices are given their unique vertices, as in these pairs.
SetUniqueVertices(m, pairs) ==
    ForEach(LAMBDA acc, x : SetUniqueVertex(acc, x[1], x[2]), m, pairs)

\* delete_isolated_vertices(): the used unique vertices are renumbered, in the
\* lists and in the attributes.
DeleteIsolatedVertices(m) ==
    LET D == {u \in DOMAIN m.component_vertices :
                m.component_vertices[u] = {}}
        old2new == MappingAfterDeletion(NbUniqueVertices(m), D)
        renumbered(u) == IF u = NoId THEN NoId ELSE old2new[u]
    IN  [m EXCEPT !.component_vertices = DeleteElements(@, D),
                  !.unique_vertex = [id \in DOMAIN @ |->
                        [v \in DOMAIN @[id] |-> renumbered(@[id][v])]]]

-----------------------------------------------------------------------------
\* One component, in every part.

\* Mutant: the registry is not told.
AddUnlistedComponent(m, kind, id) == RegisterMesh(Create(m, kind, id), id, 0)

\* add_mesh_component(), after the component was created with an empty mesh.
AddMeshComponent(m, kind, id) ==
    [RegisterMesh(Create(m, kind, id), id, 0)
        EXCEPT !.mesh_components[kind] = Append(@, id)]

\* add_collection_component()
AddCollectionComponent(m, kind, id) ==
    [Create(m, kind, id)
        EXCEPT !.collection_components[kind] = Append(@, id)]

\* add_...() of any kind.
AddComponent(m, kind, id) ==
    IF kind \in MeshKinds THEN AddMeshComponent(m, kind, id)
                          ELSE AddCollectionComponent(m, kind, id)

\* Mutant: the relations of the component are not removed with it.
RemoveStillRelated(m, kind, id) ==
    Delete([UnregisterMesh(m, id)
                EXCEPT !.mesh_components[kind] = Without(@, id)], kind, id)

\* remove_mesh_component(), then the component is deleted.
RemoveMeshComponent(m, kind, id) ==
    Delete([UnregisterMesh(UnregisterComponent(m, id), id)
                EXCEPT !.mesh_components[kind] = Without(@, id)], kind, id)

\* remove_collection_component(), then the component is deleted.
RemoveCollectionComponent(m, kind, id) ==
    Delete([UnregisterComponent(m, id)
                EXCEPT !.collection_components[kind] = Without(@, id)],
           kind, id)

\* remove_...() of any kind.
RemoveComponent(m, kind, id) ==
    IF kind \in MeshKinds THEN RemoveMeshComponent(m, kind, id)
                          ELSE RemoveCollectionComponent(m, kind, id)

\* Several of one kind.
RemoveComponents(m, kind, ids) ==
    ForEach(LAMBDA acc, id : RemoveComponent(acc, kind, id), m, ids)

\* update_..._mesh(): the component changes its mesh for one of n vertices,
\* which no unique vertex knows.
UpdateMesh(m, id, n) == RegisterMesh(UnregisterMesh(m, id), id, n)

\* Components change their meshes, as in these pairs <<id, vertices>>.
UpdateMeshes(m, meshes) ==
    ForEach(LAMBDA acc, x : UpdateMesh(acc, x[1], x[2]), m, meshes)

-----------------------------------------------------------------------------
\* Several components, of a second model.

\* brep_clone_mapping(), section_clone_mapping(): every uuid is kept.
CloneMapping(m) == [id \in AllStored(m) |-> id]

\* The components that a mapping gives for these.
Images(list, mapping) == [i \in DOMAIN list |-> mapping[list[i]]]

\* copy_..._components() of the components of some kinds, which get the
\* uuids that the mapping gives.
CopyComponents(m, other, mapping) ==
    LET copies(k) == Images(Kept(other.components[k], DOMAIN mapping), mapping)
        extended(parts, ks) ==
            [k \in Kinds |-> IF k \in ks THEN parts[k] \o copies(k)
                                         ELSE parts[k]]
        meshes == {mapping[c] : c \in MeshComponents(other) \cap DOMAIN mapping}
    IN  [m EXCEPT !.components = extended(@, Kinds),
                  !.mesh_components = extended(@, MeshKinds),
                  !.collection_components = extended(@, Kinds \ MeshKinds),
                  !.unique_vertex = Joined(@, [id \in meshes |-> Unset(0)]),
                  !.inactive = @ \cup
                        {mapping[c] : c \in other.inactive \cap DOMAIN mapping}]

\* copy_relationships(), into a model that knows no relation yet.
CopyRelationships(m, other, mapping) ==
    LET kept == DOMAIN other.registered \cap DOMAIN mapping
    IN  [m EXCEPT !.registered = [c \in {mapping[k] : k \in kept} |->
                        other.registered[CHOOSE k \in kept : mapping[k] = c]],
                  !.relations = {<<mapping[r[1]], mapping[r[2]], r[3]>> :
                        r \in {q \in other.relations :
                                {q[1], q[2]} \subseteq kept}}]

\* The vertices of the other that are identified and mapped, each with its
\* unique vertex when that of index 0 is "first" here.
CopiedVertices(other, mapping, first) ==
    UNION {{<<<<cv[1], mapping[cv[2]], cv[3]>>, first + u>> :
            cv \in other.component_vertices[u]} :
           u \in DOMAIN other.component_vertices}

\* Mutant: the copies are given the unique vertices of the model they are
\* copied into.
CopyUniqueUnshifted(m, other, mapping) ==
    SetUniqueVertices(CreateUniqueVertices(m, NbUniqueVertices(other)),
                      CopiedVertices(other, mapping, 0))

\* copy_vertex_identifier_components(), in parallel over the unique vertices,
\* into unique vertices that are created first.
CopyUniqueVertices(m, other, mapping) ==
    SetUniqueVertices(CreateUniqueVertices(m, NbUniqueVertices(other)),
                      CopiedVertices(other, mapping, NbUniqueVertices(m)))

\* copy_..._geometry(), then the unique vertices: every copy gets a clone of
\* the mesh it is a copy of.
CopyGeometry(m, other, mapping) ==
    CopyUniqueVertices(
        UpdateMeshes(m, {<<mapping[c], Size(other.unique_vertex[c])>> :
                         c \in MeshComponents(other) \cap DOMAIN mapping}),
        other, mapping)

\* ModelConcatener::concatenate(): the components, their geometry, then these
\* relations one by one.
Concatenated(m, other, mapping, relations) ==
    RelateAll(CopyGeometry(CopyComponents(m, other, mapping), other, mapping),
              {<<<<StoredKind(other, r[1]), mapping[r[1]]>>,
                 <<StoredKind(other, r[2]), mapping[r[2]]>>, r[3]>> :
               r \in relations})

\* The mappings that transfer_..._meshes() may be given: from components of
\* the model to components of the same kind of the other.
MeshMappings(m, other) ==
    {f \in UNION {[S -> MeshComponents(other)] : S \in SUBSET MeshComponents(m)} :
        /\ IsInjective(f)
        /\ \A c \in DOMAIN f : StoredKind(m, c) = StoredKind(other, f[c])}

\* remove_..._meshes_in_mapping(), then delete_isolated_vertices().
RemoveMeshes(m, ids) ==
    DeleteIsolatedVertices(UpdateMeshes(m, {<<c, 0>> : c \in ids}))

\* save_mesh_unique_vertices(), the mesh changes hands, and
\* set_mesh_unique_vertices(): the mesh of d comes to c with its unique
\* vertices, the unique vertex 0 of the other being "first" here.
StealMesh(m, c, other, d, first) ==
    LET vertex == other.unique_vertex[d]
    IN  SetUniqueVertices(
            UpdateMesh(m, c, Size(vertex)),
            {<<<<StoredKind(m, c), c, v>>, first + vertex[v]>> :
             v \in {w \in DOMAIN vertex : vertex[w] # NoId}})

\* The meshes of the mapping change hands one after the other.
StealMeshes(m, other, mapping, first) ==
    ForEach(LAMBDA acc, c : StealMesh(acc, c, other, mapping[c], first),
            m, DOMAIN mapping)

\* Mutant: the isolated unique vertices are deleted after the new ones are
\* counted.
TransferredTooEarly(m, other, mapping) ==
    LET emptied == UpdateMeshes(m, {<<c, 0>> : c \in DOMAIN mapping})
        enlarged == CreateUniqueVertices(emptied, NbUniqueVertices(other))
    IN  DeleteIsolatedVertices(StealMeshes(enlarged, other, mapping, 0))

\* transfer_..._meshes()
Transferred(m, other, mapping) ==
    LET removed == RemoveMeshes(m, DOMAIN mapping)
    IN  StealMeshes(CreateUniqueVertices(removed, NbUniqueVertices(other)),
                    other, mapping, NbUniqueVertices(removed))

-----------------------------------------------------------------------------
\* The relations around a component, each with the kind that the component at
\* the other end was registered with.
Sources(m, id, type) ==
    {<<m.registered[r[1]], r[1]>> :
        r \in {q \in m.relations : q[2] = id /\ q[3] = type}}
Targets(m, id, type) ==
    {<<m.registered[r[2]], r[2]>> :
        r \in {q \in m.relations : q[1] = id /\ q[3] = type}}

\* next_filtered_..._iterator(): the elements of one kind.
OfKind(range, kind) == {x \in range : x[1] = kind}

\* The ranges look an element up in the storage of the kind they are for.
LookedUpAs(kind, range) == {<<kind, x[2]>> : x \in range}

\* filter_surfaces(), filter_lines(), filter_corners(): the active components
\* of one kind that bound nothing and are embedded in nothing are removed.
RemoveUnused(m, kind) ==
    RemoveComponents(m, kind,
        {id \in Stored(m, kind) \ m.inactive :
            /\ Targets(m, id, BOUNDARY_RELATION) = {}
            /\ Targets(m, id, INTERNAL_RELATION) = {}})

\* Saved to files and read from them: the files hold the storages, the meshes
\* with their attributes, the lists of the unique vertices and the relations,
\* which saving prunes; register_all_components() then lists what was read.
SavedAndLoaded(m) ==
    LET related == UNION {{r[1], r[2]} : r \in m.relations}
    IN  [m EXCEPT
            !.registered = Restrict(@, related),
            !.mesh_components =
                [k \in Kinds |-> IF k \in MeshKinds THEN m.components[k]
                                                    ELSE <<>>],
            !.collection_components =
                [k \in Kinds |-> IF k \in MeshKinds THEN <<>>
                                                    ELSE m.components[k]]]
=============================================================================
