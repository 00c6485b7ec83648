----------------------------- MODULE BRepBuilder -----------------------------
(***************************************************************************)
(* geode::BRepBuilder, and the ranges of the BRep it builds.               *)
(*                                                                         *)
(* The code writes every operation once for each kind of components, with  *)
(* the same calls in the same order; here the kind is a parameter.         *)
(***************************************************************************)
EXTENDS ModelComponents

CONSTANTS
    OtherBReps  \* models that are copied, added or taken apart

\* add_..._boundary_relationship(): what may bound what.
BRepBoundaryPairs == Among(
    {<<"Corner", "Line">>, <<"Line", "Surface">>, <<"Surface", "Block">>})

\* add_..._internal_relationship()
BRepInternalPairs == Among(
    {<<"Corner", "Line">>, <<"Line", "Surface">>, <<"Corner", "Surface">>,
     <<"Corner", "Block">>, <<"Line", "Block">>, <<"Surface", "Block">>})

\* add_..._in_...()
BRepItemPairs == Among(
    {<<"Surface", "ModelBoundary">>, <<"Corner", "CornerCollection">>,
     <<"Line", "LineCollection">>, <<"Surface", "SurfaceCollection">>,
     <<"Block", "BlockCollection">>})

-----------------------------------------------------------------------------
\* add_corner(), add_line() ...: with a new uuid.
AddBRepComponent ==
    /\ model.dim = 3
    /\ Cardinality(AllStored(model)) < MaxComponents
    /\ \E kind \in Kinds :
          model' = AddComponent(model, kind, Fresh(model))

\* add_corner( id ), add_line( id ) ...: with a uuid of the caller, which no
\* component of the model has; add_component() throws when one of the same
\* kind has it, and nothing was done yet.
AddBRepComponentWithId ==
    /\ model.dim = 3
    /\ Cardinality(AllStored(model)) < MaxComponents
    /\ \E kind \in Kinds, id \in GivenIds :
          \/ id \notin AllStored(model) /\ model' = AddComponent(model, kind, id)
          \/ id \in Stored(model, kind) /\ UNCHANGED model

\* update_corner_mesh() ... update_block_mesh()
UpdateBRepMesh ==
    /\ model.dim = 3
    /\ \E id \in MeshComponents(model), n \in 0 .. MaxMeshVertices :
          model' = UpdateMesh(model, id, n)

\* remove_corner() ... remove_block_collection()
RemoveBRepComponent ==
    /\ model.dim = 3
    /\ \E kind \in Kinds : \E id \in Stored(model, kind) :
          model' = RemoveComponent(model, kind, id)

\* A relation between two components of the kinds of a pair.
AddBRepRelation(pairs, type) ==
    /\ model.dim = 3
    /\ \E p \in pairs :
          \E c \in Stored(model, p[1]), d \in Stored(model, p[2]) :
             model' = Relate(model, <<p[1], c>>, <<p[2], d>>, type)

AddBRepBoundary == AddBRepRelation(BRepBoundaryPairs, BOUNDARY_RELATION)
AddBRepInternal == AddBRepRelation(BRepInternalPairs, INTERNAL_RELATION)
AddBRepItem == AddBRepRelation(BRepItemPairs, ITEM_RELATION)

-----------------------------------------------------------------------------
\* copy_components(), copy_relationships() and copy_component_geometry() with
\* the same mapping.
CopyOfBRep(m, other, mapping) ==
    CopyGeometry(
        CopyRelationships(CopyComponents(m, other, mapping), other, mapping),
        other, mapping)

\* copy(): the model has neither components nor unique vertices, or the code
\* throws; it does not look at the collections that may be left without items,
\* the caller does.
CopyIntoBRep ==
    /\ model.dim = 3
    /\ AllStored(model) = {}
    /\ NbUniqueVertices(model) = 0
    /\ \E other \in OtherBReps :
          /\ NbUniqueVertices(other) <= MaxUniqueVertices
          /\ model' = CopyOfBRep(model, other,
                              FreshMapping(model, AllStored(other)))

\* BRep::clone()
CloneOfBRep(m) == CopyOfBRep(EmptyModel(3), m, CloneMapping(m))

CloneBRep == model.dim = 3 /\ model' = CloneOfBRep(model)

\* The relations that ModelConcatener adds: neither the corners internal to
\* lines nor the items of collections, model boundaries excepted.
ConcatenatedBRepRelation(other, r) ==
    LET pair == <<StoredKind(other, r[1]), StoredKind(other, r[2])>>
    IN  \/ r[3] = BOUNDARY_RELATION
        \/ r[3] = INTERNAL_RELATION /\ pair[2] \in {"Surface", "Block"}
        \/ r[3] = ITEM_RELATION /\ pair[2] = "ModelBoundary"

\* ModelConcatener< BRep >
ConcatenatedBRep(m, other, mapping) ==
    Concatenated(m, other, mapping,
        {r \in other.relations : ConcatenatedBRepRelation(other, r)})

ConcatenateBRep ==
    /\ model.dim = 3
    /\ \E other \in OtherBReps :
          /\ Fits(other)
          /\ model' = ConcatenatedBRep(model, other,
                                FreshMapping(model, AllStored(other)))

\* replace_components_meshes_by_others(), transfer_brep_meshes(): the other
\* model gives meshes away and is not used again.
ReplaceBRepMeshes ==
    /\ model.dim = 3
    /\ \E other \in OtherBReps : \E mapping \in MeshMappings(model, other) :
          /\ NbUniqueVertices(model) + NbUniqueVertices(other)
                 <= MaxUniqueVertices
          /\ model' = Transferred(model, other, mapping)

\* Mutant: the corners are filtered before the lines they bound.
FilterCornersFirst(m) ==
    DeleteIsolatedVertices(
        RemoveUnused(RemoveUnused(RemoveUnused(m, "Corner"), "Line"),
                     "Surface"))

\* filter_brep_components_with_regards_to_blocks()
FilteredBRep(m) ==
    DeleteIsolatedVertices(
        RemoveUnused(RemoveUnused(RemoveUnused(m, "Surface"), "Line"),
                     "Corner"))

FilterBRep == model.dim = 3 /\ model' = FilteredBRep(model)

SaveAndLoadBRep == model.dim = 3 /\ model' = SavedAndLoaded(model)

-----------------------------------------------------------------------------
\* The ranges of a BRep around one of its components.

\* BoundaryCornerRange, BoundaryLineRange, BoundarySurfaceRange
BRepBoundaries(m, id) ==
    UNION {LookedUpAs(p[1], Sources(m, id, BOUNDARY_RELATION)) :
           p \in {q \in BRepBoundaryPairs : q[2] = StoredKind(m, id)}}

\* IncidentLineRange, IncidentSurfaceRange, IncidentBlockRange
BRepIncidences(m, id) ==
    UNION {LookedUpAs(p[2], Targets(m, id, BOUNDARY_RELATION)) :
           p \in {q \in BRepBoundaryPairs : q[1] = StoredKind(m, id)}}

\* InternalCornerRange, InternalLineRange, InternalSurfaceRange
BRepInternals(m, id) ==
    UNION {OfKind(Sources(m, id, INTERNAL_RELATION), p[1]) :
           p \in {q \in BRepInternalPairs : q[2] = StoredKind(m, id)}}

\* EmbeddingLineRange, EmbeddingSurfaceRange, EmbeddingBlockRange
BRepEmbeddings(m, id) ==
    UNION {OfKind(Targets(m, id, INTERNAL_RELATION), p[2]) :
           p \in {q \in BRepInternalPairs : q[1] = StoredKind(m, id)}}

\* ItemCornerRange, ItemLineRange, ItemSurfaceRange, ItemBlockRange
BRepItems(m, id) ==
    UNION {LookedUpAs(p[1], Sources(m, id, ITEM_RELATION)) :
           p \in {q \in BRepItemPairs : q[2] = StoredKind(m, id)}}

BRepNext ==
    \/ AddBRepComponent
    \/ AddBRepComponentWithId
    \/ UpdateBRepMesh
    \/ RemoveBRepComponent
    \/ AddBRepBoundary
    \/ AddBRepInternal
    \/ AddBRepItem
    \/ CopyIntoBRep
    \/ CloneBRep
    \/ ConcatenateBRep
    \/ ReplaceBRepMeshes
    \/ FilterBRep
    \/ SaveAndLoadBRep
=============================================================================
