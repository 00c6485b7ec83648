--------------------------- MODULE SectionBuilder ---------------------------
(***************************************************************************)
(* geode::SectionBuilder, and the ranges of the Section it builds: what    *)
(* BRepBuilder is in three dimensions, without blocks, and with lines in   *)
(* place of surfaces where a model is bounded.                             *)
(***************************************************************************)
EXTENDS ModelComponents

CONSTANTS
    OtherSections  \* models that are copied, added or taken apart

SectionKinds == Kinds \ {"Block", "BlockCollection"}

\* add_..._boundary_relationship(): what may bound what.
SectionBoundaryPairs == Among(
    {<<"Corner", "Line">>, <<"Line", "Surface">>})

\* add_..._internal_relationship()
SectionInternalPairs == Among(
    {<<"Corner", "Line">>, <<"Corner", "Surface">>, <<"Line", "Surface">>})

\* add_..._in_...()
SectionItemPairs == Among(
    {<<"Line", "ModelBoundary">>, <<"Corner", "CornerCollection">>,
     <<"Line", "LineCollection">>, <<"Surface", "SurfaceCollection">>})

-----------------------------------------------------------------------------
\* add_corner(), add_line() ...: with a new uuid.
AddSectionComponent ==
    /\ model.dim = 2
    /\ Cardinality(AllStored(model)) < MaxComponents
    /\ \E kind \in SectionKinds :
          model' = AddComponent(model, kind, Fresh(model))

\* add_corner( id ), add_line( id ) ...: with a uuid of the caller, which no
\* component of the model has; add_component() throws when one of the same
\* kind has it, and nothing was done yet.
AddSectionComponentWithId ==
    /\ model.dim = 2
    /\ Cardinality(AllStored(model)) < MaxComponents
    /\ \E kind \in SectionKinds, id \in GivenIds :
          \/ id \notin AllStored(model) /\ model' = AddComponent(model, kind, id)
          \/ id \in Stored(model, kind) /\ UNCHANGED model

\* update_corner_mesh(), update_line_mesh(), update_surface_mesh()
UpdateSectionMesh ==
    /\ model.dim = 2
    /\ \E id \in MeshComponents(model), n \in 0 .. MaxMeshVertices :
          model' = UpdateMesh(model, id, n)

\* remove_corner() ... remove_surface_collection()
RemoveSectionComponent ==
    /\ model.dim = 2
    /\ \E kind \in SectionKinds : \E id \in Stored(model, kind) :
          model' = RemoveComponent(model, kind, id)

\* A relation between two components of the kinds of a pair.
AddSectionRelation(pairs, type) ==
    /\ model.dim = 2
    /\ \E p \in pairs :
          \E c \in Stored(model, p[1]), d \in Stored(model, p[2]) :
             model' = Relate(model, <<p[1], c>>, <<p[2], d>>, type)

AddSectionBoundary == AddSectionRelation(SectionBoundaryPairs, BOUNDARY_RELATION)
AddSectionInternal == AddSectionRelation(SectionInternalPairs, INTERNAL_RELATION)
AddSectionItem == AddSectionRelation(SectionItemPairs, ITEM_RELATION)

-----------------------------------------------------------------------------
\* copy_components(), copy_relationships() and copy_component_geometry() with
\* the same mapping.
CopyOfSection(m, other, mapping) ==
    CopyGeometry(
        CopyRelationships(CopyComponents(m, other, mapping), other, mapping),
        other, mapping)

\* copy(): the model has neither components nor unique vertices, or the code
\* throws; it does not look at the collections that may be left without items,
\* the caller does.
CopyIntoSection ==
    /\ model.dim = 2
    /\ AllStored(model) = {}
    /\ NbUniqueVertices(model) = 0
    /\ \E other \in OtherSections :
          /\ NbUniqueVertices(other) <= MaxUniqueVertices
          /\ model' = CopyOfSection(model, other,
                                 FreshMapping(model, AllStored(other)))

\* Section::clone()
CloneOfSection(m) == CopyOfSection(EmptyModel(2), m, CloneMapping(m))

CloneSection == model.dim = 2 /\ model' = CloneOfSection(model)

\* The relations that ModelConcatener adds: neither the corners internal to
\* lines nor the items of collections, model boundaries excepted.
ConcatenatedSectionRelation(other, r) ==
    LET kind == StoredKind(other, r[2])
    IN  \/ r[3] = BOUNDARY_RELATION
        \/ r[3] = INTERNAL_RELATION /\ kind = "Surface"
        \/ r[3] = ITEM_RELATION /\ kind = "ModelBoundary"

\* ModelConcatener< Section >
ConcatenatedSection(m, other, mapping) ==
    Concatenated(m, other, mapping,
        {r \in other.relations : ConcatenatedSectionRelation(other, r)})

ConcatenateSection ==
    /\ model.dim = 2
    /\ \E other \in OtherSections :
          /\ Fits(other)
          /\ model' = ConcatenatedSection(model, other,
                                FreshMapping(model, AllStored(other)))

\* replace_components_meshes_by_others(), transfer_section_meshes(): the other
\* model gives meshes away and is not used again.
ReplaceSectionMeshes ==
    /\ model.dim = 2
    /\ \E other \in OtherSections : \E mapping \in MeshMappings(model, other) :
          /\ NbUniqueVertices(model) + NbUniqueVertices(other)
                 <= MaxUniqueVertices
          /\ model' = Transferred(model, other, mapping)

\* filter_section_components_with_regards_to_surfaces()
FilteredSection(m) ==
    DeleteIsolatedVertices(RemoveUnused(RemoveUnused(m, "Line"), "Corner"))

FilterSection == model.dim = 2 /\ model' = FilteredSection(model)

SaveAndLoadSection == model.dim = 2 /\ model' = SavedAndLoaded(model)

-----------------------------------------------------------------------------
\* The ranges of a Section around one of its components.

\* BoundaryCornerRange, BoundaryLineRange
SectionBoundaries(m, id) ==
    UNION {LookedUpAs(p[1], Sources(m, id, BOUNDARY_RELATION)) :
           p \in {q \in SectionBoundaryPairs : q[2] = StoredKind(m, id)}}

\* IncidentLineRange, IncidentSurfaceRange
SectionIncidences(m, id) ==
    UNION {LookedUpAs(p[2], Targets(m, id, BOUNDARY_RELATION)) :
           p \in {q \in SectionBoundaryPairs : q[1] = StoredKind(m, id)}}

\* InternalCornerRange, InternalLineRange
SectionInternals(m, id) ==
    UNION {OfKind(Sources(m, id, INTERNAL_RELATION), p[1]) :
           p \in {q \in SectionInternalPairs : q[2] = StoredKind(m, id)}}

\* EmbeddingLineRange, EmbeddingSurfaceRange
SectionEmbeddings(m, id) ==
    UNION {OfKind(Targets(m, id, INTERNAL_RELATION), p[2]) :
           p \in {q \in SectionInternalPairs : q[1] = StoredKind(m, id)}}

\* ItemLineRange, ItemCornerRange, ItemSurfaceRange
SectionItems(m, id) ==
    UNION {LookedUpAs(p[1], Sources(m, id, ITEM_RELATION)) :
           p \in {q \in SectionItemPairs : q[2] = StoredKind(m, id)}}

SectionNext ==
    \/ AddSectionComponent
    \/ AddSectionComponentWithId
    \/ UpdateSectionMesh
    \/ RemoveSectionComponent
    \/ AddSectionBoundary
    \/ AddSectionInternal
    \/ AddSectionItem
    \/ CopyIntoSection
    \/ CloneSection
    \/ ConcatenateSection
    \/ ReplaceSectionMeshes
    \/ FilterSection
    \/ SaveAndLoadSection
=============================================================================
