---------------------------- MODULE ModelBuilders ----------------------------
(***************************************************************************)
(* A program that builds one model after the other: a BRep or a Section    *)
(* that its builder changes, that is converted into the other, and whose   *)
(* vertices are identified.  What the two builders have in common from     *)
(* their base classes is here, and what all the parts of a model have to   *)
(* agree on.                                                               *)
(***************************************************************************)
EXTENDS BRepBuilder, SectionBuilder

CONSTANTS
    MaxInactive,   \* bound: the components that are not active
    LoadedModels   \* models of other programs that are loaded first

ModelInit == model \in {EmptyModel(2), EmptyModel(3)} \cup LoadedModels

-----------------------------------------------------------------------------
\* Of the bases of both builders.

\* set_..._active()
SetActive ==
    \E id \in AllStored(model) :
        \/ /\ Cardinality(model.inactive) < MaxInactive
           /\ model' = [model EXCEPT !.inactive = @ \cup {id}]
        \/ model' = [model EXCEPT !.inactive = @ \ {id}]

RemoveRelation ==
    \E r \in model.relations : model' = Unrelate(model, r[1], r[2])

CreateUniqueVertex ==
    /\ NbUniqueVertices(model) < MaxUniqueVertices
    /\ model' = CreateUniqueVertices(model, 1)

\* The component vertices of a model.
ComponentVertices(m) ==
    UNION {{<<StoredKind(m, id), id, v>> : v \in DOMAIN m.unique_vertex[id]} :
           id \in DOMAIN m.unique_vertex}

IdentifyVertex ==
    \E cv \in ComponentVertices(model), u \in DOMAIN model.component_vertices :
        model' = SetUniqueVertex(model, cv, u)

SeparateVertex ==
    \E cv \in ComponentVertices(model) :
        LET u == model.unique_vertex[cv[2]][cv[3]]
        IN  u # NoId /\ model' = UnsetUniqueVertex(model, cv, u)

DropIsolatedVertices == model' = DeleteIsolatedVertices(model)

-----------------------------------------------------------------------------
\* copy_components() of a conversion: only corners, lines and surfaces.
ConversionMapping(m) ==
    FreshMapping(EmptyModel(m.dim),
                 UNION {Stored(m, k) : k \in {"Corner", "Line", "Surface"}})

\* The copy that a conversion starts with, in d dimensions.
Converted(m, d) ==
    LET mapping == ConversionMapping(m)
    IN  CopyGeometry(CopyRelationships(
            CopyComponents(EmptyModel(d), m, mapping), m, mapping), m, mapping)

\* build_model_boundaries() of a Section: the lines that bound one surface and
\* are in no model boundary are put in the one of their name.  No component
\* has a name here, so it is the first, created when there is none.
WithModelBoundaries(m) ==
    LET lines == {l \in Stored(m, "Line") :
            /\ Cardinality(Targets(m, l, BOUNDARY_RELATION)) = 1
            /\ OfKind(Targets(m, l, ITEM_RELATION), "ModelBoundary") = {}}
        ready == IF Stored(m, "ModelBoundary") # {} THEN m
                 ELSE AddCollectionComponent(m, "ModelBoundary", Fresh(m))
        boundary == Head(ready.components["ModelBoundary"])
    IN  IF lines = {} THEN m
        ELSE RelateAll(ready, {<<<<"Line", l>>, <<"ModelBoundary", boundary>>,
                                 ITEM_RELATION>> : l \in lines})

\* A vertex of a block is identified: copy_vertex_identifier_components()
\* asks the mapping for the blocks, which it has not, and throws.
BlockVertexIdentified(m) ==
    \E u \in DOMAIN m.component_vertices : \E cv \in m.component_vertices[u] :
        cv[1] = "Block"

\* convert_brep_into_section()
ConvertIntoSection ==
    /\ model.dim = 3
    /\ Cardinality(AllStored(model)) < MaxComponents
    /\ IF BlockVertexIdentified(model)
       THEN UNCHANGED model
       ELSE model' = WithModelBoundaries(Converted(model, 2))

\* convert_section_into_brep()
ConvertIntoBRep == model.dim = 2 /\ model' = Converted(model, 3)

ModelNext ==
    \/ BRepNext
    \/ SectionNext
    \/ SetActive
    \/ RemoveRelation
    \/ CreateUniqueVertex
    \/ IdentifyVertex
    \/ SeparateVertex
    \/ DropIsolatedVertices
    \/ ConvertIntoSection
    \/ ConvertIntoBRep

ModelSpec == ModelInit /\ [][ModelNext]_model

-----------------------------------------------------------------------------
\* The parts of a model agree on its components: the registry lists what the
\* storages hold, a uuid is stored once, a relation is between components
\* that are registered under the kind they are stored with, every mesh has its
\* unique vertices, and a component vertex is in the list of its unique vertex
\* and in no other.
Agree(m) ==
    /\ \A k \in Kinds :
          /\ IsInjective(m.components[k])
          /\ m.mesh_components[k] =
                IF k \in MeshKinds THEN m.components[k] ELSE <<>>
          /\ m.collection_components[k] =
                IF k \in MeshKinds THEN <<>> ELSE m.components[k]
          /\ \A l \in Kinds \ {k} : Stored(m, k) \cap Stored(m, l) = {}
    /\ m.inactive \subseteq AllStored(m)
    /\ \A id \in DOMAIN m.registered : id \in Stored(m, m.registered[id])
    /\ \A r \in m.relations : {r[1], r[2]} \subseteq DOMAIN m.registered
    /\ DOMAIN m.unique_vertex = MeshComponents(m)
    /\ \A u \in DOMAIN m.component_vertices :
          m.component_vertices[u] =
            {cv \in ComponentVertices(m) : m.unique_vertex[cv[2]][cv[3]] = u}

\* f is a vector of elements of S.
IsVectorOf(f, S) == Size(f) \in Nat /\ f \in [IndexRange(Size(f)) -> S]

\* The types of the parts of a model.
WellTyped(m) ==
    /\ m \in [dim : {2, 3},
              components : [Kinds -> Seq(Ids)],
              inactive : SUBSET Ids,
              mesh_components : [Kinds -> Seq(Ids)],
              collection_components : [Kinds -> Seq(Ids)],
              registered : [DOMAIN m.registered -> Kinds],
              relations : SUBSET (Ids \X Ids \X RelationTypes),
              unique_vertex : [DOMAIN m.unique_vertex -> Range(m.unique_vertex)],
              component_vertices : {m.component_vertices}]
    /\ IsVectorOf(m.component_vertices, SUBSET ComponentVertices(m))
    /\ \A id \in DOMAIN m.unique_vertex :
          IsVectorOf(m.unique_vertex[id],
                     DOMAIN m.component_vertices \cup {NoId})

\* Which kinds a relation of a type may relate in d dimensions.
RelatedKinds(d, type) ==
    CASE type = BOUNDARY_RELATION ->
            IF d = 3 THEN BRepBoundaryPairs ELSE SectionBoundaryPairs
      [] type = INTERNAL_RELATION ->
            IF d = 3 THEN BRepInternalPairs ELSE SectionInternalPairs
      [] type = ITEM_RELATION ->
            IF d = 3 THEN BRepItemPairs ELSE SectionItemPairs

\* Two components have one relation at most, of a type that their kinds may
\* have.
RelationsFit(m) ==
    /\ \A q, r \in m.relations : {q[1], q[2]} = {r[1], r[2]} => q = r
    /\ \A r \in m.relations :
          <<m.registered[r[1]], m.registered[r[2]]>>
            \in RelatedKinds(m.dim, r[3])

IsModel(m) == WellTyped(m) /\ Agree(m) /\ RelationsFit(m)

\* What a model that a program builds, loads or is given is: one whose parts
\* agree, without blocks if it is a Section.
IsBRepOrSection(m) ==
    /\ IsModel(m)
    /\ m.dim = 2 => \A k \in Kinds \ SectionKinds : Stored(m, k) = {}

ASSUME ModelsAssumption ==
    /\ \A m \in LoadedModels \cup OtherBReps \cup OtherSections :
          IsBRepOrSection(m)
    /\ \A m \in OtherBReps : m.dim = 3
    /\ \A m \in OtherSections : m.dim = 2

\* Whatever a program does with the builders, the parts of its model agree.
PartsAgree == Agree(model)

\* What the ranges of a model find around a component.
Boundaries(m, id) == IF m.dim = 3 THEN BRepBoundaries(m, id)
                                  ELSE SectionBoundaries(m, id)
Incidences(m, id) == IF m.dim = 3 THEN BRepIncidences(m, id)
                                  ELSE SectionIncidences(m, id)
Internals(m, id) == IF m.dim = 3 THEN BRepInternals(m, id)
                                 ELSE SectionInternals(m, id)
Embeddings(m, id) == IF m.dim = 3 THEN BRepEmbeddings(m, id)
                                  ELSE SectionEmbeddings(m, id)
Items(m, id) == IF m.dim = 3 THEN BRepItems(m, id)
                             ELSE SectionItems(m, id)

\* A range only finds components that the storage it looks them up in holds,
\* and every relation is found from its two ends, or from the collection of
\* an item.
RangesFindStoredComponents ==
    /\ \A id \in AllStored(model) :
          \A x \in Boundaries(model, id) \cup Incidences(model, id)
                    \cup Internals(model, id) \cup Embeddings(model, id)
                    \cup Items(model, id) :
             x[2] \in Stored(model, x[1])
    /\ \A r \in model.relations :
          LET from == <<model.registered[r[1]], r[1]>>
              to == <<model.registered[r[2]], r[2]>>
          IN  CASE r[3] = BOUNDARY_RELATION ->
                       /\ from \in Boundaries(model, r[2])
                       /\ to \in Incidences(model, r[1])
                [] r[3] = INTERNAL_RELATION ->
                       /\ from \in Internals(model, r[2])
                       /\ to \in Embeddings(model, r[1])
                [] OTHER -> from \in Items(model, r[2])

-----------------------------------------------------------------------------
\* Which component vertices are the same vertex of the model.
Identified(m) == ToSet([u \in 1 .. NbUniqueVertices(m) |->
                            m.component_vertices[u - 1]]) \ {{}}

\* These classes, of the components that are mapped.
Mapped(classes, mapping) ==
    {{<<cv[1], mapping[cv[2]], cv[3]>> :
        cv \in {x \in class : x[2] \in DOMAIN mapping}} :
     class \in classes} \ {{}}

\* "result" is m with what the mapping keeps of "other" after it: its
\* components, active or not, those of its relations that are in "relations",
\* and its vertices identified as they were.
Extends(result, m, other, mapping, relations) ==
    /\ Agree(result)
    /\ \A k \in Kinds :
          result.components[k] =
              m.components[k]
                \o Images(Kept(other.components[k], DOMAIN mapping), mapping)
    /\ result.inactive = m.inactive \cup
            {mapping[id] : id \in other.inactive \cap DOMAIN mapping}
    /\ result.relations = m.relations \cup
            {<<mapping[r[1]], mapping[r[2]], r[3]>> :
                r \in {q \in relations : {q[1], q[2]} \subseteq DOMAIN mapping}}
    /\ Identified(result) =
            Identified(m) \cup Mapped(Identified(other), mapping)

\* "result" is a copy of m.
IsCopy(result, m, mapping) ==
    Extends(result, EmptyModel(result.dim), m, mapping, m.relations)

\* There are uuids for the components of both: a uuid has 128 bits.
UuidsFor(m, other) ==
    Cardinality(AllStored(m)) + Cardinality(AllStored(other))
        <= Cardinality(Ids)

\* A clone, and a model that is saved and read again, are the model; a model
\* that is converted keeps its corners, lines and surfaces, and what relates
\* and identifies them; a model that is added to another comes whole, but for
\* the relations that the concatenation knows nothing of, and leaves the other
\* as it was.
CopiesAreFaithful ==
    /\ IsCopy(SavedAndLoaded(model), model, CloneMapping(model))
    /\ ~BlockVertexIdentified(model) =>
          IsCopy(Converted(model, 5 - model.dim), model,
                 ConversionMapping(model))
    /\ model.dim = 3 =>
          /\ IsCopy(CloneOfBRep(model), model, CloneMapping(model))
          /\ \A other \in {m \in OtherBReps : UuidsFor(model, m)} :
                LET mapping == FreshMapping(model, AllStored(other))
                IN  Extends(ConcatenatedBRep(model, other, mapping),
                            model, other, mapping,
                            {r \in other.relations :
                                ConcatenatedBRepRelation(other, r)})
    /\ model.dim = 2 =>
          /\ IsCopy(CloneOfSection(model), model, CloneMapping(model))
          /\ \A other \in {m \in OtherSections : UuidsFor(model, m)} :
                LET mapping == FreshMapping(model, AllStored(other))
                IN  Extends(ConcatenatedSection(model, other, mapping),
                            model, other, mapping,
                            {r \in other.relations :
                                ConcatenatedSectionRelation(other, r)})

\* Meshes that come from another model bring the identification of their
\* vertices, and change nothing in that of the other vertices of the model.
TransferKeepsIdentification ==
    \A other \in IF model.dim = 3 THEN OtherBReps ELSE OtherSections :
        \A mapping \in MeshMappings(model, other) :
            LET result == Transferred(model, other, mapping)
                kept == MeshComponents(model) \ DOMAIN mapping
            IN  /\ Agree(result)
                /\ Identified(result) =
                      Mapped(Identified(model), [id \in kept |-> id])
                      \cup Mapped(Identified(other), AntiFunction(mapping))

\* These components and what bounds them or is embedded in them.
WithParts(m, ids) ==
    ids \cup {r[1] : r \in {q \in m.relations :
                                q[2] \in ids /\ q[3] # ITEM_RELATION}}

\* Filtering a model keeps exactly what is not to be filtered or is inactive,
\* and their parts, at most three kinds below; it keeps them as they were.
FilterKeepsWhatIsUsed ==
    LET result == IF model.dim = 3 THEN FilteredBRep(model)
                                   ELSE FilteredSection(model)
        filtered == IF model.dim = 3 THEN {"Surface", "Line", "Corner"}
                                     ELSE {"Line", "Corner"}
        anchors == model.inactive
                    \cup UNION {Stored(model, k) : k \in Kinds \ filtered}
        used == WithParts(model, WithParts(model, WithParts(model, anchors)))
    IN  IsCopy(result, model, [id \in used |-> id])
=============================================================================
