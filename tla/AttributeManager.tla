--------------------------- MODULE AttributeManager ---------------------------
(***************************************************************************)
(* geode::AttributeManager: the attributes of the elements of a mesh.      *)
(*                                                                         *)
(* A manager keeps its number of elements and, by id, attributes of three  *)
(* kinds of storage.  A variable attribute is a vector with a value per    *)
(* element; a sparse one maps some indices to values, and every other one  *)
(* to the default; a constant one has one value.  Each is told of every    *)
(* change of the elements and does with it what its kind does.             *)
(*                                                                         *)
(* All attributes hold values of one type T with one default.  Where the   *)
(* kinds do not agree on an operation, a named condition keeps to the      *)
(* calls on which they do: SparseFits, PermutesAlike, CopyReplaces.        *)
(***************************************************************************)
EXTENDS Renumbering, Functions

CONSTANTS
    Managers,
    Ids,            \* the uuids of attributes
    Values,         \* the values of type T
    Default,        \* default_values_
    PropertySets,   \* the AttributeProperties in use
    MaxElements,    \* bound on the size of a manager
    MaxAllElements, \* bound on the sizes of all managers together
    MaxAttributes   \* bound on the attributes of all managers together

ASSUME DefaultAssumption == Default \in Values

VARIABLES
    nb_elements,  \* nb_elements_, per manager
    attributes    \* attributes_, per manager

vars == <<nb_elements, attributes>>

Storages == {"variable", "sparse", "constant"}

IdsOf(m) == DOMAIN attributes[m]
\* The sizes of the managers are within the bound.
SizesFit(sizes) == SumFunction(sizes) <= MaxAllElements

NbAttributes ==
    Cardinality({held \in Managers \X Ids : held[2] \in IdsOf(held[1])})

Attribute(storage, properties, values) ==
    [storage |-> storage, properties |-> properties, values |-> values]

\* ReadOnlyAttribute::value()
Value(attribute, i) ==
    CASE attribute.storage = "variable" -> attribute.values[i]
      [] attribute.storage = "constant" -> attribute.values[0]
      [] attribute.storage = "sparse" ->
            IF i \in DOMAIN attribute.values THEN attribute.values[i]
            ELSE Default

\* set_value(): a vector has the index, a map gets it.
SetValueAt(attribute, i, v) ==
    [attribute EXCEPT !.values =
        IF attribute.storage = "constant" THEN [k \in {0} |-> v]
        ELSE [k \in DOMAIN @ \cup {i} |-> IF k = i THEN v ELSE @[k]]]

\* Every attribute of m becomes Op of it.
ForEachAttribute(m, Op(_)) ==
    attributes' = [attributes EXCEPT ![m] =
                      [a \in DOMAIN @ |-> Op(@[a])]]

-----------------------------------------------------------------------------
\* What each kind does when the elements change.

\* AttributeBase::resize()
Resized(attribute, size) ==
    IF attribute.storage = "variable"
    THEN [attribute EXCEPT !.values =
            [i \in IndexRange(size) |->
                IF i \in DOMAIN @ THEN @[i] ELSE Default]]
    ELSE attribute

\* Mutant: a sparse attribute keeps its values at the old indices that remain.
SparseKeepsIndices(attribute, size, deleted) ==
    CASE attribute.storage = "variable" ->
            [attribute EXCEPT !.values = DeleteElements(@, deleted)]
      [] attribute.storage = "sparse" ->
            [attribute EXCEPT !.values =
                Restrict(@, (DOMAIN @ \ deleted)
                            \cap IndexRange(size - Cardinality(deleted)))]
      [] attribute.storage = "constant" -> attribute

\* AttributeBase::delete_elements(): a sparse attribute also drops what is
\* stored though it is the default.
Compacted(attribute, size, deleted) ==
    LET old2new == MappingAfterDeletion(size, deleted)
        kept == {i \in DOMAIN attribute.values \ deleted :
                    attribute.values[i] # Default}
    IN  CASE attribute.storage = "variable" ->
                [attribute EXCEPT !.values = DeleteElements(@, deleted)]
          [] attribute.storage = "sparse" ->
                [attribute EXCEPT !.values =
                    [k \in {old2new[i] : i \in kept} |->
                        @[CHOOSE i \in kept : old2new[i] = k]]]
          [] attribute.storage = "constant" -> attribute

\* AttributeBase::permute_elements(): a vector reads the permutation as
\* sources, a map as destinations.
Permuted(attribute, permutation) ==
    CASE attribute.storage = "variable" ->
            [attribute EXCEPT !.values = PermuteElements(@, permutation)]
      [] attribute.storage = "sparse" ->
            [attribute EXCEPT !.values =
                [k \in {permutation[i] : i \in DOMAIN @} |->
                    @[Old2NewPermutation(permutation)[k]]]]
      [] attribute.storage = "constant" -> attribute

\* AttributeBase::copy() of an attribute of the same kind.
Copied(to, from, size) ==
    LET stored == {i \in IndexRange(size) : Value(from, i) # Default}
    IN  CASE to.storage = "variable" ->
                IF size = 0 THEN to
                ELSE [to EXCEPT !.values =
                        [i \in IndexRange(size) |-> Value(from, i)]]
          [] to.storage = "sparse" ->
                [to EXCEPT !.values =
                    [i \in DOMAIN @ \cup stored |->
                        IF i \in stored THEN Value(from, i) ELSE @[i]]]
          [] to.storage = "constant" -> [to EXCEPT !.values = from.values]

\* AttributeBase::import(): element i gets what from has at origin[i]; a sparse
\* attribute skips defaults.
Imported(to, from, origin) ==
    LET read == {i \in DOMAIN origin :
                    to.storage = "sparse" => Value(from, origin[i]) # Default}
    IN  IF to.storage = "constant"
        THEN [to EXCEPT !.values = [k \in {0} |-> Value(from, 0)]]
        ELSE [to EXCEPT !.values =
                [i \in DOMAIN @ \cup read |->
                    IF i \in read THEN Value(from, origin[i]) ELSE @[i]]]

\* AttributeBase::extract(): an import into a new attribute of the kind.
Extracted(from, size, origin) ==
    LET fresh == [from EXCEPT !.values = [i \in {} |-> Default]]
    IN  IF from.storage = "constant" THEN from
        ELSE Imported(Resized(fresh, size), from, origin)

-----------------------------------------------------------------------------
Init ==
    /\ nb_elements = [m \in Managers |-> 0]
    /\ attributes = [m \in Managers |-> [a \in {} |-> {}]]

\* Mutant: a new attribute is not resized when it is registered.
RegisterEmpty(m, a, storage, properties) ==
    /\ NbAttributes < MaxAttributes
    /\ a \in IdsOf(m) => attributes[m][a].storage # storage
    /\ attributes' = [attributes EXCEPT ![m] =
                        IF a \in DOMAIN @ THEN @
                        ELSE [b \in DOMAIN @ \cup {a} |->
                                IF b # a THEN @[b]
                                ELSE Attribute(storage, properties,
                                               [i \in {} |-> Default])]]
    /\ UNCHANGED nb_elements

\* create_attribute(): throws when the id holds an attribute of the same kind;
\* of another kind, emplace() keeps it and the new attribute is lost.
CreateAttribute(m, a, storage, properties) ==
    LET values == IF storage = "constant" THEN [i \in {0} |-> Default]
                  ELSE [i \in {} |-> Default]
        created == Resized(Attribute(storage, properties, values),
                           nb_elements[m])
    IN  /\ NbAttributes < MaxAttributes
        /\ a \in IdsOf(m) => attributes[m][a].storage # storage
        /\ attributes' = [attributes EXCEPT ![m] =
                            IF a \in DOMAIN @ THEN @
                            ELSE [b \in DOMAIN @ \cup {a} |->
                                    IF b = a THEN created ELSE @[b]]]
        /\ UNCHANGED nb_elements

DeleteAttribute(m, a) ==
    /\ attributes' = [attributes EXCEPT ![m] = Restrict(@, DOMAIN @ \ {a})]
    /\ UNCHANGED nb_elements

Clear(m) ==
    /\ attributes' = [attributes EXCEPT ![m] = [a \in {} |-> {}]]
    /\ nb_elements' = [nb_elements EXCEPT ![m] = 0]

SetAttributeProperties(m, a, properties) ==
    /\ attributes' = [attributes EXCEPT ![m][a].properties = properties]
    /\ UNCHANGED nb_elements

\* Attribute::set_value() by whoever holds the attribute, inside its size.
SetValue(m, a, i, v) ==
    /\ attributes' = [attributes EXCEPT ![m][a] = SetValueAt(@, i, v)]
    /\ UNCHANGED nb_elements

\* A sparse attribute ignores resize(): the elements that go must not have
\* values in it, or those that come later would find them.
SparseFits(m, size) ==
    \A a \in IdsOf(m) :
        attributes[m][a].storage = "sparse" =>
            DOMAIN attributes[m][a].values \subseteq IndexRange(size)

\* resize(), and clear_attributes() when size is 0
Resize(m, size) ==
    /\ SparseFits(m, size)
    /\ nb_elements' = [nb_elements EXCEPT ![m] = size]
    /\ SizesFit(nb_elements')
    /\ LET Op(attribute) == Resized(attribute, size)
       IN  ForEachAttribute(m, Op)

DeleteElementsOf(m, deleted) ==
    /\ deleted # {}
    /\ nb_elements' = [nb_elements EXCEPT ![m] = @ - Cardinality(deleted)]
    /\ LET Op(attribute) == Compacted(attribute, nb_elements[m], deleted)
       IN  ForEachAttribute(m, Op)

\* The kinds agree on a permutation that is its own inverse, and on any one
\* when the attributes are not of both kinds.
PermutesAlike(m, permutation) ==
    \/ Old2NewPermutation(permutation) = permutation
    \/ ~ \E a, b \in IdsOf(m) :
            /\ attributes[m][a].storage = "variable"
            /\ attributes[m][b].storage = "sparse"

PermuteElementsOf(m, permutation) ==
    /\ PermutesAlike(m, permutation)
    /\ LET Op(attribute) == Permuted(attribute, permutation)
       IN  ForEachAttribute(m, Op)
    /\ UNCHANGED nb_elements

\* compute_value( from_element, to_element ): a constant has nothing to do.
ValueMoved(attribute, from, to) ==
    IF attribute.storage = "constant" THEN attribute
    ELSE SetValueAt(attribute, to, Value(attribute, from))

AssignAttributeValue(m, from, to) ==
    /\ LET Op(attribute) == IF attribute.properties.assignable
                            THEN ValueMoved(attribute, from, to)
                            ELSE attribute
       IN  ForEachAttribute(m, Op)
    /\ UNCHANGED nb_elements

CopyAttributeValue(m, from, to) ==
    /\ LET Op(attribute) == ValueMoved(attribute, from, to)
       IN  ForEachAttribute(m, Op)
    /\ UNCHANGED nb_elements

\* compute_value( interpolation, to_element ): the interpolated value depends
\* on the weights and is any here.
InterpolateAttributeValue(m, to) ==
    /\ \E interpolated \in [IdsOf(m) -> Values] :
        attributes' = [attributes EXCEPT ![m] =
            [a \in DOMAIN @ |->
                IF /\ @[a].properties.interpolable
                   /\ @[a].storage # "constant"
                THEN SetValueAt(@[a], to, interpolated[a])
                ELSE @[a]]]
    /\ UNCHANGED nb_elements

-----------------------------------------------------------------------------
Transferable(n) ==
    {a \in IdsOf(n) : attributes[n][a].properties.transferable}

\* copy() changes the number of elements, but leaves alone an attribute that
\* is not copied: missing or not transferable in n, or of another kind
\* (std::bad_cast is logged); it never shortens a vector to 0, and values of
\* a sparse attribute survive where n has the default.
CopyReplaces(m, n) ==
    \A a \in IdsOf(m) :
        /\ a \in Transferable(n)
        /\ attributes[m][a].storage = attributes[n][a].storage
        /\ attributes[m][a].storage = "variable" =>
            nb_elements[n] # 0 \/ nb_elements[m] = 0
        /\ attributes[m][a].storage = "sparse" =>
            \A i \in DOMAIN attributes[m][a].values :
                Value(attributes[n][a], i) # Default

\* copy()
Copy(m, n) ==
    LET added == Transferable(n) \ IdsOf(m)
        copied == {a \in Transferable(n) \cap IdsOf(m) :
                    attributes[m][a].storage = attributes[n][a].storage}
    IN  /\ NbAttributes + Cardinality(added) <= MaxAttributes
        /\ CopyReplaces(m, n)
        /\ nb_elements' = [nb_elements EXCEPT ![m] = nb_elements[n]]
        /\ SizesFit(nb_elements')
        /\ attributes' = [attributes EXCEPT ![m] =
            [a \in DOMAIN @ \cup added |->
                CASE a \in added -> attributes[n][a]
                  [] a \in copied ->
                        Copied(@[a], attributes[n][a], nb_elements[n])
                  [] OTHER -> @[a]]]

\* The GenericMappings by which elements of m come from at most one of n.
Origins(m, n) ==
    UNION {[S -> IndexRange(nb_elements[n])] :
            S \in SUBSET IndexRange(nb_elements[m])}

\* import() of the attributes in which, all or one.  A constant that exists is
\* read from element 0 of n, which must have one.
Import(m, n, which, origin) ==
    /\ NbAttributes + Cardinality(which \ IdsOf(m)) <= MaxAttributes
    /\ \A a \in which \cap IdsOf(m) :
            /\ attributes[m][a].storage = "constant"
            /\ attributes[n][a].storage = "variable"
            => nb_elements[n] # 0
    /\ attributes' = [attributes EXCEPT ![m] =
        [a \in DOMAIN @ \cup which |->
            IF a \notin which THEN @[a]
            ELSE IF a \in DOMAIN @
            THEN Imported(@[a], attributes[n][a], origin)
            ELSE Extracted(attributes[n][a], nb_elements[m], origin)]]
    /\ UNCHANGED nb_elements

ImportAll(m, n, origin) == Import(m, n, Transferable(n), origin)

\* Throws when n has no such transferable attribute.
ImportOne(m, n, a, origin) ==
    /\ a \in Transferable(n)
    /\ Import(m, n, {a}, origin)

-----------------------------------------------------------------------------
Elements(m) == IndexRange(nb_elements[m])

PermutationsOf(S) ==
    {f \in [S -> S] : \A i, j \in S : f[i] = f[j] => i = j}

Next ==
    \E m \in Managers :
        \/ \E a \in Ids, storage \in Storages, properties \in PropertySets :
            CreateAttribute(m, a, storage, properties)
        \/ \E a \in IdsOf(m) :
            \/ DeleteAttribute(m, a)
            \/ \E properties \in PropertySets :
                SetAttributeProperties(m, a, properties)
            \/ \E i \in Elements(m), v \in Values : SetValue(m, a, i, v)
        \/ Clear(m)
        \/ \E size \in 0 .. MaxElements : Resize(m, size)
        \/ \E deleted \in SUBSET Elements(m) : DeleteElementsOf(m, deleted)
        \/ \E permutation \in PermutationsOf(Elements(m)) :
            PermuteElementsOf(m, permutation)
        \/ \E from, to \in Elements(m) :
            AssignAttributeValue(m, from, to) \/ CopyAttributeValue(m, from, to)
        \/ \E to \in Elements(m) : InterpolateAttributeValue(m, to)
        \/ \E n \in Managers \ {m} :
            \/ Copy(m, n)
            \/ \E origin \in Origins(m, n) :
                \/ ImportAll(m, n, origin)
                \/ \E a \in Ids : ImportOne(m, n, a, origin)

Spec == Init /\ [][Next]_vars

-----------------------------------------------------------------------------
\* The indices of an attribute are those of size elements: a vector has them
\* all, a map some, a constant none but its own.
InSize(attribute, size) ==
    LET indices == DOMAIN attribute.values
    IN  CASE attribute.storage = "variable" -> indices = IndexRange(size)
          [] attribute.storage = "sparse" -> indices \subseteq IndexRange(size)
          [] attribute.storage = "constant" -> indices = {0}

\* Every attribute has the size of its manager, so that the next deletion,
\* permutation or read finds what it indexes.
StoredInSize ==
    \A m \in Managers : \A a \in IdsOf(m) :
        InSize(attributes[m][a], nb_elements[m])

\* The table that these attributes of size elements are: the columns are those
\* that have a value per element.
ColumnsIn(held) == {a \in DOMAIN held : held[a].storage # "constant"}

RowsIn(held, size) ==
    [i \in IndexRange(size) |-> [a \in ColumnsIn(held) |-> Value(held[a], i)]]

\* The values of the constant attributes.
UniformIn(held) ==
    [a \in Ids |->
        IF a \in DOMAIN held \ ColumnsIn(held) THEN held[a].values[0] ELSE NoId]

Table ==
    INSTANCE AttributeTable WITH
        Columns <- Ids,
        columns <- [m \in Managers |-> ColumnsIn(attributes[m])],
        rows <- [m \in Managers |-> RowsIn(attributes[m], nb_elements[m])],
        uniform <- [m \in Managers |-> UniformIn(attributes[m])],
        NoValue <- NoId

\* The managers are tables: whatever the kinds of storage, all values of an
\* element move, go and are copied together, and nothing that a call does
\* not name changes.
ImplementsAttributeTable == Table!Spec
=============================================================================
