------------------------ MODULE AttributeManager_proof ------------------------
(***************************************************************************)
(* The attributes of a manager follow its elements, whatever their number. *)
(*                                                                         *)
(* First what each kind of storage does with one attribute: it stays an    *)
(* attribute of its kind, in the new size, and element i has the value     *)
(* that the operation means it to have.  The inductive invariant says that *)
(* the managers hold such attributes; the table of AttributeTable is then  *)
(* read off the values.                                                    *)
(***************************************************************************)
EXTENDS AttributeManager, Graph_proof

IsAttribute(attribute) ==
    /\ attribute = Attribute(attribute.storage, attribute.properties,
                             attribute.values)
    /\ attribute.storage \in Storages
    /\ attribute.values \in [DOMAIN attribute.values -> Values]

\* An attribute of a manager of size elements.
ValidIn(attribute, size) == IsAttribute(attribute) /\ InSize(attribute, size)

TypeOK ==
    /\ nb_elements \in [Managers -> Nat]
    /\ attributes = [m \in Managers |-> attributes[m]]
    /\ \A m \in Managers :
          /\ IdsOf(m) \subseteq Ids
          /\ attributes[m] = [a \in IdsOf(m) |-> attributes[m][a]]
          /\ \A a \in IdsOf(m) : IsAttribute(attributes[m][a])

IInv == TypeOK /\ StoredInSize

-----------------------------------------------------------------------------
\* Changing the values of an attribute changes nothing else of it.
LEMMA AttributeWithValues ==
    ASSUME NEW attribute, IsAttribute(attribute),
           NEW S, NEW values \in [S -> Values]
    PROVE  LET changed == [attribute EXCEPT !.values = values]
           IN  /\ IsAttribute(changed)
               /\ changed.storage = attribute.storage
               /\ changed.properties = attribute.properties
               /\ changed.values = values
<1> DEFINE changed == [attribute EXCEPT !.values = values]
<1>1. attribute = [storage |-> attribute.storage,
                   properties |-> attribute.properties,
                   values |-> attribute.values]
    BY DEF IsAttribute, Attribute
<1>2. changed = [storage |-> attribute.storage,
                 properties |-> attribute.properties,
                 values |-> values]
    BY <1>1
<1>3. DOMAIN values = S
    OBVIOUS
<1>4. attribute.storage \in Storages
    BY DEF IsAttribute
<1>5. QED
    BY <1>2, <1>3, <1>4 DEF IsAttribute, Attribute

\* An attribute of size elements has a value for each of them; a constant one
\* has one for every index.
LEMMA ValueOfAttribute ==
    ASSUME NEW size, NEW attribute, ValidIn(attribute, size),
           NEW i \in IndexRange(size)
    PROVE  Value(attribute, i) \in Values
<1>1. attribute.storage \in {"variable", "sparse", "constant"}
    BY DEF ValidIn, IsAttribute, Storages
<1>2. attribute.values \in [DOMAIN attribute.values -> Values]
    BY DEF ValidIn, IsAttribute
<1>3. CASE attribute.storage = "variable"
    BY <1>2, <1>3 DEF ValidIn, InSize, Value
<1>4. CASE attribute.storage = "sparse"
    BY <1>2, <1>4, DefaultAssumption DEF Value
<1>5. CASE attribute.storage = "constant"
    BY <1>2, <1>5 DEF ValidIn, InSize, Value
<1>6. QED
    BY <1>1, <1>3, <1>4, <1>5

\* set_value() inside the size changes the value of that index alone, except
\* that a constant attribute has no other.
LEMMA SetValueAtOneIndex ==
    ASSUME NEW size, NEW attribute, ValidIn(attribute, size),
           NEW i \in IndexRange(size), NEW v \in Values
    PROVE  LET changed == SetValueAt(attribute, i, v)
           IN  /\ ValidIn(changed, size)
               /\ changed.storage = attribute.storage
               /\ attribute.storage # "constant" =>
                    \A k \in IndexRange(size) :
                        Value(changed, k) =
                            IF k = i THEN v ELSE Value(attribute, k)
<1> DEFINE values == [k \in DOMAIN attribute.values \cup {i} |->
                        IF k = i THEN v ELSE attribute.values[k]]
           changed == SetValueAt(attribute, i, v)
<1>1. attribute.storage \in {"variable", "sparse", "constant"}
    BY DEF ValidIn, IsAttribute, Storages
<1>2. /\ IsAttribute(attribute)
      /\ attribute.values \in [DOMAIN attribute.values -> Values]
    BY DEF ValidIn, IsAttribute
<1>3. CASE attribute.storage = "constant"
    <2>1. changed = [attribute EXCEPT !.values = [k \in {0} |-> v]]
        BY <1>3 DEF SetValueAt
    <2>2. [k \in {0} |-> v] \in [{0} -> Values]
        OBVIOUS
    <2>3. /\ IsAttribute(changed)
          /\ changed.storage = attribute.storage
          /\ changed.values = [k \in {0} |-> v]
        BY <1>2, <2>1, <2>2, AttributeWithValues
    <2> HIDE DEF changed
    <2>4. ValidIn(changed, size)
        BY <1>3, <2>3 DEF ValidIn, InSize
    <2>5. QED
        BY <1>3, <2>3, <2>4 DEF changed
<1>4. CASE attribute.storage # "constant"
    <2>1. changed = [attribute EXCEPT !.values = values]
        BY <1>4 DEF SetValueAt
    <2>2. values \in [DOMAIN attribute.values \cup {i} -> Values]
        BY <1>2
    <2>3. DOMAIN values = DOMAIN attribute.values \cup {i}
        OBVIOUS
    <2>4. \A k \in DOMAIN values :
                values[k] = IF k = i THEN v ELSE attribute.values[k]
        OBVIOUS
    <2> HIDE DEF values
    <2>5. /\ IsAttribute(changed)
          /\ changed.storage = attribute.storage
          /\ changed.values = values
        BY <1>2, <2>1, <2>2, AttributeWithValues
    <2> HIDE DEF changed
    <2>6. ValidIn(changed, size)
        BY <1>1, <1>4, <2>3, <2>5 DEF ValidIn, InSize
    <2>7. \A k \in IndexRange(size) :
            Value(changed, k) = IF k = i THEN v ELSE Value(attribute, k)
        BY <1>1, <1>4, <2>3, <2>4, <2>5 DEF Value, ValidIn, InSize
    <2>8. QED
        BY <2>5, <2>6, <2>7 DEF changed
<1>5. QED
    BY <1>3, <1>4

\* resize(): what remains keeps its value, what comes has the default, if what
\* goes was not stored in a map.
LEMMA ResizedAttribute ==
    ASSUME NEW size, NEW attribute, ValidIn(attribute, size),
           NEW larger,
           attribute.storage = "sparse" =>
                DOMAIN attribute.values \subseteq IndexRange(larger)
    PROVE  LET resized == Resized(attribute, larger)
           IN  /\ ValidIn(resized, larger)
               /\ resized.storage = attribute.storage
               /\ resized.properties = attribute.properties
               /\ attribute.storage # "constant" =>
                    \A k \in IndexRange(larger) :
                        Value(resized, k) =
                            IF k \in IndexRange(size) THEN Value(attribute, k)
                            ELSE Default
<1> DEFINE values == [i \in IndexRange(larger) |->
                        IF i \in DOMAIN attribute.values
                        THEN attribute.values[i] ELSE Default]
           resized == Resized(attribute, larger)
<1>1. attribute.storage \in {"variable", "sparse", "constant"}
    BY DEF ValidIn, IsAttribute, Storages
<1>2. /\ IsAttribute(attribute)
      /\ attribute.values \in [DOMAIN attribute.values -> Values]
    BY DEF ValidIn, IsAttribute
<1>3. CASE attribute.storage = "variable"
    <2>1. resized = [attribute EXCEPT !.values = values]
        BY <1>3 DEF Resized
    <2>2. values \in [IndexRange(larger) -> Values]
        BY <1>2, DefaultAssumption
    <2>3. \A k \in IndexRange(larger) :
                values[k] = IF k \in DOMAIN attribute.values
                            THEN attribute.values[k] ELSE Default
        OBVIOUS
    <2> HIDE DEF values
    <2>4. /\ IsAttribute(resized)
          /\ resized.storage = attribute.storage
          /\ resized.properties = attribute.properties
          /\ resized.values = values
        BY <1>2, <2>1, <2>2, AttributeWithValues
    <2> HIDE DEF resized
    <2>5. ValidIn(resized, larger)
        BY <1>3, <2>2, <2>4 DEF ValidIn, InSize
    <2>6. DOMAIN attribute.values = IndexRange(size)
        BY <1>3 DEF ValidIn, InSize
    <2>7. \A k \in IndexRange(larger) :
            Value(resized, k) = IF k \in IndexRange(size)
                                THEN Value(attribute, k) ELSE Default
        BY <1>3, <2>3, <2>4, <2>6 DEF Value
    <2>8. QED
        BY <2>4, <2>5, <2>7 DEF resized
<1>4. CASE attribute.storage # "variable"
    <2>1. resized = attribute
        BY <1>4 DEF Resized
    <2>2. ValidIn(attribute, larger)
        BY <1>1, <1>2, <1>4 DEF ValidIn, InSize
    <2>3. attribute.storage = "sparse" =>
            \A k \in IndexRange(larger) :
                Value(attribute, k) = IF k \in IndexRange(size)
                                      THEN Value(attribute, k) ELSE Default
        BY DEF Value, ValidIn, InSize
    <2>4. QED
        BY <1>1, <1>4, <2>1, <2>2, <2>3
<1>5. QED
    BY <1>3, <1>4

\* delete_elements(): a kept element has its value at old2new of its index.
LEMMA CompactedAttribute ==
    ASSUME NEW size \in Nat, NEW attribute, ValidIn(attribute, size),
           NEW deleted
    PROVE  LET compacted == Compacted(attribute, size, deleted)
               kept == IndexRange(size) \ deleted
           IN  /\ ValidIn(compacted, Cardinality(kept))
               /\ compacted.storage = attribute.storage
               /\ compacted.properties = attribute.properties
               /\ attribute.storage # "constant" =>
                    \A i \in IndexRange(size) : i \notin deleted =>
                        Value(compacted,
                              MappingAfterDeletion(size, deleted)[i])
                            = Value(attribute, i)
<1> DEFINE old2new == MappingAfterDeletion(size, deleted)
           kept == IndexRange(size) \ deleted
           count == Cardinality(kept)
           compacted == Compacted(attribute, size, deleted)
<1>1. attribute.storage \in {"variable", "sparse", "constant"}
    BY DEF ValidIn, IsAttribute, Storages
<1>2. /\ IsAttribute(attribute)
      /\ attribute.values \in [DOMAIN attribute.values -> Values]
    BY DEF ValidIn, IsAttribute
<1>3. \A i, j \in kept : /\ old2new[i] \in IndexRange(count)
                         /\ old2new[i] = old2new[j] => i = j
    BY MappingIsOneToOne
<1>4. CASE attribute.storage = "variable"
    <2> DEFINE f == attribute.values
               values == DeleteElements(f, deleted)
    <2>1. compacted = [attribute EXCEPT !.values = values]
        BY <1>4 DEF Compacted
    <2>2. DOMAIN f = IndexRange(size)
        BY <1>4 DEF ValidIn, InSize
    <2>3. DOMAIN values = IndexRange(count)
        BY <2>2, DeletedVectorSize
    <2>4. values = [k \in IndexRange(count) |-> values[k]]
        BY <2>2 DEF DeleteElements
    <2>5. ASSUME NEW k \in IndexRange(count)
          PROVE  values[k] \in Values
        <3>1. \E i \in kept : old2new[i] = k /\ values[k] = f[i]
            BY <2>2, DeletedVectorComesFromKept
        <3>2. \A i \in kept : f[i] \in Values
            BY <1>2, <2>2
        <3>3. QED
            BY <3>1, <3>2
    <2>6. \A i \in kept : values[old2new[i]] = f[i]
        BY <2>2, DeletedVectorFollowsMapping
    <2>7. \A i \in kept : Value(attribute, i) = f[i]
        BY <1>4 DEF Value
    <2> HIDE DEF values, f, count
    <2>8. values \in [IndexRange(count) -> Values]
        BY <2>4, <2>5
    <2>9. /\ IsAttribute(compacted)
          /\ compacted.storage = attribute.storage
          /\ compacted.properties = attribute.properties
          /\ compacted.values = values
        BY <1>2, <2>1, <2>8, AttributeWithValues
    <2> HIDE DEF compacted
    <2>10. ValidIn(compacted, count)
        BY <1>4, <2>3, <2>9 DEF ValidIn, InSize
    <2>11. \A i \in kept : Value(compacted, old2new[i]) = Value(attribute, i)
        BY <1>4, <2>6, <2>7, <2>9 DEF Value
    <2>12. QED
        BY <2>9, <2>10, <2>11 DEF compacted, count
<1>5. CASE attribute.storage = "sparse"
    <2> DEFINE f == attribute.values
               held == {i \in DOMAIN f \ deleted : f[i] # Default}
               places == {old2new[i] : i \in held}
               values == [k \in places |->
                            f[CHOOSE i \in held : old2new[i] = k]]
    <2>1. compacted = [attribute EXCEPT !.values = values]
        BY <1>5 DEF Compacted
    <2>2. DOMAIN f \subseteq IndexRange(size)
        BY <1>5 DEF ValidIn, InSize
    <2>3. held \subseteq kept
        BY <2>2
    <2> HIDE DEF kept, count, old2new
    <2>4. places \subseteq IndexRange(count)
        BY <1>3, <2>3
    <2>5. ASSUME NEW i \in held
          PROVE  old2new[i] \in places /\ values[old2new[i]] = f[i]
        <3> DEFINE chosen == CHOOSE j \in held : old2new[j] = old2new[i]
        <3>1. old2new[i] \in places
            OBVIOUS
        <3>2. chosen \in held /\ old2new[chosen] = old2new[i]
            OBVIOUS
        <3>3. values[old2new[i]] = f[chosen]
            BY <3>1
        <3> HIDE DEF chosen, held
        <3>4. chosen = i
            BY <1>3, <2>3, <3>2
        <3>5. QED
            BY <3>1, <3>3, <3>4
    <2>6. \A k \in places : values[k] \in Values
        <3>1. \A i \in held : f[i] \in Values
            BY <1>2
        <3>2. \A k \in places : \E i \in held : k = old2new[i]
            OBVIOUS
        <3> HIDE DEF values, places, held
        <3>3. QED
            BY <2>5, <3>1, <3>2
    <2>7. values = [k \in places |-> values[k]]
        OBVIOUS
    <2>8. ASSUME NEW i \in kept, i \notin held
          PROVE  old2new[i] \notin places
        <3>1. \A k \in places : \E j \in held : k = old2new[j]
            OBVIOUS
        <3> HIDE DEF places, held
        <3>2. QED
            BY <1>3, <2>3, <2>8, <3>1
    <2>9. /\ \A i \in held : Value(attribute, i) = f[i]
          /\ \A i \in kept : i \notin held => Value(attribute, i) = Default
        BY <1>5, <2>2 DEF Value, kept
    <2>10. DOMAIN values = places
        OBVIOUS
    <2> HIDE DEF values, places, held, f
    <2>11. values \in [places -> Values]
        BY <2>6, <2>7
    <2>12. /\ IsAttribute(compacted)
           /\ compacted.storage = attribute.storage
           /\ compacted.properties = attribute.properties
           /\ compacted.values = values
        BY <1>2, <2>1, <2>11, AttributeWithValues
    <2> HIDE DEF compacted
    <2>13. ValidIn(compacted, count)
        BY <1>5, <2>4, <2>10, <2>12 DEF ValidIn, InSize
    <2>14. ASSUME NEW i \in kept
           PROVE  Value(compacted, old2new[i]) = Value(attribute, i)
        <3>1. CASE i \in held
            BY <1>5, <2>5, <2>9, <2>10, <2>12, <3>1 DEF Value
        <3>2. CASE i \notin held
            BY <1>5, <2>8, <2>9, <2>10, <2>12, <3>2 DEF Value
        <3>3. QED
            BY <3>1, <3>2
    <2>15. QED
        BY <2>12, <2>13, <2>14 DEF compacted, count, kept, old2new
<1>6. CASE attribute.storage = "constant"
    <2>1. compacted = attribute
        BY <1>6 DEF Compacted
    <2>2. ValidIn(attribute, count)
        BY <1>2, <1>6 DEF ValidIn, InSize
    <2>3. QED
        BY <1>6, <2>1, <2>2
<1>7. QED
    BY <1>1, <1>4, <1>5, <1>6

\* permute_elements(): a vector has at k the value of permutation[k], a map
\* that of old2new of k.
LEMMA PermutedAttribute ==
    ASSUME NEW size, NEW attribute, ValidIn(attribute, size),
           NEW permutation \in Bijection(IndexRange(size), IndexRange(size))
    PROVE  LET permuted == Permuted(attribute, permutation)
               old2new == Old2NewPermutation(permutation)
           IN  /\ ValidIn(permuted, size)
               /\ permuted.storage = attribute.storage
               /\ permuted.properties = attribute.properties
               /\ attribute.storage = "variable" =>
                    \A k \in IndexRange(size) :
                        Value(permuted, k) = Value(attribute, permutation[k])
               /\ attribute.storage = "sparse" =>
                    \A k \in IndexRange(size) :
                        Value(permuted, k) = Value(attribute, old2new[k])
<1> DEFINE old2new == Old2NewPermutation(permutation)
           permuted == Permuted(attribute, permutation)
<1>1. attribute.storage \in {"variable", "sparse", "constant"}
    BY DEF ValidIn, IsAttribute, Storages
<1>2. /\ IsAttribute(attribute)
      /\ attribute.values \in [DOMAIN attribute.values -> Values]
    BY DEF ValidIn, IsAttribute
<1>3. \A k \in IndexRange(size) :
            /\ old2new[k] \in IndexRange(size)
            /\ permutation[k] \in IndexRange(size)
            /\ old2new[permutation[k]] = k
            /\ permutation[old2new[k]] = k
    BY Old2NewInvertsPermutation DEF Bijection, Injection
<1>4. CASE attribute.storage = "variable"
    <2> DEFINE f == attribute.values
               values == PermuteElements(f, permutation)
    <2>1. permuted = [attribute EXCEPT !.values = values]
        BY <1>4 DEF Permuted
    <2>2. DOMAIN f = IndexRange(size)
        BY <1>4 DEF ValidIn, InSize
    <2>3. values = [k \in IndexRange(size) |-> f[permutation[k]]]
        BY <2>2 DEF PermuteElements
    <2>4. DOMAIN values = IndexRange(size)
        BY <2>3
    <2>5. \A k \in IndexRange(size) : values[k] = f[permutation[k]]
        BY <2>3
    <2>6. values \in [IndexRange(size) -> Values]
        BY <1>2, <1>3, <2>2, <2>3
    <2>7. \A k \in IndexRange(size) :
                Value(attribute, permutation[k]) = f[permutation[k]]
        BY <1>4 DEF Value
    <2> HIDE DEF values, f
    <2>8. /\ IsAttribute(permuted)
          /\ permuted.storage = attribute.storage
          /\ permuted.properties = attribute.properties
          /\ permuted.values = values
        BY <1>2, <2>1, <2>6, AttributeWithValues
    <2> HIDE DEF permuted
    <2>9. ValidIn(permuted, size)
        BY <1>4, <2>4, <2>8 DEF ValidIn, InSize
    <2>10. \A k \in IndexRange(size) :
                Value(permuted, k) = Value(attribute, permutation[k])
        BY <1>4, <2>5, <2>7, <2>8 DEF Value
    <2>11. QED
        BY <1>4, <2>8, <2>9, <2>10 DEF permuted
<1>5. CASE attribute.storage = "sparse"
    <2> DEFINE f == attribute.values
               places == {permutation[i] : i \in DOMAIN f}
               values == [k \in places |-> f[old2new[k]]]
    <2>1. permuted = [attribute EXCEPT !.values = values]
        BY <1>5 DEF Permuted
    <2>2. DOMAIN f \subseteq IndexRange(size)
        BY <1>5 DEF ValidIn, InSize
    <2>3. \A k \in IndexRange(size) : k \in places <=> old2new[k] \in DOMAIN f
        <3>1. \A k \in places : \E i \in DOMAIN f : k = permutation[i]
            OBVIOUS
        <3>2. \A i \in DOMAIN f : permutation[i] \in places
            OBVIOUS
        <3> HIDE DEF places, f, old2new
        <3>3. QED
            BY <1>3, <2>2, <3>1, <3>2
    <2>4. places \subseteq IndexRange(size)
        BY <1>3, <2>2
    <2>5. /\ DOMAIN values = places
          /\ \A k \in places : values[k] = f[old2new[k]]
          /\ values = [k \in places |-> values[k]]
        OBVIOUS
    <2>6. \A k \in IndexRange(size) :
                Value(attribute, old2new[k]) =
                    IF k \in places THEN f[old2new[k]] ELSE Default
        BY <1>5, <2>3 DEF Value
    <2>7. \A i \in DOMAIN f : f[i] \in Values
        BY <1>2
    <2> HIDE DEF values, places, f, old2new
    <2>8. values \in [places -> Values]
        BY <2>3, <2>4, <2>5, <2>7
    <2>9. /\ IsAttribute(permuted)
          /\ permuted.storage = attribute.storage
          /\ permuted.properties = attribute.properties
          /\ permuted.values = values
        BY <1>2, <2>1, <2>8, AttributeWithValues
    <2> HIDE DEF permuted
    <2>10. ValidIn(permuted, size)
        BY <1>5, <2>4, <2>5, <2>9 DEF ValidIn, InSize
    <2>11. \A k \in IndexRange(size) :
                Value(permuted, k) = Value(attribute, old2new[k])
        BY <1>5, <2>5, <2>6, <2>9 DEF Value
    <2>12. QED
        BY <1>5, <2>9, <2>10, <2>11 DEF permuted, old2new
<1>6. CASE attribute.storage = "constant"
    BY <1>6 DEF Permuted, ValidIn, InSize
<1>7. QED
    BY <1>1, <1>4, <1>5, <1>6

\* compute_value( from_element, to_element ) changes one element of one
\* attribute.
LEMMA MovedAttribute ==
    ASSUME NEW size, NEW attribute, ValidIn(attribute, size),
           NEW from \in IndexRange(size), NEW to \in IndexRange(size)
    PROVE  LET moved == ValueMoved(attribute, from, to)
           IN  /\ ValidIn(moved, size)
               /\ moved.storage = attribute.storage
               /\ attribute.storage # "constant" =>
                    \A k \in IndexRange(size) :
                        Value(moved, k) =
                            IF k = to THEN Value(attribute, from)
                            ELSE Value(attribute, k)
<1> DEFINE v == Value(attribute, from)
<1>1. v \in Values
    BY ValueOfAttribute
<1> HIDE DEF v
<1>2. CASE attribute.storage = "constant"
    BY <1>2 DEF ValueMoved
<1>3. CASE attribute.storage # "constant"
    <2>1. ValueMoved(attribute, from, to) = SetValueAt(attribute, to, v)
        BY <1>3 DEF ValueMoved, v
    <2>2. /\ ValidIn(SetValueAt(attribute, to, v), size)
          /\ SetValueAt(attribute, to, v).storage = attribute.storage
          /\ \A k \in IndexRange(size) :
                Value(SetValueAt(attribute, to, v), k) =
                    IF k = to THEN v ELSE Value(attribute, k)
        BY <1>1, <1>3, SetValueAtOneIndex
    <2>3. QED
        BY <1>3, <2>1, <2>2 DEF v
<1>4. QED
    BY <1>2, <1>3

\* copy() makes the attribute that of the other manager, unless it leaves old
\* values behind.
LEMMA CopiedAttribute ==
    ASSUME NEW size, NEW to, ValidIn(to, size),
           NEW other \in Nat, NEW from, ValidIn(from, other),
           to.storage = from.storage,
           to.storage = "variable" => other # 0 \/ size = 0,
           to.storage = "sparse" =>
                \A i \in DOMAIN to.values : Value(from, i) # Default
    PROVE  LET copied == Copied(to, from, other)
           IN  /\ ValidIn(copied, other)
               /\ copied.storage = from.storage
               /\ from.storage # "constant" =>
                    \A k \in IndexRange(other) :
                        Value(copied, k) = Value(from, k)
<1> DEFINE copied == Copied(to, from, other)
<1>1. /\ from.storage \in {"variable", "sparse", "constant"}
      /\ IsAttribute(to)
      /\ from.values \in [DOMAIN from.values -> Values]
      /\ to.values \in [DOMAIN to.values -> Values]
    BY DEF ValidIn, IsAttribute, Storages
<1>2. CASE from.storage = "variable"
    <2> DEFINE values == [i \in IndexRange(other) |-> Value(from, i)]
    <2>1. CASE other = 0
        <3>1. copied = to /\ size = 0
            BY <1>2, <2>1 DEF Copied
        <3>2. \A k : k \notin IndexRange(0)
            BY DEF IndexRange
        <3>3. QED
            BY <1>2, <2>1, <3>1, <3>2
    <2>2. CASE other # 0
        <3>1. copied = [to EXCEPT !.values = values]
            BY <1>2, <2>2 DEF Copied
        <3>2. values \in [IndexRange(other) -> Values]
            BY ValueOfAttribute
        <3>3. /\ DOMAIN values = IndexRange(other)
              /\ \A k \in IndexRange(other) : values[k] = Value(from, k)
            OBVIOUS
        <3> HIDE DEF values
        <3>4. /\ IsAttribute(copied)
              /\ copied.storage = to.storage
              /\ copied.values = values
            BY <1>1, <3>1, <3>2, AttributeWithValues
        <3> HIDE DEF copied
        <3>5. ValidIn(copied, other)
            BY <1>2, <3>3, <3>4 DEF ValidIn, InSize
        <3>6. \A k \in IndexRange(other) : Value(copied, k) = values[k]
            BY <1>2, <3>4 DEF Value
        <3>7. QED
            BY <3>3, <3>4, <3>5, <3>6 DEF copied
    <2>3. QED
        BY <2>1, <2>2
<1>3. CASE from.storage = "sparse"
    <2> DEFINE stored == {i \in IndexRange(other) : Value(from, i) # Default}
               indices == DOMAIN to.values \cup stored
               values == [i \in indices |->
                            IF i \in stored THEN Value(from, i)
                            ELSE to.values[i]]
    <2>1. copied = [to EXCEPT !.values = values]
        BY <1>3 DEF Copied
    <2>2. DOMAIN from.values \subseteq IndexRange(other)
        BY <1>3 DEF ValidIn, InSize
    <2>3. \A i \in DOMAIN to.values : i \in DOMAIN from.values
        BY <1>3 DEF Value
    <2>4. indices = stored
        BY <1>3, <2>2, <2>3
    <2>5. \A i \in IndexRange(other) : Value(from, i) \in Values
        BY ValueOfAttribute
    <2>6. /\ values \in [indices -> Values]
          /\ DOMAIN values = stored
          /\ \A i \in stored : values[i] = Value(from, i)
        BY <2>4, <2>5
    <2>7. /\ stored \subseteq IndexRange(other)
          /\ \A i \in IndexRange(other) \ stored : Value(from, i) = Default
        OBVIOUS
    <2> HIDE DEF values, indices, stored
    <2>8. /\ IsAttribute(copied)
          /\ copied.storage = to.storage
          /\ copied.values = values
        BY <1>1, <2>1, <2>6, AttributeWithValues
    <2> HIDE DEF copied
    <2>9. ValidIn(copied, other)
        BY <1>3, <2>6, <2>7, <2>8 DEF ValidIn, InSize
    <2>10. \A k \in IndexRange(other) :
                Value(copied, k) =
                    IF k \in stored THEN values[k] ELSE Default
        BY <1>3, <2>6, <2>8 DEF Value
    <2>11. QED
        BY <2>6, <2>7, <2>8, <2>9, <2>10 DEF copied
<1>4. CASE from.storage = "constant"
    <2>1. copied = [to EXCEPT !.values = from.values]
        BY <1>4 DEF Copied
    <2>2. /\ IsAttribute(copied)
          /\ copied.storage = to.storage
          /\ copied.values = from.values
        BY <1>1, <2>1, AttributeWithValues
    <2> HIDE DEF copied
    <2>3. ValidIn(copied, other)
        BY <1>4, <2>2 DEF ValidIn, InSize
    <2>4. QED
        BY <1>4, <2>2, <2>3 DEF copied
<1>5. QED
    BY <1>1, <1>2, <1>3, <1>4

\* import(): an element that comes from another one has its value, unless the
\* value is a default that a map skips; the others keep theirs.
LEMMA ImportedAttribute ==
    ASSUME NEW size, NEW to, ValidIn(to, size),
           NEW other, NEW from, ValidIn(from, other),
           NEW origin, DOMAIN origin \subseteq IndexRange(size),
           \A i \in DOMAIN origin : origin[i] \in IndexRange(other),
           to.storage = "constant" => Value(from, 0) \in Values
    PROVE  LET imported == Imported(to, from, origin)
           IN  /\ ValidIn(imported, size)
               /\ imported.storage = to.storage
               /\ to.storage # "constant" =>
                    \A k \in IndexRange(size) :
                        IF k \in DOMAIN origin
                        THEN \/ Value(imported, k) = Value(from, origin[k])
                             \/ /\ Value(from, origin[k]) = Default
                                /\ Value(imported, k) = Value(to, k)
                        ELSE Value(imported, k) = Value(to, k)
<1> DEFINE imported == Imported(to, from, origin)
<1>1. /\ to.storage \in {"variable", "sparse", "constant"}
      /\ IsAttribute(to)
      /\ to.values \in [DOMAIN to.values -> Values]
    BY DEF ValidIn, IsAttribute, Storages
<1>2. CASE to.storage = "constant"
    <2> DEFINE values == [k \in {0} |-> Value(from, 0)]
    <2>1. imported = [to EXCEPT !.values = values]
        BY <1>2 DEF Imported
    <2>2. values \in [{0} -> Values] /\ DOMAIN values = {0}
        BY <1>2
    <2> HIDE DEF values
    <2>3. /\ IsAttribute(imported)
          /\ imported.storage = to.storage
          /\ imported.values = values
        BY <1>1, <2>1, <2>2, AttributeWithValues
    <2> HIDE DEF imported
    <2>4. ValidIn(imported, size)
        BY <1>2, <2>2, <2>3 DEF ValidIn, InSize
    <2>5. QED
        BY <1>2, <2>3, <2>4 DEF imported
<1>3. CASE to.storage # "constant"
    <2> DEFINE read == {i \in DOMAIN origin :
                            to.storage = "sparse" =>
                                Value(from, origin[i]) # Default}
               indices == DOMAIN to.values \cup read
               values == [i \in indices |->
                            IF i \in read THEN Value(from, origin[i])
                            ELSE to.values[i]]
    <2>1. imported = [to EXCEPT !.values = values]
        BY <1>3 DEF Imported
    <2>2. /\ read \subseteq DOMAIN origin
          /\ \A i \in DOMAIN origin \ read :
                to.storage = "sparse" /\ Value(from, origin[i]) = Default
        OBVIOUS
    <2>3. \A i \in DOMAIN origin : Value(from, origin[i]) \in Values
        BY ValueOfAttribute
    <2>4. /\ values \in [indices -> Values]
          /\ DOMAIN values = indices
          /\ \A i \in indices :
                values[i] = IF i \in read THEN Value(from, origin[i])
                            ELSE to.values[i]
        BY <1>1, <2>2, <2>3
    <2>5. indices = DOMAIN to.values \cup read
        OBVIOUS
    <2> HIDE DEF values, indices, read
    <2>6. /\ IsAttribute(imported)
          /\ imported.storage = to.storage
          /\ imported.values = values
        BY <1>1, <2>1, <2>4, AttributeWithValues
    <2> HIDE DEF imported
    <2>7. ValidIn(imported, size)
        <3>1. CASE to.storage = "variable"
            <4>1. DOMAIN to.values = IndexRange(size)
                BY <3>1 DEF ValidIn, InSize
            <4>2. indices = IndexRange(size)
                BY <2>2, <2>5, <4>1
            <4>3. QED
                BY <2>4, <2>6, <3>1, <4>2 DEF ValidIn, InSize
        <3>2. CASE to.storage = "sparse"
            <4>1. DOMAIN to.values \subseteq IndexRange(size)
                BY <3>2 DEF ValidIn, InSize
            <4>2. indices \subseteq IndexRange(size)
                BY <2>2, <2>5, <4>1
            <4>3. QED
                BY <2>4, <2>6, <3>2, <4>2 DEF ValidIn, InSize
        <3>3. QED
            BY <1>1, <1>3, <3>1, <3>2
    <2>8. ASSUME NEW k \in IndexRange(size)
          PROVE  Value(imported, k) =
                    IF k \in read THEN Value(from, origin[k])
                    ELSE Value(to, k)
        <3>1. CASE to.storage = "variable"
            <4>1. DOMAIN to.values = IndexRange(size)
                BY <3>1 DEF ValidIn, InSize
            <4>2. k \in indices
                BY <2>5, <4>1
            <4>3. QED
                BY <2>4, <2>6, <3>1, <4>2 DEF Value
        <3>2. CASE to.storage = "sparse"
            BY <2>4, <2>5, <2>6, <3>2 DEF Value
        <3>3. QED
            BY <1>1, <1>3, <3>1, <3>2
    <2>9. ASSUME NEW k \in IndexRange(size)
          PROVE  IF k \in DOMAIN origin
                 THEN \/ Value(imported, k) = Value(from, origin[k])
                      \/ /\ Value(from, origin[k]) = Default
                         /\ Value(imported, k) = Value(to, k)
                 ELSE Value(imported, k) = Value(to, k)
        BY <2>2, <2>8
    <2>10. QED
        BY <1>3, <2>6, <2>7, <2>9 DEF imported
<1>4. QED
    BY <1>2, <1>3

\* extract(): the default where nothing is imported.
LEMMA ExtractedAttribute ==
    ASSUME NEW size, NEW other, NEW from, ValidIn(from, other),
           NEW origin, DOMAIN origin \subseteq IndexRange(size),
           \A i \in DOMAIN origin : origin[i] \in IndexRange(other)
    PROVE  LET extracted == Extracted(from, size, origin)
           IN  /\ ValidIn(extracted, size)
               /\ extracted.storage = from.storage
               /\ from.storage # "constant" =>
                    \A k \in IndexRange(size) :
                        Value(extracted, k) =
                            IF k \in DOMAIN origin
                            THEN Value(from, origin[k]) ELSE Default
<1> DEFINE extracted == Extracted(from, size, origin)
           empty == [i \in {} |-> Default]
           fresh == [from EXCEPT !.values = empty]
           begun == Resized(fresh, size)
<1>1. /\ from.storage \in {"variable", "sparse", "constant"}
      /\ IsAttribute(from)
    BY DEF ValidIn, IsAttribute, Storages
<1>2. CASE from.storage = "constant"
    <2>1. extracted = from
        BY <1>2 DEF Extracted
    <2>2. ValidIn(from, size)
        BY <1>2 DEF ValidIn, InSize
    <2>3. QED
        BY <1>2, <2>1, <2>2
<1>3. CASE from.storage # "constant"
    <2>1. extracted = Imported(begun, from, origin)
        BY <1>3 DEF Extracted
    <2>2. empty \in [{} -> Values] /\ DOMAIN empty = {}
        OBVIOUS
    <2> HIDE DEF empty
    <2>3. /\ IsAttribute(fresh)
          /\ fresh.storage = from.storage
          /\ fresh.values = empty
        BY <1>1, <2>2, AttributeWithValues
    <2> HIDE DEF fresh
    <2>4. \A k : k \notin IndexRange(0)
        BY DEF IndexRange
    <2>5. ValidIn(fresh, 0) /\ DOMAIN fresh.values = {}
        BY <1>1, <1>3, <2>2, <2>3, <2>4 DEF ValidIn, InSize
    <2>6. /\ ValidIn(begun, size)
          /\ begun.storage = from.storage
          /\ \A k \in IndexRange(size) : Value(begun, k) = Default
        BY <1>3, <2>3, <2>4, <2>5, ResizedAttribute
    <2> HIDE DEF begun
    <2>7. /\ ValidIn(Imported(begun, from, origin), size)
          /\ Imported(begun, from, origin).storage = from.storage
          /\ \A k \in IndexRange(size) :
                IF k \in DOMAIN origin
                THEN \/ Value(Imported(begun, from, origin), k)
                            = Value(from, origin[k])
                     \/ /\ Value(from, origin[k]) = Default
                        /\ Value(Imported(begun, from, origin), k)
                                = Value(begun, k)
                ELSE Value(Imported(begun, from, origin), k)
                        = Value(begun, k)
        BY <1>3, <2>6, ImportedAttribute
    <2>8. \A k \in IndexRange(size) :
            Value(Imported(begun, from, origin), k) =
                IF k \in DOMAIN origin THEN Value(from, origin[k])
                ELSE Default
        BY <2>6, <2>7
    <2>9. QED
        BY <2>1, <2>7, <2>8
<1>4. QED
    BY <1>2, <1>3

-----------------------------------------------------------------------------
\* Manager m becomes one of size elements with the attributes held.
Becomes(m, held, size) ==
    /\ size \in Nat
    /\ held = [a \in DOMAIN held |-> held[a]]
    /\ DOMAIN held \subseteq Ids
    /\ \A a \in DOMAIN held : ValidIn(held[a], size)
    /\ attributes' = [attributes EXCEPT ![m] = held]
    /\ nb_elements' = [nb_elements EXCEPT ![m] = size]

\* What the invariant says of the managers.
LEMMA ManagersAreValid ==
    ASSUME IInv, NEW m \in Managers
    PROVE  /\ nb_elements[m] \in Nat
           /\ IdsOf(m) \subseteq Ids
           /\ attributes[m] = [a \in IdsOf(m) |-> attributes[m][a]]
           /\ \A a \in IdsOf(m) : ValidIn(attributes[m][a], nb_elements[m])
    BY DEF IInv, TypeOK, StoredInSize, ValidIn

\* Only m becomes something else.
LEMMA OthersStay ==
    ASSUME IInv, NEW m \in Managers, NEW held, NEW size,
           Becomes(m, held, size)
    PROVE  /\ attributes'[m] = held /\ nb_elements'[m] = size
           /\ attributes' = [n \in Managers |-> attributes'[n]]
           /\ nb_elements' = [n \in Managers |-> nb_elements'[n]]
           /\ \A n \in Managers \ {m} : /\ attributes'[n] = attributes[n]
                                        /\ nb_elements'[n] = nb_elements[n]
    BY DEF IInv, TypeOK, Becomes

LEMMA BecomesValid ==
    ASSUME IInv, NEW m \in Managers, NEW held, NEW size,
           Becomes(m, held, size)
    PROVE  IInv'
<1>1. /\ attributes'[m] = held /\ nb_elements'[m] = size
      /\ attributes' = [n \in Managers |-> attributes'[n]]
      /\ nb_elements' = [n \in Managers |-> nb_elements'[n]]
      /\ \A n \in Managers \ {m} : /\ attributes'[n] = attributes[n]
                                   /\ nb_elements'[n] = nb_elements[n]
    BY OthersStay
<1>2. ASSUME NEW n \in Managers
      PROVE  /\ nb_elements'[n] \in Nat
             /\ IdsOf(n)' \subseteq Ids
             /\ attributes'[n] = [a \in IdsOf(n)' |-> attributes'[n][a]]
             /\ \A a \in IdsOf(n)' :
                    ValidIn(attributes'[n][a], nb_elements'[n])
    <2>1. CASE n = m
        BY <1>1, <2>1 DEF Becomes, IdsOf
    <2>2. CASE n # m
        <3>1. attributes'[n] = attributes[n] /\ nb_elements'[n] = nb_elements[n]
            BY <1>1, <2>2
        <3>2. QED
            BY <3>1, ManagersAreValid DEF IdsOf
    <2>3. QED
        BY <2>1, <2>2
<1>3. TypeOK'
    BY <1>1, <1>2 DEF TypeOK, ValidIn
<1>4. StoredInSize'
    BY <1>2 DEF StoredInSize, ValidIn
<1>5. QED
    BY <1>3, <1>4 DEF IInv

-----------------------------------------------------------------------------
\* What m becomes, action by action.

LEMMA CreateAttributeBecomes ==
    ASSUME IInv, NEW m \in Managers, NEW a \in Ids,
           NEW storage \in Storages, NEW properties,
           CreateAttribute(m, a, storage, properties)
    PROVE  LET values == IF storage = "constant" THEN [i \in {0} |-> Default]
                         ELSE [i \in {} |-> Default]
               created == Resized(Attribute(storage, properties, values),
                                  nb_elements[m])
               held == IF a \in IdsOf(m) THEN attributes[m]
                       ELSE [b \in IdsOf(m) \cup {a} |->
                                IF b = a THEN created ELSE attributes[m][b]]
           IN  /\ Becomes(m, held, nb_elements[m])
               /\ created.storage = storage
               /\ storage # "constant" =>
                    \A k \in IndexRange(nb_elements[m]) :
                        Value(created, k) = Default
<1> DEFINE values == IF storage = "constant" THEN [i \in {0} |-> Default]
                     ELSE [i \in {} |-> Default]
           fresh == Attribute(storage, properties, values)
           created == Resized(fresh, nb_elements[m])
           held == IF a \in IdsOf(m) THEN attributes[m]
                   ELSE [b \in IdsOf(m) \cup {a} |->
                            IF b = a THEN created ELSE attributes[m][b]]
<1>1. /\ nb_elements[m] \in Nat
      /\ IdsOf(m) \subseteq Ids
      /\ attributes[m] = [b \in IdsOf(m) |-> attributes[m][b]]
      /\ \A b \in IdsOf(m) : ValidIn(attributes[m][b], nb_elements[m])
    BY ManagersAreValid
<1>2. \A k : k \notin IndexRange(0)
    BY DEF IndexRange
<1>3. /\ values \in [DOMAIN values -> Values]
      /\ DOMAIN values = IF storage = "constant" THEN {0} ELSE {}
    BY DefaultAssumption
<1> HIDE DEF values
<1>4. /\ fresh.storage = storage
      /\ fresh.properties = properties
      /\ fresh.values = values
      /\ fresh = Attribute(fresh.storage, fresh.properties, fresh.values)
    BY DEF Attribute
<1> HIDE DEF fresh
<1>5. ValidIn(fresh, 0)
    BY <1>2, <1>3, <1>4 DEF ValidIn, IsAttribute, InSize, Storages
<1>6. fresh.storage = "sparse" =>
            DOMAIN fresh.values \subseteq IndexRange(nb_elements[m])
    BY <1>3, <1>4
<1>7. /\ ValidIn(created, nb_elements[m])
      /\ created.storage = storage
      /\ storage # "constant" =>
            \A k \in IndexRange(nb_elements[m]) : Value(created, k) = Default
    BY <1>2, <1>4, <1>5, <1>6, ResizedAttribute
<1>8. /\ attributes' = [attributes EXCEPT ![m] = held]
      /\ nb_elements' = [nb_elements EXCEPT ![m] = nb_elements[m]]
    <2>1. attributes' = [attributes EXCEPT ![m] = held]
        BY DEF CreateAttribute, IdsOf, fresh, values
    <2>2. QED
        BY <2>1 DEF CreateAttribute, IInv, TypeOK
<1> HIDE DEF created
<1>9. /\ held = [b \in DOMAIN held |-> held[b]]
      /\ DOMAIN held \subseteq Ids
      /\ \A b \in DOMAIN held : ValidIn(held[b], nb_elements[m])
    <2>1. CASE a \in IdsOf(m)
        BY <1>1, <2>1 DEF IdsOf
    <2>2. CASE a \notin IdsOf(m)
        BY <1>1, <1>7, <2>2
    <2>3. QED
        BY <2>1, <2>2
<1> HIDE DEF held
<1>10. Becomes(m, held, nb_elements[m])
    BY <1>1, <1>8, <1>9 DEF Becomes
<1>11. QED
    BY <1>7, <1>10 DEF held, created, fresh, values

LEMMA DeleteAttributeBecomes ==
    ASSUME IInv, NEW m \in Managers, NEW a, DeleteAttribute(m, a)
    PROVE  Becomes(m, [b \in IdsOf(m) \ {a} |-> attributes[m][b]],
                   nb_elements[m])
<1> DEFINE held == [b \in IdsOf(m) \ {a} |-> attributes[m][b]]
<1>1. /\ attributes' = [attributes EXCEPT ![m] = held]
      /\ nb_elements' = [nb_elements EXCEPT ![m] = nb_elements[m]]
    BY DEF DeleteAttribute, Restrict, IdsOf, IInv, TypeOK
<1>2. QED
    BY <1>1, ManagersAreValid DEF Becomes

LEMMA ClearBecomes ==
    ASSUME IInv, NEW m \in Managers, Clear(m)
    PROVE  Becomes(m, [a \in {} |-> {}], 0)
    BY DEF Clear, Becomes

LEMMA SetAttributePropertiesBecomes ==
    ASSUME IInv, NEW m \in Managers, NEW a \in IdsOf(m), NEW properties,
           SetAttributeProperties(m, a, properties)
    PROVE  LET changed == [attributes[m][a] EXCEPT !.properties = properties]
           IN  /\ Becomes(m, [attributes[m] EXCEPT ![a] = changed],
                          nb_elements[m])
               /\ changed.storage = attributes[m][a].storage
               /\ changed.values = attributes[m][a].values
<1> DEFINE old == attributes[m][a]
           changed == [old EXCEPT !.properties = properties]
           held == [attributes[m] EXCEPT ![a] = changed]
<1>1. /\ nb_elements[m] \in Nat
      /\ IdsOf(m) \subseteq Ids
      /\ attributes[m] = [b \in IdsOf(m) |-> attributes[m][b]]
      /\ \A b \in IdsOf(m) : ValidIn(attributes[m][b], nb_elements[m])
    BY ManagersAreValid
<1>2. old = [storage |-> old.storage, properties |-> old.properties,
             values |-> old.values]
    BY <1>1 DEF ValidIn, IsAttribute, Attribute
<1>3. changed = [storage |-> old.storage, properties |-> properties,
                 values |-> old.values]
    BY <1>2
<1>4. ValidIn(changed, nb_elements[m])
    BY <1>1, <1>3 DEF ValidIn, IsAttribute, InSize, Attribute
<1>5. /\ attributes' = [attributes EXCEPT ![m] = held]
      /\ nb_elements' = [nb_elements EXCEPT ![m] = nb_elements[m]]
    <2>1. attributes' = [attributes EXCEPT ![m] = held]
        BY DEF SetAttributeProperties
    <2>2. QED
        BY <2>1 DEF SetAttributeProperties, IInv, TypeOK
<1>6. changed.storage = old.storage /\ changed.values = old.values
    BY <1>3
<1> HIDE DEF changed
<1>7. /\ held = [b \in DOMAIN held |-> held[b]]
      /\ DOMAIN held = IdsOf(m)
      /\ \A b \in DOMAIN held : ValidIn(held[b], nb_elements[m])
    BY <1>1, <1>4
<1> HIDE DEF held
<1>8. Becomes(m, held, nb_elements[m])
    BY <1>1, <1>5, <1>7 DEF Becomes
<1>9. QED
    BY <1>6, <1>8 DEF held, changed

LEMMA SetValueBecomes ==
    ASSUME IInv, NEW m \in Managers, NEW a \in IdsOf(m),
           NEW i \in Elements(m), NEW v \in Values, SetValue(m, a, i, v)
    PROVE  Becomes(m, [attributes[m] EXCEPT
                            ![a] = SetValueAt(attributes[m][a], i, v)],
                   nb_elements[m])
<1> DEFINE changed == SetValueAt(attributes[m][a], i, v)
           held == [attributes[m] EXCEPT ![a] = changed]
<1>1. /\ nb_elements[m] \in Nat
      /\ IdsOf(m) \subseteq Ids
      /\ attributes[m] = [b \in IdsOf(m) |-> attributes[m][b]]
      /\ \A b \in IdsOf(m) : ValidIn(attributes[m][b], nb_elements[m])
    BY ManagersAreValid
<1>2. ValidIn(changed, nb_elements[m])
    BY <1>1, SetValueAtOneIndex DEF Elements
<1>3. /\ attributes' = [attributes EXCEPT ![m] = held]
      /\ nb_elements' = [nb_elements EXCEPT ![m] = nb_elements[m]]
    <2>1. attributes' = [attributes EXCEPT ![m] = held]
        BY DEF SetValue
    <2>2. QED
        BY <2>1 DEF SetValue, IInv, TypeOK
<1> HIDE DEF changed
<1>4. /\ held = [b \in DOMAIN held |-> held[b]]
      /\ DOMAIN held = IdsOf(m)
      /\ \A b \in DOMAIN held : ValidIn(held[b], nb_elements[m])
    BY <1>1, <1>2
<1> HIDE DEF held
<1>5. Becomes(m, held, nb_elements[m])
    BY <1>1, <1>3, <1>4 DEF Becomes
<1>6. QED
    BY <1>5 DEF held, changed

LEMMA ResizeBecomes ==
    ASSUME IInv, NEW m \in Managers, NEW size \in Nat, Resize(m, size)
    PROVE  Becomes(m, [a \in IdsOf(m) |-> Resized(attributes[m][a], size)],
                   size)
<1> DEFINE held == [a \in IdsOf(m) |-> Resized(attributes[m][a], size)]
<1>1. /\ attributes' = [attributes EXCEPT ![m] = held]
      /\ nb_elements' = [nb_elements EXCEPT ![m] = size]
    BY DEF Resize, ForEachAttribute, IdsOf
<1>2. \A a \in IdsOf(m) :
            attributes[m][a].storage = "sparse" =>
                DOMAIN attributes[m][a].values \subseteq IndexRange(size)
    BY DEF Resize, SparseFits
<1>3. \A a \in IdsOf(m) : ValidIn(Resized(attributes[m][a], size), size)
    BY <1>2, ManagersAreValid, ResizedAttribute
<1>4. QED
    BY <1>1, <1>3, ManagersAreValid DEF Becomes

LEMMA DeleteElementsBecomes ==
    ASSUME IInv, NEW m \in Managers, NEW deleted \in SUBSET Elements(m),
           DeleteElementsOf(m, deleted)
    PROVE  Becomes(m, [a \in IdsOf(m) |->
                        Compacted(attributes[m][a], nb_elements[m], deleted)],
                   Cardinality(Elements(m) \ deleted))
<1> DEFINE n == nb_elements[m]
           held == [a \in IdsOf(m) |-> Compacted(attributes[m][a], n, deleted)]
           count == Cardinality(Elements(m) \ deleted)
<1>1. /\ n \in Nat
      /\ IdsOf(m) \subseteq Ids
      /\ \A a \in IdsOf(m) : ValidIn(attributes[m][a], n)
    BY ManagersAreValid
<1>2. n - Cardinality(deleted) = count /\ count \in Nat
    <2>1. IsFiniteSet(IndexRange(n)) /\ Cardinality(IndexRange(n)) = n
        BY <1>1, SizeOfVector
    <2>2. /\ IsFiniteSet(Elements(m) \ deleted)
          /\ count = Cardinality(Elements(m))
                     - Cardinality(Elements(m) \cap deleted)
        BY <2>1, FS_Difference DEF Elements
    <2>3. Elements(m) \cap deleted = deleted
        OBVIOUS
    <2>4. IsFiniteSet(deleted) /\ Cardinality(deleted) \in Nat
        BY <2>1, FS_Subset, FS_CardinalityType DEF Elements
    <2>5. count \in Nat
        BY <2>2, FS_CardinalityType
    <2> HIDE DEF count, n
    <2>6. count = n - Cardinality(deleted)
        BY <2>1, <2>2, <2>3 DEF Elements, n
    <2>7. QED
        BY <2>5, <2>6
<1>3. /\ attributes' = [attributes EXCEPT ![m] = held]
      /\ nb_elements' = [nb_elements EXCEPT ![m] = n - Cardinality(deleted)]
    BY DEF DeleteElementsOf, ForEachAttribute, IdsOf
<1>4. \A a \in IdsOf(m) :
            ValidIn(Compacted(attributes[m][a], n, deleted), count)
    BY <1>1, CompactedAttribute DEF Elements
<1> HIDE DEF n, count
<1>5. Becomes(m, held, count)
    BY <1>1, <1>2, <1>3, <1>4 DEF Becomes
<1>6. QED
    BY <1>5 DEF n, count

LEMMA ElementsArePermuted ==
    ASSUME IInv, NEW m \in Managers,
           NEW permutation \in PermutationsOf(Elements(m))
    PROVE  permutation \in Bijection(Elements(m), Elements(m))
<1>1. IsFiniteSet(Elements(m))
    BY ManagersAreValid, SizeOfVector DEF Elements
<1>2. QED
    BY <1>1, PermutationIsBijection DEF PermutationsOf

LEMMA PermuteElementsBecomes ==
    ASSUME IInv, NEW m \in Managers,
           NEW permutation \in PermutationsOf(Elements(m)),
           PermuteElementsOf(m, permutation)
    PROVE  Becomes(m, [a \in IdsOf(m) |->
                        Permuted(attributes[m][a], permutation)],
                   nb_elements[m])
<1> DEFINE held == [a \in IdsOf(m) |-> Permuted(attributes[m][a], permutation)]
<1>1. permutation \in Bijection(IndexRange(nb_elements[m]),
                                IndexRange(nb_elements[m]))
    BY ElementsArePermuted DEF Elements
<1>2. \A a \in IdsOf(m) :
            ValidIn(Permuted(attributes[m][a], permutation), nb_elements[m])
    BY <1>1, ManagersAreValid, PermutedAttribute
<1>3. attributes' = [attributes EXCEPT ![m] = held]
    BY DEF PermuteElementsOf, ForEachAttribute, IdsOf
<1>4. nb_elements' = [nb_elements EXCEPT ![m] = nb_elements[m]]
    BY DEF PermuteElementsOf, IInv, TypeOK
<1>5. QED
    BY <1>2, <1>3, <1>4, ManagersAreValid DEF Becomes

\* Some attributes of m have the value of one element moved to another.
LEMMA MoveValuesBecomes ==
    ASSUME IInv, NEW m \in Managers, NEW S,
           NEW from \in Elements(m), NEW to \in Elements(m),
           NEW held,
           held = [a \in IdsOf(m) |->
                    IF a \in S THEN ValueMoved(attributes[m][a], from, to)
                    ELSE attributes[m][a]],
           attributes' = [attributes EXCEPT ![m] = held],
           UNCHANGED nb_elements
    PROVE  Becomes(m, held, nb_elements[m])
<1>1. \A a \in IdsOf(m) :
            ValidIn(ValueMoved(attributes[m][a], from, to), nb_elements[m])
    BY ManagersAreValid, MovedAttribute DEF Elements
<1>2. nb_elements' = [nb_elements EXCEPT ![m] = nb_elements[m]]
    BY DEF IInv, TypeOK
<1>3. \A a \in IdsOf(m) : ValidIn(held[a], nb_elements[m])
    BY <1>1, ManagersAreValid
<1>4. QED
    BY <1>2, <1>3, ManagersAreValid DEF Becomes

AssignableOf(m) ==
    {a \in IdsOf(m) : attributes[m][a].properties.assignable}

LEMMA AssignAttributeValueBecomes ==
    ASSUME IInv, NEW m \in Managers,
           NEW from \in Elements(m), NEW to \in Elements(m),
           AssignAttributeValue(m, from, to)
    PROVE  Becomes(m, [a \in IdsOf(m) |->
                        IF a \in AssignableOf(m)
                        THEN ValueMoved(attributes[m][a], from, to)
                        ELSE attributes[m][a]],
                   nb_elements[m])
<1> DEFINE held == [a \in IdsOf(m) |->
                        IF a \in AssignableOf(m)
                        THEN ValueMoved(attributes[m][a], from, to)
                        ELSE attributes[m][a]]
<1>1. attributes' = [attributes EXCEPT ![m] =
                        [a \in IdsOf(m) |->
                            IF attributes[m][a].properties.assignable
                            THEN ValueMoved(attributes[m][a], from, to)
                            ELSE attributes[m][a]]]
      /\ UNCHANGED nb_elements
    BY DEF AssignAttributeValue, ForEachAttribute, IdsOf
<1>2. held = [a \in IdsOf(m) |->
                IF attributes[m][a].properties.assignable
                THEN ValueMoved(attributes[m][a], from, to)
                ELSE attributes[m][a]]
    BY DEF AssignableOf
<1>3. held = [a \in IdsOf(m) |->
                IF a \in AssignableOf(m)
                THEN ValueMoved(attributes[m][a], from, to)
                ELSE attributes[m][a]]
    OBVIOUS
<1> HIDE DEF held
<1>4. attributes' = [attributes EXCEPT ![m] = held] /\ UNCHANGED nb_elements
    BY <1>1, <1>2
<1>5. Becomes(m, held, nb_elements[m])
    BY <1>3, <1>4, MoveValuesBecomes
<1>6. QED
    BY <1>5 DEF held

LEMMA CopyAttributeValueBecomes ==
    ASSUME IInv, NEW m \in Managers,
           NEW from \in Elements(m), NEW to \in Elements(m),
           CopyAttributeValue(m, from, to)
    PROVE  Becomes(m, [a \in IdsOf(m) |->
                        IF a \in IdsOf(m)
                        THEN ValueMoved(attributes[m][a], from, to)
                        ELSE attributes[m][a]],
                   nb_elements[m])
<1> DEFINE held == [a \in IdsOf(m) |->
                        IF a \in IdsOf(m)
                        THEN ValueMoved(attributes[m][a], from, to)
                        ELSE attributes[m][a]]
<1>1. attributes' = [attributes EXCEPT ![m] =
                        [a \in IdsOf(m) |->
                            ValueMoved(attributes[m][a], from, to)]]
      /\ UNCHANGED nb_elements
    BY DEF CopyAttributeValue, ForEachAttribute, IdsOf
<1>2. held = [a \in IdsOf(m) |-> ValueMoved(attributes[m][a], from, to)]
    OBVIOUS
<1>3. held = [a \in IdsOf(m) |->
                IF a \in IdsOf(m)
                THEN ValueMoved(attributes[m][a], from, to)
                ELSE attributes[m][a]]
    OBVIOUS
<1> HIDE DEF held
<1>4. attributes' = [attributes EXCEPT ![m] = held] /\ UNCHANGED nb_elements
    BY <1>1, <1>2
<1>5. Becomes(m, held, nb_elements[m])
    BY <1>3, <1>4, MoveValuesBecomes
<1>6. QED
    BY <1>5 DEF held

InterpolatedOf(m) ==
    {a \in IdsOf(m) : /\ attributes[m][a].properties.interpolable
                      /\ attributes[m][a].storage # "constant"}

LEMMA InterpolateAttributeValueBecomes ==
    ASSUME IInv, NEW m \in Managers, NEW to \in Elements(m),
           InterpolateAttributeValue(m, to)
    PROVE  \E interpolated \in [IdsOf(m) -> Values] :
                Becomes(m, [a \in IdsOf(m) |->
                                IF a \in InterpolatedOf(m)
                                THEN SetValueAt(attributes[m][a], to,
                                                interpolated[a])
                                ELSE attributes[m][a]],
                        nb_elements[m])
<1>1. PICK interpolated \in [IdsOf(m) -> Values] :
            attributes' = [attributes EXCEPT ![m] =
                [a \in IdsOf(m) |->
                    IF /\ attributes[m][a].properties.interpolable
                       /\ attributes[m][a].storage # "constant"
                    THEN SetValueAt(attributes[m][a], to, interpolated[a])
                    ELSE attributes[m][a]]]
    BY DEF InterpolateAttributeValue, IdsOf
<1> DEFINE held == [a \in IdsOf(m) |->
                        IF a \in InterpolatedOf(m)
                        THEN SetValueAt(attributes[m][a], to, interpolated[a])
                        ELSE attributes[m][a]]
<1>2. held = [a \in IdsOf(m) |->
                IF /\ attributes[m][a].properties.interpolable
                   /\ attributes[m][a].storage # "constant"
                THEN SetValueAt(attributes[m][a], to, interpolated[a])
                ELSE attributes[m][a]]
    BY DEF InterpolatedOf
<1>3. \A a \in IdsOf(m) :
            ValidIn(SetValueAt(attributes[m][a], to, interpolated[a]),
                    nb_elements[m])
    BY ManagersAreValid, SetValueAtOneIndex DEF Elements
<1>4. nb_elements' = [nb_elements EXCEPT ![m] = nb_elements[m]]
    BY DEF InterpolateAttributeValue, IInv, TypeOK
<1>5. /\ held = [a \in DOMAIN held |-> held[a]]
      /\ DOMAIN held = IdsOf(m)
      /\ \A a \in IdsOf(m) : ValidIn(held[a], nb_elements[m])
    BY <1>3, ManagersAreValid
<1> HIDE DEF held
<1>6. Becomes(m, held, nb_elements[m])
    BY <1>1, <1>2, <1>4, <1>5, ManagersAreValid DEF Becomes
<1>7. QED
    BY <1>6 DEF held

\* copy(): every attribute of m is one of n, so that m holds what is
\* transferable in n and nothing else.
LEMMA CopyBecomes ==
    ASSUME IInv, NEW m \in Managers, NEW n \in Managers \ {m}, Copy(m, n)
    PROVE  \E held :
             /\ Becomes(m, held, nb_elements[n])
             /\ DOMAIN held = Transferable(n)
             /\ \A a \in Transferable(n) :
                  /\ held[a].storage = attributes[n][a].storage
                  /\ held[a].storage # "constant" =>
                        \A k \in IndexRange(nb_elements[n]) :
                            Value(held[a], k) = Value(attributes[n][a], k)
<1> DEFINE size == nb_elements[n]
           added == Transferable(n) \ IdsOf(m)
           copied == {a \in Transferable(n) \cap IdsOf(m) :
                        attributes[m][a].storage = attributes[n][a].storage}
           held == [a \in IdsOf(m) \cup added |->
                        CASE a \in added -> attributes[n][a]
                          [] a \in copied ->
                                Copied(attributes[m][a], attributes[n][a], size)
                          [] OTHER -> attributes[m][a]]
<1>1. /\ attributes' = [attributes EXCEPT ![m] = held]
      /\ nb_elements' = [nb_elements EXCEPT ![m] = size]
    BY DEF Copy, IdsOf
<1>2. /\ IdsOf(m) \cup added = Transferable(n)
      /\ \A a \in IdsOf(m) : a \in copied
    BY DEF Copy, CopyReplaces
<1>3. Transferable(n) \subseteq IdsOf(n)
    BY DEF Transferable
<1>4. /\ size \in Nat
      /\ IdsOf(n) \subseteq Ids
      /\ \A a \in IdsOf(n) : ValidIn(attributes[n][a], size)
      /\ \A a \in IdsOf(m) : ValidIn(attributes[m][a], nb_elements[m])
    BY ManagersAreValid
<1>5. /\ DOMAIN held = Transferable(n)
      /\ held = [a \in Transferable(n) |-> held[a]]
    BY <1>2
<1>6. ASSUME NEW a \in Transferable(n)
      PROVE  /\ ValidIn(held[a], size)
             /\ held[a].storage = attributes[n][a].storage
             /\ held[a].storage # "constant" =>
                    \A k \in IndexRange(size) :
                        Value(held[a], k) = Value(attributes[n][a], k)
    <2>1. CASE a \notin IdsOf(m)
        <3>1. held[a] = attributes[n][a]
            BY <1>2, <2>1
        <3> HIDE DEF held
        <3>2. QED
            BY <1>3, <1>4, <3>1
    <2>2. CASE a \in IdsOf(m)
        <3>1. held[a] = Copied(attributes[m][a], attributes[n][a], size)
            BY <1>2, <2>2
        <3>2. /\ attributes[m][a].storage = attributes[n][a].storage
              /\ attributes[m][a].storage = "variable" =>
                    size # 0 \/ nb_elements[m] = 0
              /\ attributes[m][a].storage = "sparse" =>
                    \A i \in DOMAIN attributes[m][a].values :
                        Value(attributes[n][a], i) # Default
            BY <2>2 DEF Copy, CopyReplaces
        <3> HIDE DEF held
        <3>3. /\ ValidIn(attributes[m][a], nb_elements[m])
              /\ ValidIn(attributes[n][a], size)
            BY <1>3, <1>4, <2>2
        <3> HIDE DEF size
        <3>4. /\ ValidIn(Copied(attributes[m][a], attributes[n][a], size),
                         size)
              /\ Copied(attributes[m][a], attributes[n][a], size).storage
                    = attributes[n][a].storage
              /\ attributes[n][a].storage # "constant" =>
                    \A k \in IndexRange(size) :
                        Value(Copied(attributes[m][a], attributes[n][a], size),
                              k)
                            = Value(attributes[n][a], k)
            BY <1>4, <3>2, <3>3, CopiedAttribute
        <3>5. QED
            BY <3>1, <3>4
    <2>3. QED
        BY <2>1, <2>2
<1> HIDE DEF held, size
<1>7. Becomes(m, held, size)
    BY <1>1, <1>3, <1>4, <1>5, <1>6 DEF Becomes
<1>8. QED
    BY <1>5, <1>6, <1>7 DEF size

\* import(): the attributes of m keep their kind; the others in which have the
\* kind they have in n.
ImportedInto(to, from, size, which, origin) ==
    [a \in DOMAIN to \cup which |->
        IF a \notin which THEN to[a]
        ELSE IF a \in DOMAIN to THEN Imported(to[a], from[a], origin)
        ELSE Extracted(from[a], size, origin)]

LEMMA ImportBecomes ==
    ASSUME IInv, NEW m \in Managers, NEW n \in Managers \ {m},
           NEW which \in SUBSET IdsOf(n), NEW origin \in Origins(m, n),
           Import(m, n, which, origin)
    PROVE  /\ Becomes(m, ImportedInto(attributes[m], attributes[n],
                                      nb_elements[m], which, origin),
                      nb_elements[m])
           /\ DOMAIN origin \subseteq Elements(m)
           /\ \A i \in DOMAIN origin : origin[i] \in Elements(n)
           /\ \A a \in which \cap IdsOf(m) :
                attributes[m][a].storage = "constant" =>
                    Value(attributes[n][a], 0) \in Values
<1> DEFINE size == nb_elements[m]
           held == ImportedInto(attributes[m], attributes[n], size, which,
                                origin)
<1>1. /\ DOMAIN origin \subseteq IndexRange(nb_elements[m])
      /\ \A i \in DOMAIN origin : origin[i] \in IndexRange(nb_elements[n])
    BY DEF Origins
<1>2. attributes' = [attributes EXCEPT ![m] = held]
    BY DEF Import, ImportedInto, IdsOf
<1>3. nb_elements' = [nb_elements EXCEPT ![m] = size]
    BY DEF Import, IInv, TypeOK
<1>4. /\ size \in Nat
      /\ nb_elements[n] \in Nat
      /\ IdsOf(m) \subseteq Ids
      /\ IdsOf(n) \subseteq Ids
      /\ \A a \in IdsOf(n) : ValidIn(attributes[n][a], nb_elements[n])
      /\ \A a \in IdsOf(m) : ValidIn(attributes[m][a], size)
    BY ManagersAreValid
<1>5. ASSUME NEW a \in which \cap IdsOf(m),
             attributes[m][a].storage = "constant"
      PROVE  Value(attributes[n][a], 0) \in Values
    <2> DEFINE from == attributes[n][a]
    <2>1. ValidIn(from, nb_elements[n])
        BY <1>4
    <2>2. from.storage = "variable" => nb_elements[n] # 0
        BY <1>5 DEF Import
    <2> HIDE DEF from
    <2>3. /\ from.storage \in {"variable", "sparse", "constant"}
          /\ from.values \in [DOMAIN from.values -> Values]
        BY <2>1 DEF ValidIn, IsAttribute, Storages
    <2>4. CASE from.storage = "variable"
        <3>1. 0 \in IndexRange(nb_elements[n])
            BY <1>4, <2>2, <2>4 DEF IndexRange
        <3>2. QED
            BY <2>1, <3>1, ValueOfAttribute DEF from
    <2>5. CASE from.storage = "sparse"
        BY <2>3, <2>5, DefaultAssumption DEF Value, from
    <2>6. CASE from.storage = "constant"
        BY <2>1, <2>3, <2>6 DEF Value, ValidIn, InSize, from
    <2>7. QED
        BY <2>3, <2>4, <2>5, <2>6
<1>6. /\ DOMAIN held = IdsOf(m) \cup which
      /\ held = [a \in DOMAIN held |-> held[a]]
    BY DEF ImportedInto, IdsOf
<1>7. ASSUME NEW a \in IdsOf(m) \cup which
      PROVE  ValidIn(held[a], size)
    <2>1. CASE a \notin which
        BY <1>4, <2>1 DEF ImportedInto, IdsOf
    <2>2. CASE a \in which /\ a \in IdsOf(m)
        <3>1. held[a] = Imported(attributes[m][a], attributes[n][a], origin)
            BY <2>2 DEF ImportedInto, IdsOf
        <3>2. ValidIn(attributes[m][a], size)
              /\ ValidIn(attributes[n][a], nb_elements[n])
            BY <1>4, <2>2
        <3>3. attributes[m][a].storage = "constant" =>
                    Value(attributes[n][a], 0) \in Values
            BY <1>5, <2>2
        <3> HIDE DEF held
        <3>4. ValidIn(Imported(attributes[m][a], attributes[n][a], origin),
                      size)
            BY <1>1, <3>2, <3>3, ImportedAttribute
        <3>5. QED
            BY <3>1, <3>4
    <2>3. CASE a \in which /\ a \notin IdsOf(m)
        <3>1. held[a] = Extracted(attributes[n][a], size, origin)
            BY <2>3 DEF ImportedInto, IdsOf
        <3>2. ValidIn(attributes[n][a], nb_elements[n])
            BY <1>4, <2>3
        <3> HIDE DEF held
        <3>3. ValidIn(Extracted(attributes[n][a], size, origin), size)
            BY <1>1, <3>2, ExtractedAttribute
        <3>4. QED
            BY <3>1, <3>3
    <2>4. QED
        BY <2>1, <2>2, <2>3
<1> HIDE DEF held
<1>8. DOMAIN held \subseteq Ids
    BY <1>4, <1>6
<1>9. Becomes(m, held, size)
    BY <1>2, <1>3, <1>4, <1>6, <1>7, <1>8 DEF Becomes
<1>10. QED
    BY <1>1, <1>5, <1>9 DEF held, Elements

-----------------------------------------------------------------------------
LEMMA InitIsValid == Init => IInv
<1>1. ASSUME Init, NEW m \in Managers
      PROVE  /\ nb_elements[m] = 0
             /\ attributes[m] = [a \in {} |-> {}]
    BY <1>1 DEF Init
<1>2. ASSUME Init PROVE TypeOK
    <2>1. \A m \in Managers : IdsOf(m) = {}
        BY <1>1, <1>2 DEF IdsOf
    <2>2. /\ nb_elements \in [Managers -> Nat]
          /\ attributes = [m \in Managers |-> attributes[m]]
        BY <1>2 DEF Init
    <2>3. \A m \in Managers :
                attributes[m] = [a \in IdsOf(m) |-> attributes[m][a]]
        BY <1>1, <1>2, <2>1
    <2>4. QED
        BY <2>1, <2>2, <2>3 DEF TypeOK
<1>3. ASSUME Init PROVE StoredInSize
    <2>1. \A m \in Managers : IdsOf(m) = {}
        BY <1>1, <1>3 DEF IdsOf
    <2>2. QED
        BY <2>1 DEF StoredInSize
<1>4. QED
    BY <1>2, <1>3 DEF IInv

LEMMA NextKeepsValid == IInv /\ [Next]_vars => IInv'
<1> SUFFICES ASSUME IInv, [Next]_vars PROVE IInv'
    OBVIOUS
<1>1. ASSUME NEW m \in Managers, NEW a \in Ids, NEW storage \in Storages,
             NEW properties \in PropertySets,
             CreateAttribute(m, a, storage, properties)
      PROVE  IInv'
    BY <1>1, CreateAttributeBecomes, BecomesValid
<1>2. ASSUME NEW m \in Managers, NEW a \in IdsOf(m),
             \/ DeleteAttribute(m, a)
             \/ \E properties \in PropertySets :
                    SetAttributeProperties(m, a, properties)
             \/ \E i \in Elements(m), v \in Values : SetValue(m, a, i, v)
      PROVE  IInv'
    BY <1>2, DeleteAttributeBecomes, SetAttributePropertiesBecomes,
       SetValueBecomes, BecomesValid
<1>3. ASSUME NEW m \in Managers, Clear(m)
      PROVE  IInv'
    BY <1>3, ClearBecomes, BecomesValid
<1>4. ASSUME NEW m \in Managers, NEW size \in 0 .. MaxElements,
             Resize(m, size)
      PROVE  IInv'
    <2>1. size \in Nat
        OBVIOUS
    <2>2. QED
        BY <1>4, <2>1, ResizeBecomes, BecomesValid
<1>5. ASSUME NEW m \in Managers, NEW deleted \in SUBSET Elements(m),
             DeleteElementsOf(m, deleted)
      PROVE  IInv'
    BY <1>5, DeleteElementsBecomes, BecomesValid
<1>6. ASSUME NEW m \in Managers,
             NEW permutation \in PermutationsOf(Elements(m)),
             PermuteElementsOf(m, permutation)
      PROVE  IInv'
    BY <1>6, PermuteElementsBecomes, BecomesValid
<1>7. ASSUME NEW m \in Managers,
             NEW from \in Elements(m), NEW to \in Elements(m),
             \/ AssignAttributeValue(m, from, to)
             \/ CopyAttributeValue(m, from, to)
      PROVE  IInv'
    BY <1>7, AssignAttributeValueBecomes, CopyAttributeValueBecomes,
       BecomesValid
<1>8. ASSUME NEW m \in Managers, NEW to \in Elements(m),
             InterpolateAttributeValue(m, to)
      PROVE  IInv'
    BY <1>8, InterpolateAttributeValueBecomes, BecomesValid
<1>9. ASSUME NEW m \in Managers, NEW n \in Managers \ {m}, Copy(m, n)
      PROVE  IInv'
    BY <1>9, CopyBecomes, BecomesValid
<1>10. ASSUME NEW m \in Managers, NEW n \in Managers \ {m},
              NEW origin \in Origins(m, n),
              \/ ImportAll(m, n, origin)
              \/ \E a \in Ids : ImportOne(m, n, a, origin)
       PROVE  IInv'
    <2>1. PICK which \in SUBSET IdsOf(n) : Import(m, n, which, origin)
        BY <1>10 DEF ImportAll, ImportOne, Transferable
    <2>2. QED
        BY <2>1, ImportBecomes, BecomesValid
<1>11. CASE UNCHANGED vars
    BY <1>11 DEF vars, IInv, TypeOK, StoredInSize, IdsOf
<1>12. QED
    BY <1>1, <1>2, <1>3, <1>4, <1>5, <1>6, <1>7, <1>8, <1>9, <1>10, <1>11
    DEF Next

\* Whatever managers are resized, compacted, permuted, copied and imported
\* from, each attribute keeps to the indices of the elements its manager has:
\* value() and the next change of the elements never read outside.
THEOREM AttributesStayInSize == Spec => []StoredInSize
<1>1. Init => IInv
    BY InitIsValid
<1>2. IInv /\ [Next]_vars => IInv'
    BY NextKeepsValid
<1>3. IInv => StoredInSize
    BY DEF IInv
<1>4. QED
    BY <1>1, <1>2, <1>3, PTL DEF Spec

-----------------------------------------------------------------------------
\* The table's operators on vectors are those of Renumbering.
LEMMA TableOperators ==
    /\ \A n : Table!IndexRange(n) = IndexRange(n)
    /\ \A f : Table!Size(f) = Size(f)
    /\ \A f, D : Table!DeleteElements(f, D) = DeleteElements(f, D)
    /\ \A f, p : Table!PermuteElements(f, p) = PermuteElements(f, p)
    /\ \A S : Table!PermutationsOf(S) = PermutationsOf(S)
<1>1. \A n : Table!IndexRange(n) = IndexRange(n)
    BY DEF IndexRange, Table!IndexRange
<1>2. \A S : Table!Cardinality(S) = Cardinality(S)
    BY DEF Cardinality, Table!Cardinality
<1>3. \A f : Table!Size(f) = Size(f)
    BY <1>2 DEF Size, Table!Size
<1>4. \A f, D : Table!DeleteElements(f, D) = DeleteElements(f, D)
    BY DEF DeleteElements, Table!DeleteElements, KeptBelow, Table!KeptBelow,
           IndexRange, Table!IndexRange, Cardinality, Table!Cardinality
<1>5. \A f, p : Table!PermuteElements(f, p) = PermuteElements(f, p)
    BY DEF PermuteElements, Table!PermuteElements
<1>6. \A S : Table!PermutationsOf(S) = PermutationsOf(S)
    BY DEF PermutationsOf, Table!PermutationsOf
<1>7. QED
    BY <1>1, <1>3, <1>4, <1>5, <1>6

LEMMA UniformIsValue ==
    ASSUME NEW held, NEW size, \A a \in DOMAIN held : ValidIn(held[a], size)
    PROVE  UniformIn(held) \in [Ids -> Values \cup {NoId}]
<1>1. ASSUME NEW a \in DOMAIN held \ ColumnsIn(held)
      PROVE  held[a].values[0] \in Values
    BY DEF ColumnsIn, ValidIn, IsAttribute, InSize
<1>2. QED
    BY <1>1 DEF UniformIn

\* The table of m becomes that of the attributes held, and no other does.
LEMMA TableReplaced ==
    ASSUME IInv, NEW m \in Managers, NEW held, NEW size,
           Becomes(m, held, size)
    PROVE  /\ Table!OnlyOf(m)
           /\ Table!Replace(m, ColumnsIn(held), RowsIn(held, size))
           /\ [n \in Managers |-> RowsIn(attributes[n], nb_elements[n])]'[m]
                = RowsIn(held, size)
<1>1. /\ attributes'[m] = held /\ nb_elements'[m] = size
      /\ \A n \in Managers \ {m} : /\ attributes'[n] = attributes[n]
                                   /\ nb_elements'[n] = nb_elements[n]
    BY OthersStay
<1>2. UniformIn(held) \in [Ids -> Values \cup {NoId}]
    BY UniformIsValue DEF Becomes
<1>3. \A n \in Managers : UniformIn(attributes[n])
                            \in [Ids -> Values \cup {NoId}]
    BY ManagersAreValid, UniformIsValue DEF IdsOf
<1>4. [n \in Managers |-> UniformIn(attributes[n])]'
        \in [Managers -> [Ids -> Values \cup {NoId}]]
    <2>1. \A n \in Managers : UniformIn(attributes'[n])
                                \in [Ids -> Values \cup {NoId}]
        BY <1>1, <1>2, <1>3
    <2>2. QED
        BY <2>1
<1>5. Table!OnlyOf(m)
    BY <1>1, <1>4 DEF Table!OnlyOf
<1>6. /\ [n \in Managers |-> ColumnsIn(attributes[n])]'
            = [[n \in Managers |-> ColumnsIn(attributes[n])]
                EXCEPT ![m] = ColumnsIn(held)]
      /\ [n \in Managers |-> RowsIn(attributes[n], nb_elements[n])]'
            = [[n \in Managers |-> RowsIn(attributes[n], nb_elements[n])]
                EXCEPT ![m] = RowsIn(held, size)]
    BY <1>1
<1>7. Table!Replace(m, ColumnsIn(held), RowsIn(held, size))
    BY <1>6 DEF Table!Replace
<1>8. QED
    BY <1>1, <1>5, <1>7

\* The table of m, row by row.
LEMMA TableOfManager ==
    ASSUME NEW m \in Managers
    PROVE  /\ [n \in Managers |-> ColumnsIn(attributes[n])][m]
                = ColumnsIn(attributes[m])
           /\ [n \in Managers |-> RowsIn(attributes[n], nb_elements[n])][m]
                = RowsIn(attributes[m], nb_elements[m])
           /\ DOMAIN RowsIn(attributes[m], nb_elements[m]) = Elements(m)
           /\ \A i \in Elements(m) :
                RowsIn(attributes[m], nb_elements[m])[i] =
                    [a \in ColumnsIn(attributes[m]) |->
                        Value(attributes[m][a], i)]
    BY DEF RowsIn, Elements

\* The rows are known from their cells.
LEMMA RowsRead ==
    ASSUME NEW held, NEW size, NEW cols, cols = ColumnsIn(held),
           NEW rows, rows = [i \in IndexRange(size) |-> rows[i]],
           \A i \in IndexRange(size) :
                /\ rows[i] = [c \in cols |-> rows[i][c]]
                /\ \A c \in cols : rows[i][c] = Value(held[c], i)
    PROVE  RowsIn(held, size) = rows
<1> DEFINE read == RowsIn(held, size)
<1>1. /\ read = [i \in IndexRange(size) |-> read[i]]
      /\ \A i \in IndexRange(size) :
            /\ read[i] = [c \in ColumnsIn(held) |-> read[i][c]]
            /\ \A c \in ColumnsIn(held) : read[i][c] = Value(held[c], i)
    BY DEF RowsIn
<1> HIDE DEF read
<1>2. \A i \in IndexRange(size) : read[i] = rows[i]
    BY <1>1
<1>3. read = rows
    BY <1>1, <1>2
<1>4. QED
    BY <1>3 DEF read

\* What m becomes has the columns and the rows that it had.
LEMMA SameTable ==
    ASSUME IInv, NEW m \in Managers, NEW held,
           Becomes(m, held, nb_elements[m]),
           ColumnsIn(held) = ColumnsIn(attributes[m]),
           \A a \in ColumnsIn(held), i \in Elements(m) :
                Value(held[a], i) = Value(attributes[m][a], i)
    PROVE  Table!ChangeTable(m)
<1> DEFINE columns == [n \in Managers |-> ColumnsIn(attributes[n])]
           rows == [n \in Managers |-> RowsIn(attributes[n], nb_elements[n])]
           kept == ColumnsIn(held)
<1>1. RowsIn(held, nb_elements[m])
        = [i \in DOMAIN rows[m] |-> [c \in kept |-> rows[m][i][c]]]
    BY TableOfManager DEF RowsIn, Elements
<1>2. Table!Replace(m, kept, RowsIn(held, nb_elements[m]))
    BY TableReplaced
<1>3. kept = columns[m]
    OBVIOUS
<1> HIDE DEF kept
<1>4. Table!KeepColumns(m, kept)
    BY <1>1, <1>2, <1>3 DEF Table!KeepColumns
<1>5. QED
    BY <1>3, <1>4 DEF Table!ChangeTable

\* What m becomes differs from what it was in the row of element i.
LEMMA OneRowChanges ==
    ASSUME IInv, NEW m \in Managers, NEW held,
           Becomes(m, held, nb_elements[m]),
           ColumnsIn(held) = ColumnsIn(attributes[m]),
           NEW i \in Elements(m),
           \A a \in ColumnsIn(held), k \in Elements(m) :
                k # i => Value(held[a], k) = Value(attributes[m][a], k)
    PROVE  Table!ChangeTable(m)
<1> DEFINE columns == [n \in Managers |-> ColumnsIn(attributes[n])]
           rows == [n \in Managers |-> RowsIn(attributes[n], nb_elements[n])]
           row == [a \in ColumnsIn(held) |-> Value(held[a], i)]
<1>1. row \in [columns[m] -> Values]
    BY ValueOfAttribute DEF Becomes, ColumnsIn, Elements
<1>2. RowsIn(held, nb_elements[m]) = [rows[m] EXCEPT ![i] = row]
    <2>1. /\ DOMAIN RowsIn(held, nb_elements[m]) = Elements(m)
          /\ \A k \in Elements(m) :
                RowsIn(held, nb_elements[m])[k]
                    = [a \in ColumnsIn(held) |-> Value(held[a], k)]
          /\ RowsIn(held, nb_elements[m])
                = [k \in Elements(m) |-> RowsIn(held, nb_elements[m])[k]]
        BY DEF RowsIn, Elements
    <2>2. rows[m] = [k \in Elements(m) |->
                        [a \in ColumnsIn(held) |-> Value(attributes[m][a], k)]]
        BY DEF RowsIn, Elements
    <2>3. \A k \in Elements(m) :
            RowsIn(held, nb_elements[m])[k] = IF k = i THEN row ELSE rows[m][k]
        BY <2>1, <2>2
    <2> HIDE DEF row
    <2>4. QED
        BY <2>1, <2>2, <2>3
<1>3. Table!Replace(m, ColumnsIn(held), RowsIn(held, nb_elements[m]))
    BY TableReplaced
<1>4. ColumnsIn(held) = columns[m] /\ i \in DOMAIN rows[m]
    BY TableOfManager
<1> HIDE DEF row
<1>5. Table!ChangeRow(m, i)
    BY <1>1, <1>2, <1>3, <1>4 DEF Table!ChangeRow
<1>6. QED
    BY <1>4, <1>5 DEF Table!ChangeTable

\* create_attribute() adds a column of defaults, unless the id is taken or the
\* attribute constant.
LEMMA CreateAttributeImplements ==
    ASSUME IInv, NEW m \in Managers, NEW a \in Ids,
           NEW storage \in Storages, NEW properties,
           CreateAttribute(m, a, storage, properties)
    PROVE  Table!ChangeTable(m)
<1> DEFINE columns == [n \in Managers |-> ColumnsIn(attributes[n])]
           rows == [n \in Managers |-> RowsIn(attributes[n], nb_elements[n])]
           values == IF storage = "constant" THEN [i \in {0} |-> Default]
                     ELSE [i \in {} |-> Default]
           created == Resized(Attribute(storage, properties, values),
                              nb_elements[m])
           held == IF a \in IdsOf(m) THEN attributes[m]
                   ELSE [b \in IdsOf(m) \cup {a} |->
                            IF b = a THEN created ELSE attributes[m][b]]
<1>1. /\ Becomes(m, held, nb_elements[m])
      /\ created.storage = storage
      /\ storage # "constant" =>
            \A k \in IndexRange(nb_elements[m]) : Value(created, k) = Default
    BY CreateAttributeBecomes
<1> HIDE DEF created, values
<1>2. CASE a \in IdsOf(m)
    <2>1. held = attributes[m]
        BY <1>2
    <2> HIDE DEF held
    <2>2. QED
        BY <1>1, <2>1, SameTable
<1>3. CASE a \notin IdsOf(m)
    <2>1. /\ DOMAIN held = IdsOf(m) \cup {a}
          /\ held[a] = created
          /\ \A b \in IdsOf(m) : held[b] = attributes[m][b]
        BY <1>3
    <2>2. a \notin ColumnsIn(attributes[m])
        BY <1>3 DEF ColumnsIn, IdsOf
    <2> HIDE DEF held
    <2>3. CASE storage = "constant"
        <3>1. ColumnsIn(held) = ColumnsIn(attributes[m])
            BY <1>1, <1>3, <2>1, <2>3 DEF ColumnsIn, IdsOf
        <3>2. \A b \in ColumnsIn(held) : held[b] = attributes[m][b]
            BY <2>1, <2>2, <3>1 DEF ColumnsIn, IdsOf
        <3>3. QED
            BY <1>1, <3>1, <3>2, SameTable
    <2>4. CASE storage # "constant"
        <3>1. ColumnsIn(held) = columns[m] \cup {a}
            BY <1>1, <2>1, <2>4 DEF ColumnsIn, IdsOf
        <3>2. \A b \in columns[m] : held[b] = attributes[m][b]
            BY <2>1 DEF ColumnsIn, IdsOf
        <3>3. RowsIn(held, nb_elements[m])
                = [i \in Elements(m) |->
                    [c \in columns[m] \cup {a} |-> Value(held[c], i)]]
            BY <3>1 DEF RowsIn, Elements
        <3>4. /\ DOMAIN rows[m] = Elements(m)
              /\ \A i \in Elements(m) : \A c \in columns[m] :
                    rows[m][i][c] = Value(attributes[m][c], i)
            BY TableOfManager
        <3>5. \A i \in Elements(m) : Value(held[a], i) = Default
            BY <1>1, <2>1, <2>4 DEF Elements
        <3> DEFINE cols == columns[m] \cup {a}
                   added == [i \in DOMAIN rows[m] |->
                                [c \in cols |->
                                    IF c = a THEN Default ELSE rows[m][i][c]]]
        <3>6. RowsIn(held, nb_elements[m]) = added
            <4>1. \A i \in Elements(m) : \A c \in cols :
                    Value(held[c], i)
                        = IF c = a THEN Default ELSE rows[m][i][c]
                BY <3>2, <3>4, <3>5
            <4>2. /\ added = [i \in Elements(m) |-> added[i]]
                  /\ \A i \in Elements(m) :
                        added[i] = [c \in cols |-> IF c = a THEN Default
                                                   ELSE rows[m][i][c]]
                BY <3>4
            <4>3. Elements(m) = IndexRange(nb_elements[m])
                BY DEF Elements
            <4>4. ColumnsIn(held) = cols
                BY <3>1
            <4> HIDE DEF rows, cols, added
            <4>5. \A i \in Elements(m) :
                    /\ added[i] = [c \in cols |-> added[i][c]]
                    /\ \A c \in cols : added[i][c] = Value(held[c], i)
                BY <4>1, <4>2
            <4>6. \A i \in IndexRange(nb_elements[m]) :
                    /\ added[i] = [c \in ColumnsIn(held) |-> added[i][c]]
                    /\ \A c \in ColumnsIn(held) :
                            added[i][c] = Value(held[c], i)
                BY <4>3, <4>4, <4>5
            <4>7. added = [i \in IndexRange(nb_elements[m]) |-> added[i]]
                BY <4>2, <4>3
            <4>8. QED
                BY <4>6, <4>7, RowsRead
        <3>7. Table!Replace(m, cols, added)
            <4>1. Table!Replace(m, ColumnsIn(held),
                                RowsIn(held, nb_elements[m]))
                BY <1>1, TableReplaced
            <4>2. ColumnsIn(held) = cols
                BY <3>1
            <4> HIDE DEF cols, added
            <4>3. QED
                BY <3>6, <4>1, <4>2 DEF Table!Replace
        <3>8. a \notin columns[m]
            BY <2>2
        <3>9. Table!AddColumn(m, a)
            BY <3>7, <3>8 DEF Table!AddColumn
        <3>10. QED
            BY <3>9 DEF Table!ChangeTable
    <2>5. QED
        BY <2>3, <2>4
<1>4. QED
    BY <1>2, <1>3

\* delete_attribute() removes the column.
LEMMA DeleteAttributeImplements ==
    ASSUME IInv, NEW m \in Managers, NEW a, DeleteAttribute(m, a)
    PROVE  Table!ChangeTable(m)
<1> DEFINE columns == [n \in Managers |-> ColumnsIn(attributes[n])]
           rows == [n \in Managers |-> RowsIn(attributes[n], nb_elements[n])]
           held == [b \in IdsOf(m) \ {a} |-> attributes[m][b]]
           kept == ColumnsIn(held)
<1>1. Becomes(m, held, nb_elements[m])
    BY DeleteAttributeBecomes
<1>2. /\ kept \subseteq columns[m]
      /\ \A c \in kept : held[c] = attributes[m][c]
    BY DEF ColumnsIn, IdsOf
<1> HIDE DEF held
<1>3. RowsIn(held, nb_elements[m])
        = [i \in Elements(m) |-> [c \in kept |-> Value(held[c], i)]]
    BY DEF RowsIn, Elements
<1>4. /\ DOMAIN rows[m] = Elements(m)
      /\ \A i \in Elements(m) : \A c \in columns[m] :
            rows[m][i][c] = Value(attributes[m][c], i)
    BY TableOfManager
<1>5. Table!Replace(m, kept, RowsIn(held, nb_elements[m]))
    BY <1>1, TableReplaced
<1>6. RowsIn(held, nb_elements[m])
        = [i \in DOMAIN rows[m] |-> [c \in kept |-> rows[m][i][c]]]
    <2>1. \A i \in Elements(m) : \A c \in kept :
            Value(held[c], i) = rows[m][i][c]
        BY <1>2, <1>4
    <2> HIDE DEF rows, kept
    <2>2. QED
        BY <1>3, <1>4, <2>1
<1> HIDE DEF kept
<1>7. Table!KeepColumns(m, kept)
    BY <1>2, <1>5, <1>6 DEF Table!KeepColumns
<1>8. QED
    BY <1>2, <1>7 DEF Table!ChangeTable

\* clear() leaves no element and no attribute.
LEMMA ClearImplements ==
    ASSUME IInv, NEW m \in Managers, Clear(m)
    PROVE  Table!ChangeTable(m)
<1> DEFINE held == [a \in {} |-> {}]
<1>1. Becomes(m, held, 0)
    BY ClearBecomes
<1>2. ColumnsIn(held) = {}
    BY DEF ColumnsIn
<1> HIDE DEF held
<1>3. IndexRange(0) = {}
    BY DEF IndexRange
<1>4. RowsIn(held, 0) = [i \in {} |-> {}]
    <2> DEFINE none == [i \in {} |-> {}]
    <2>1. none = [i \in {} |-> none[i]]
        OBVIOUS
    <2> HIDE DEF none
    <2>2. RowsIn(held, 0) = none
        BY <1>3, <2>1, RowsRead
    <2>3. QED
        BY <2>2 DEF none
<1>5. Table!Replace(m, {}, [i \in {} |-> {}])
    <2>1. Table!Replace(m, ColumnsIn(held), RowsIn(held, 0))
        BY <1>1, TableReplaced
    <2>2. QED
        BY <1>2, <1>4, <2>1 DEF Table!Replace
<1>6. QED
    BY <1>5 DEF Table!Clear, Table!ChangeTable

\* The properties are not in the table.
LEMMA SetAttributePropertiesImplements ==
    ASSUME IInv, NEW m \in Managers, NEW a \in IdsOf(m), NEW properties,
           SetAttributeProperties(m, a, properties)
    PROVE  Table!ChangeTable(m)
<1> DEFINE changed == [attributes[m][a] EXCEPT !.properties = properties]
           held == [attributes[m] EXCEPT ![a] = changed]
<1>1. /\ Becomes(m, held, nb_elements[m])
      /\ changed.storage = attributes[m][a].storage
      /\ changed.values = attributes[m][a].values
    BY SetAttributePropertiesBecomes
<1> HIDE DEF changed
<1>2. /\ DOMAIN held = IdsOf(m)
      /\ held[a] = changed
      /\ \A b \in IdsOf(m) \ {a} : held[b] = attributes[m][b]
    BY DEF IdsOf
<1> HIDE DEF held
<1>3. ColumnsIn(held) = ColumnsIn(attributes[m])
    BY <1>1, <1>2 DEF ColumnsIn, IdsOf
<1>4. \A c \in ColumnsIn(held), i \in Elements(m) :
            Value(held[c], i) = Value(attributes[m][c], i)
    BY <1>1, <1>2 DEF ColumnsIn, Value
<1>5. QED
    BY <1>1, <1>3, <1>4, SameTable

\* set_value() changes one cell, or a constant.
LEMMA SetValueImplements ==
    ASSUME IInv, NEW m \in Managers, NEW a \in IdsOf(m),
           NEW i \in Elements(m), NEW v \in Values, SetValue(m, a, i, v)
    PROVE  Table!ChangeTable(m)
<1> DEFINE changed == SetValueAt(attributes[m][a], i, v)
           held == [attributes[m] EXCEPT ![a] = changed]
<1>1. Becomes(m, held, nb_elements[m])
    BY SetValueBecomes
<1>2. /\ changed.storage = attributes[m][a].storage
      /\ attributes[m][a].storage # "constant" =>
            \A k \in IndexRange(nb_elements[m]) :
                Value(changed, k) =
                    IF k = i THEN v ELSE Value(attributes[m][a], k)
    <2>1. ValidIn(attributes[m][a], nb_elements[m])
        BY ManagersAreValid
    <2>2. i \in IndexRange(nb_elements[m])
        BY DEF Elements
    <2>3. QED
        BY <2>1, <2>2, SetValueAtOneIndex
<1> HIDE DEF changed
<1>3. /\ DOMAIN held = IdsOf(m)
      /\ held[a] = changed
      /\ \A b \in IdsOf(m) \ {a} : held[b] = attributes[m][b]
    BY DEF IdsOf
<1> HIDE DEF held
<1>4. ColumnsIn(held) = ColumnsIn(attributes[m])
    BY <1>2, <1>3 DEF ColumnsIn, IdsOf
<1>5. \A c \in ColumnsIn(held), k \in Elements(m) :
            k # i => Value(held[c], k) = Value(attributes[m][c], k)
    BY <1>2, <1>3 DEF ColumnsIn, Elements
<1>6. QED
    BY <1>1, <1>4, <1>5, OneRowChanges

\* So does each attribute of which interpolate_attribute_value() sets one.
LEMMA InterpolateAttributeValueImplements ==
    ASSUME IInv, NEW m \in Managers, NEW to \in Elements(m),
           InterpolateAttributeValue(m, to)
    PROVE  Table!ChangeTable(m)
<1>1. PICK interpolated \in [IdsOf(m) -> Values] :
            Becomes(m, [a \in IdsOf(m) |->
                            IF a \in InterpolatedOf(m)
                            THEN SetValueAt(attributes[m][a], to,
                                            interpolated[a])
                            ELSE attributes[m][a]],
                    nb_elements[m])
    BY InterpolateAttributeValueBecomes
<1> DEFINE held == [a \in IdsOf(m) |->
                        IF a \in InterpolatedOf(m)
                        THEN SetValueAt(attributes[m][a], to, interpolated[a])
                        ELSE attributes[m][a]]
<1>2. ASSUME NEW a \in IdsOf(m)
      PROVE  LET changed == SetValueAt(attributes[m][a], to, interpolated[a])
             IN  /\ changed.storage = attributes[m][a].storage
                 /\ attributes[m][a].storage # "constant" =>
                        \A k \in Elements(m) \ {to} :
                            Value(changed, k) = Value(attributes[m][a], k)
    <2> DEFINE v == interpolated[a]
               changed == SetValueAt(attributes[m][a], to, v)
    <2>1. ValidIn(attributes[m][a], nb_elements[m])
        BY ManagersAreValid
    <2>2. to \in IndexRange(nb_elements[m]) /\ v \in Values
        BY DEF Elements
    <2> HIDE DEF v
    <2>3. /\ changed.storage = attributes[m][a].storage
          /\ attributes[m][a].storage # "constant" =>
                \A k \in IndexRange(nb_elements[m]) :
                    Value(changed, k) =
                        IF k = to THEN v ELSE Value(attributes[m][a], k)
        BY <2>1, <2>2, SetValueAtOneIndex
    <2> HIDE DEF changed
    <2>4. /\ changed.storage = attributes[m][a].storage
          /\ attributes[m][a].storage # "constant" =>
                \A k \in Elements(m) \ {to} :
                    Value(changed, k) = Value(attributes[m][a], k)
        BY <2>3 DEF Elements
    <2>5. QED
        BY <2>4 DEF changed, v
<1>3. /\ DOMAIN held = IdsOf(m)
      /\ \A a \in IdsOf(m) : held[a].storage = attributes[m][a].storage
    BY <1>2
<1>4. \A a \in IdsOf(m), k \in Elements(m) :
            attributes[m][a].storage # "constant" /\ k # to =>
                Value(held[a], k) = Value(attributes[m][a], k)
    BY <1>2
<1> HIDE DEF held
<1>5. /\ ColumnsIn(held) = ColumnsIn(attributes[m])
      /\ \A a \in ColumnsIn(held) : /\ a \in IdsOf(m)
                                    /\ attributes[m][a].storage # "constant"
    BY <1>3 DEF ColumnsIn, IdsOf
<1>6. Becomes(m, held, nb_elements[m])
    BY <1>1 DEF held
<1>7. QED
    BY <1>4, <1>5, <1>6, OneRowChanges

\* resize() keeps the first rows and adds rows of defaults.
LEMMA ResizeImplements ==
    ASSUME IInv, NEW m \in Managers, NEW size \in Nat, Resize(m, size)
    PROVE  Table!ChangeTable(m)
<1> DEFINE columns == [n \in Managers |-> ColumnsIn(attributes[n])]
           rows == [n \in Managers |-> RowsIn(attributes[n], nb_elements[n])]
           cols == columns[m]
           held == [a \in IdsOf(m) |-> Resized(attributes[m][a], size)]
           read == [i \in IndexRange(size) |->
                        IF i \in DOMAIN rows[m] THEN rows[m][i]
                        ELSE [c \in columns[m] |-> Default]]
<1>1. Becomes(m, held, size)
    BY ResizeBecomes
<1>2. ASSUME NEW a \in IdsOf(m)
      PROVE  LET resized == Resized(attributes[m][a], size)
             IN  /\ resized.storage = attributes[m][a].storage
                 /\ attributes[m][a].storage # "constant" =>
                        \A k \in IndexRange(size) :
                            Value(resized, k) =
                                IF k \in Elements(m)
                                THEN Value(attributes[m][a], k) ELSE Default
    <2>1. ValidIn(attributes[m][a], nb_elements[m])
        BY ManagersAreValid
    <2>2. attributes[m][a].storage = "sparse" =>
            DOMAIN attributes[m][a].values \subseteq IndexRange(size)
        BY DEF Resize, SparseFits
    <2>3. QED
        BY <2>1, <2>2, ResizedAttribute DEF Elements
<1>3. /\ cols = ColumnsIn(held)
      /\ \A c \in cols : /\ c \in IdsOf(m)
                         /\ attributes[m][c].storage # "constant"
    BY <1>2 DEF ColumnsIn, IdsOf
<1>4. \A c \in IdsOf(m) : held[c] = Resized(attributes[m][c], size)
    OBVIOUS
<1>5. /\ DOMAIN rows[m] = Elements(m)
      /\ \A i \in Elements(m) :
            /\ rows[m][i] = [c \in cols |-> rows[m][i][c]]
            /\ \A c \in cols : rows[m][i][c] = Value(attributes[m][c], i)
    BY TableOfManager
<1>6. /\ read = [i \in IndexRange(size) |-> read[i]]
      /\ \A i \in IndexRange(size) :
            read[i] = IF i \in Elements(m) THEN rows[m][i]
                      ELSE [c \in cols |-> Default]
    BY <1>5
<1>7. /\ [n \in Managers |-> ColumnsIn(attributes[n])]'
            = [columns EXCEPT ![m] = cols]
      /\ [n \in Managers |-> RowsIn(attributes[n], nb_elements[n])]'
            = [rows EXCEPT ![m] = read]
    <2> HIDE DEF cols, held, read
    <2>1. ASSUME NEW i \in IndexRange(size)
          PROVE  /\ read[i] = [c \in cols |-> read[i][c]]
                 /\ \A c \in cols : read[i][c] = Value(held[c], i)
        <3>1. CASE i \in Elements(m)
            <4> HIDE DEF rows
            <4>1. read[i] = rows[m][i]
                BY <1>6, <3>1
            <4>2. QED
                BY <1>2, <1>3, <1>4, <1>5, <3>1, <4>1
        <3>2. CASE i \notin Elements(m)
            <4>1. read[i] = [c \in cols |-> Default]
                BY <1>6, <3>2
            <4>2. QED
                BY <1>2, <1>3, <1>4, <3>2, <4>1
        <3>3. QED
            BY <3>1, <3>2
    <2>2. read = [i \in IndexRange(size) |-> read[i]]
        BY <1>6
    <2>3. RowsIn(held, size) = read
        BY <1>3, <2>1, <2>2, RowsRead
    <2>4. Table!Replace(m, ColumnsIn(held), RowsIn(held, size))
        BY <1>1, TableReplaced
    <2>5. QED
        BY <1>3, <2>3, <2>4 DEF Table!Replace
<1>8. Table!Size([n \in Managers |-> RowsIn(attributes[n], nb_elements[n])]'[m])
        = size
    <2>1. [n \in Managers |-> RowsIn(attributes[n], nb_elements[n])]'[m] = read
        BY <1>7
    <2>2. DOMAIN read = IndexRange(size)
        OBVIOUS
    <2> HIDE DEF read
    <2>3. Size(read) = size
        BY <2>2, SizeOfVector
    <2>4. QED
        BY <2>1, <2>3, TableOperators
<1>9. Table!IndexRange(size) = IndexRange(size)
    BY TableOperators
<1>10. Table!Resize(m, size)
    BY <1>7, <1>9 DEF Table!Resize, Table!Replace
<1>11. QED
    BY <1>8, <1>10 DEF Table!ChangeTable, Table!Resize, Table!Replace

\* delete_elements() removes whole rows.
LEMMA DeleteElementsImplements ==
    ASSUME IInv, NEW m \in Managers, NEW deleted \in SUBSET Elements(m),
           DeleteElementsOf(m, deleted)
    PROVE  Table!ChangeTable(m)
<1> DEFINE columns == [n \in Managers |-> ColumnsIn(attributes[n])]
           rows == [n \in Managers |-> RowsIn(attributes[n], nb_elements[n])]
           cols == columns[m]
           size == nb_elements[m]
           kept == IndexRange(size) \ deleted
           count == Cardinality(kept)
           old2new == MappingAfterDeletion(size, deleted)
           held == [a \in IdsOf(m) |->
                        Compacted(attributes[m][a], size, deleted)]
           read == DeleteElements(rows[m], deleted)
<1>1. Becomes(m, held, count)
    BY DeleteElementsBecomes DEF Elements
<1>2. size \in Nat
    BY ManagersAreValid
<1>3. ASSUME NEW a \in IdsOf(m)
      PROVE  LET compacted == Compacted(attributes[m][a], size, deleted)
             IN  /\ compacted.storage = attributes[m][a].storage
                 /\ attributes[m][a].storage # "constant" =>
                        \A i \in kept :
                            Value(compacted, old2new[i])
                                = Value(attributes[m][a], i)
    <2> DEFINE attribute == attributes[m][a]
               compacted == Compacted(attribute, size, deleted)
    <2>1. ValidIn(attribute, size)
        BY ManagersAreValid
    <2> HIDE DEF attribute, size
    <2>2. ValidIn(compacted, Cardinality(IndexRange(size) \ deleted))
          /\ compacted.storage = attribute.storage
        BY <1>2, <2>1, CompactedAttribute
    <2>3. ASSUME attribute.storage # "constant", NEW i \in kept
          PROVE  Value(compacted, old2new[i]) = Value(attribute, i)
        BY <1>2, <2>1, <2>3, CompactedAttribute, ZenonT(40)
    <2>4. QED
        BY <2>2, <2>3 DEF attribute, size
<1>4. \A c \in IdsOf(m) :
            held[c] = Compacted(attributes[m][c], size, deleted)
    OBVIOUS
<1>5. /\ cols = ColumnsIn(held)
      /\ \A c \in cols : /\ c \in IdsOf(m)
                         /\ attributes[m][c].storage # "constant"
    BY <1>3 DEF ColumnsIn, IdsOf
<1>6. /\ DOMAIN rows[m] = IndexRange(size)
      /\ \A i \in IndexRange(size) :
            /\ rows[m][i] = [c \in cols |-> rows[m][i][c]]
            /\ \A c \in cols : rows[m][i][c] = Value(attributes[m][c], i)
    BY TableOfManager DEF Elements
<1>7. read = [k \in IndexRange(count) |-> read[k]]
    BY <1>6 DEF DeleteElements
<1>8. ASSUME NEW k \in IndexRange(count)
      PROVE  \E i \in kept : old2new[i] = k /\ read[k] = rows[m][i]
    <2> DEFINE f == rows[m]
    <2>1. DOMAIN f = IndexRange(size)
        BY <1>6
    <2> HIDE DEF f
    <2>2. \E i \in kept :
            /\ MappingAfterDeletion(size, deleted)[i] = k
            /\ DeleteElements(f, deleted)[k] = f[i]
        BY <1>2, <2>1, DeletedVectorComesFromKept
    <2>3. QED
        BY <2>2 DEF f
<1>9. ASSUME NEW k \in IndexRange(count)
      PROVE  /\ read[k] = [c \in cols |-> read[k][c]]
             /\ \A c \in cols : read[k][c] = Value(held[c], k)
    <2>1. PICK i \in kept : old2new[i] = k /\ read[k] = rows[m][i]
        BY <1>8
    <2>2. i \in IndexRange(size)
        OBVIOUS
    <2> HIDE DEF columns, rows, cols, size, kept, count, old2new, held, read
    <2>3. QED
        BY <1>3, <1>4, <1>5, <1>6, <2>1, <2>2
<1>10. /\ [n \in Managers |-> ColumnsIn(attributes[n])]'
            = [columns EXCEPT ![m] = cols]
       /\ [n \in Managers |-> RowsIn(attributes[n], nb_elements[n])]'
            = [rows EXCEPT ![m] = read]
    <2> HIDE DEF cols, held, read, count
    <2>1. RowsIn(held, count) = read
        BY <1>5, <1>7, <1>9, RowsRead
    <2>2. Table!Replace(m, ColumnsIn(held), RowsIn(held, count))
        BY <1>1, TableReplaced
    <2>3. QED
        BY <1>5, <2>1, <2>2 DEF Table!Replace
<1>11. Table!DeleteElements(rows[m], deleted) = read
    BY TableOperators
<1>12. Table!DeleteRows(m, deleted)
    <2> HIDE DEF read
    <2>1. QED
        BY <1>10, <1>11 DEF Table!DeleteRows, Table!Replace
<1>13. deleted \in SUBSET DOMAIN rows[m]
    BY <1>6 DEF Elements
<1>14. QED
    BY <1>12, <1>13 DEF Table!ChangeTable

\* permute_elements() permutes whole rows: by the permutation when there are
\* vectors, by its inverse when there are only maps.
LEMMA PermuteElementsImplements ==
    ASSUME IInv, NEW m \in Managers,
           NEW permutation \in PermutationsOf(Elements(m)),
           PermuteElementsOf(m, permutation)
    PROVE  Table!ChangeTable(m)
<1> DEFINE columns == [n \in Managers |-> ColumnsIn(attributes[n])]
           rows == [n \in Managers |-> RowsIn(attributes[n], nb_elements[n])]
           cols == columns[m]
           size == nb_elements[m]
           held == [a \in IdsOf(m) |-> Permuted(attributes[m][a], permutation)]
           old2new == Old2NewPermutation(permutation)
           moves == IF \E a \in IdsOf(m) : attributes[m][a].storage = "variable"
                    THEN permutation ELSE old2new
           read == PermuteElements(rows[m], moves)
<1>1. Becomes(m, held, size)
    BY PermuteElementsBecomes
<1>2. permutation \in Bijection(IndexRange(size), IndexRange(size))
    BY ElementsArePermuted DEF Elements
<1>3. ASSUME NEW a \in IdsOf(m)
      PROVE  /\ Permuted(attributes[m][a], permutation).storage
                    = attributes[m][a].storage
             /\ attributes[m][a].storage # "constant" =>
                    \A k \in IndexRange(size) :
                        Value(Permuted(attributes[m][a], permutation), k)
                            = Value(attributes[m][a], moves[k])
    <2> DEFINE attribute == attributes[m][a]
               permuted == Permuted(attribute, permutation)
    <2>1. ValidIn(attribute, size)
        BY ManagersAreValid
    <2>2. attribute.storage \in {"variable", "sparse", "constant"}
        BY <2>1 DEF ValidIn, IsAttribute, Storages
    <2>3. attribute.storage = "variable" => moves = permutation
        OBVIOUS
    <2>4. attribute.storage = "sparse" => moves = old2new
        BY DEF PermuteElementsOf, PermutesAlike
    <2> HIDE DEF attribute, size, moves
    <2>5. /\ permuted.storage = attribute.storage
          /\ attribute.storage = "variable" =>
                \A k \in IndexRange(size) :
                    Value(permuted, k) = Value(attribute, permutation[k])
          /\ attribute.storage = "sparse" =>
                \A k \in IndexRange(size) :
                    Value(permuted, k) = Value(attribute, old2new[k])
        BY <1>2, <2>1, PermutedAttribute
    <2> HIDE DEF permuted, old2new
    <2>6. attribute.storage # "constant" =>
            \A k \in IndexRange(size) :
                Value(permuted, k) = Value(attribute, moves[k])
        BY <2>2, <2>3, <2>4, <2>5
    <2>7. QED
        BY <2>5, <2>6 DEF permuted, attribute, size, moves
<1>4. /\ moves \in [IndexRange(size) -> IndexRange(size)]
      /\ \A i, j \in IndexRange(size) : moves[i] = moves[j] => i = j
    <2> DEFINE S == IndexRange(size)
    <2>1. \A i \in S : /\ old2new \in [S -> S]
                       /\ old2new[permutation[i]] = i
                       /\ permutation[old2new[i]] = i
        BY <1>2, Old2NewInvertsPermutation
    <2>2. old2new = [i \in S |-> old2new[i]] /\ permutation \in [S -> S]
        BY <1>2 DEF Old2NewPermutation, Bijection, Injection
    <2> HIDE DEF S, old2new
    <2>3. old2new \in [S -> S] /\ permutation \in [S -> S]
        BY <2>1, <2>2
    <2>4. /\ \A i, j \in S : old2new[i] = old2new[j] => i = j
          /\ \A i, j \in S : permutation[i] = permutation[j] => i = j
        BY <2>1
    <2>5. QED
        BY <2>3, <2>4 DEF S
<1>5. \A c \in IdsOf(m) : held[c] = Permuted(attributes[m][c], permutation)
    OBVIOUS
<1>6. /\ cols = ColumnsIn(held)
      /\ \A c \in cols : /\ c \in IdsOf(m)
                         /\ attributes[m][c].storage # "constant"
    BY <1>3 DEF ColumnsIn, IdsOf
<1>7. /\ DOMAIN rows[m] = IndexRange(size)
      /\ \A i \in IndexRange(size) :
            /\ rows[m][i] = [c \in cols |-> rows[m][i][c]]
            /\ \A c \in cols : rows[m][i][c] = Value(attributes[m][c], i)
    BY TableOfManager DEF Elements
<1>8. /\ read = [k \in IndexRange(size) |-> read[k]]
      /\ \A k \in IndexRange(size) : read[k] = rows[m][moves[k]]
    BY <1>7 DEF PermuteElements
<1>9. RowsIn(held, size) = read
    <2> HIDE DEF columns, rows, cols, size, moves, held, read
    <2>1. ASSUME NEW k \in IndexRange(size)
          PROVE  /\ read[k] = [c \in cols |-> read[k][c]]
                 /\ \A c \in cols : read[k][c] = Value(held[c], k)
        <3>1. moves[k] \in IndexRange(size)
            BY <1>4
        <3>2. /\ read[k] = [c \in cols |-> read[k][c]]
              /\ \A c \in cols :
                    read[k][c] = Value(attributes[m][c], moves[k])
            BY <1>7, <1>8, <3>1
        <3>3. \A c \in cols :
                Value(held[c], k) = Value(attributes[m][c], moves[k])
            BY <1>3, <1>5, <1>6
        <3>4. QED
            BY <3>2, <3>3
    <2>2. QED
        BY <1>6, <1>8, <2>1, RowsRead
<1>10. Table!Replace(m, ColumnsIn(held), RowsIn(held, size))
    BY <1>1, TableReplaced
<1>11. /\ moves \in Table!PermutationsOf(DOMAIN rows[m])
       /\ Table!PermuteElements(rows[m], moves) = read
    <2>1. moves \in PermutationsOf(IndexRange(size))
        <3> HIDE DEF moves
        <3>1. QED
            BY <1>4 DEF PermutationsOf
    <2> HIDE DEF moves
    <2>2. QED
        BY <1>7, <2>1, TableOperators
<1>12. Table!PermuteRows(m)
    <2> HIDE DEF held, read, moves
    <2>1. QED
        BY <1>6, <1>9, <1>10, <1>11 DEF Table!PermuteRows, Table!Replace
<1>13. QED
    BY <1>12 DEF Table!ChangeTable

\* Values moved from one element to another are cells of one row copied to
\* another.
LEMMA MoveValuesImplements ==
    ASSUME IInv, NEW m \in Managers, NEW S,
           NEW from \in Elements(m), NEW to \in Elements(m),
           NEW held,
           held = [a \in IdsOf(m) |->
                    IF a \in S THEN ValueMoved(attributes[m][a], from, to)
                    ELSE attributes[m][a]],
           Becomes(m, held, nb_elements[m])
    PROVE  Table!ChangeTable(m)
<1> DEFINE columns == [n \in Managers |-> ColumnsIn(attributes[n])]
           rows == [n \in Managers |-> RowsIn(attributes[n], nb_elements[n])]
           cols == columns[m]
           size == nb_elements[m]
           copied == cols \cap S
           row == [c \in cols |-> IF c \in copied THEN rows[m][from][c]
                                  ELSE rows[m][to][c]]
           read == [rows[m] EXCEPT ![to] = row]
<1>1. from \in IndexRange(size) /\ to \in IndexRange(size)
    BY DEF Elements
<1>2. ASSUME NEW a \in IdsOf(m)
      PROVE  LET moved == ValueMoved(attributes[m][a], from, to)
             IN  /\ moved.storage = attributes[m][a].storage
                 /\ attributes[m][a].storage # "constant" =>
                        \A k \in IndexRange(size) :
                            Value(moved, k) =
                                IF k = to THEN Value(attributes[m][a], from)
                                ELSE Value(attributes[m][a], k)
    <2> DEFINE attribute == attributes[m][a]
               moved == ValueMoved(attribute, from, to)
    <2>1. ValidIn(attribute, size)
        BY ManagersAreValid
    <2> HIDE DEF attribute, size
    <2>2. /\ moved.storage = attribute.storage
          /\ attribute.storage # "constant" =>
                \A k \in IndexRange(size) :
                    Value(moved, k) =
                        IF k = to THEN Value(attribute, from)
                        ELSE Value(attribute, k)
        BY <1>1, <2>1, MovedAttribute
    <2>3. QED
        BY <2>2 DEF attribute, size
<1>3. /\ cols = ColumnsIn(held)
      /\ \A c \in cols : /\ c \in IdsOf(m)
                         /\ attributes[m][c].storage # "constant"
    BY <1>2 DEF ColumnsIn, IdsOf
<1>4. /\ DOMAIN rows[m] = IndexRange(size)
      /\ rows[m] = [i \in IndexRange(size) |-> rows[m][i]]
      /\ \A i \in IndexRange(size) :
            /\ rows[m][i] = [c \in cols |-> rows[m][i][c]]
            /\ \A c \in cols : rows[m][i][c] = Value(attributes[m][c], i)
    BY TableOfManager DEF Elements, RowsIn
<1>5. \A c \in cols, k \in IndexRange(size) :
            Value(held[c], k) =
                IF c \in copied /\ k = to THEN Value(attributes[m][c], from)
                ELSE Value(attributes[m][c], k)
    <2> HIDE DEF cols, size
    <2>1. QED
        BY <1>2, <1>3
<1>6. /\ row = [c \in cols |-> row[c]]
      /\ \A c \in cols : row[c] = Value(held[c], to)
    <2>1. \A c \in cols : row[c] = IF c \in copied THEN rows[m][from][c]
                                   ELSE rows[m][to][c]
        OBVIOUS
    <2>2. row = [c \in cols |-> row[c]]
        OBVIOUS
    <2> HIDE DEF row, cols, copied, rows, size
    <2>3. QED
        BY <1>1, <1>4, <1>5, <2>1, <2>2, ZenonT(40)
<1> HIDE DEF row
<1>7. /\ read = [k \in IndexRange(size) |-> read[k]]
      /\ \A k \in IndexRange(size) :
            read[k] = IF k = to THEN row ELSE rows[m][k]
    BY <1>1, <1>4
<1>8. RowsIn(held, size) = read
    <2> HIDE DEF columns, rows, cols, size, read, copied
    <2>1. ASSUME NEW k \in IndexRange(size)
          PROVE  /\ read[k] = [c \in cols |-> read[k][c]]
                 /\ \A c \in cols : read[k][c] = Value(held[c], k)
        <3>1. CASE k = to
            <4>1. read[k] = row
                BY <1>7, <3>1
            <4>2. QED
                BY <1>6, <3>1, <4>1
        <3>2. CASE k # to
            <4>1. read[k] = rows[m][k]
                BY <1>7, <3>2
            <4>2. QED
                BY <1>4, <1>5, <3>2, <4>1
        <3>3. QED
            BY <3>1, <3>2
    <2>2. QED
        BY <1>3, <1>7, <2>1, RowsRead
<1>9. Table!Replace(m, ColumnsIn(held), RowsIn(held, size))
    BY TableReplaced
<1>10. Table!CopyRow(m, to, from)
    <2>1. copied \in SUBSET columns[m]
        OBVIOUS
    <2>2. read = [rows[m] EXCEPT ![to] =
                    [c \in columns[m] |->
                        IF c \in copied THEN rows[m][from][c] ELSE @[c]]]
        BY DEF row
    <2> HIDE DEF copied, read
    <2>3. /\ [n \in Managers |-> ColumnsIn(attributes[n])]'
                = [columns EXCEPT ![m] = columns[m]]
          /\ [n \in Managers |-> RowsIn(attributes[n], nb_elements[n])]'
                = [rows EXCEPT ![m] = read]
        BY <1>3, <1>8, <1>9 DEF Table!Replace
    <2> HIDE DEF columns, rows
    <2>4. \E some \in SUBSET columns[m] :
            read = [rows[m] EXCEPT ![to] =
                    [c \in columns[m] |->
                        IF c \in some THEN rows[m][from][c] ELSE @[c]]]
        BY <2>1, <2>2
    <2>5. QED
        BY <2>3, <2>4 DEF Table!CopyRow, Table!Replace, columns, rows
<1>11. from \in DOMAIN rows[m] /\ to \in DOMAIN rows[m]
    BY <1>1, <1>4
<1>12. QED
    BY <1>10, <1>11 DEF Table!ChangeTable

\* copy() makes the table of m the transferable columns of n.
LEMMA CopyImplements ==
    ASSUME IInv, NEW m \in Managers, NEW n \in Managers \ {m}, Copy(m, n)
    PROVE  Table!ChangeTable(m)
<1> DEFINE columns == [k \in Managers |-> ColumnsIn(attributes[k])]
           rows == [k \in Managers |-> RowsIn(attributes[k], nb_elements[k])]
           size == nb_elements[n]
           copied == Transferable(n) \cap ColumnsIn(attributes[n])
           read == [i \in DOMAIN rows[n] |-> [c \in copied |-> rows[n][i][c]]]
<1>1. PICK held :
            /\ Becomes(m, held, size)
            /\ DOMAIN held = Transferable(n)
            /\ \A a \in Transferable(n) :
                 /\ held[a].storage = attributes[n][a].storage
                 /\ held[a].storage # "constant" =>
                        \A k \in IndexRange(size) :
                            Value(held[a], k) = Value(attributes[n][a], k)
    BY CopyBecomes
<1>2. copied = ColumnsIn(held)
    BY <1>1 DEF ColumnsIn, Transferable, IdsOf
<1>3. /\ DOMAIN rows[n] = IndexRange(size)
      /\ \A i \in IndexRange(size) : \A c \in ColumnsIn(attributes[n]) :
            rows[n][i][c] = Value(attributes[n][c], i)
    <2>1. rows[n] = RowsIn(attributes[n], size)
        OBVIOUS
    <2>2. QED
        BY <2>1 DEF RowsIn
<1>4. \A c \in copied : \A i \in IndexRange(size) :
            Value(held[c], i) = rows[n][i][c]
    BY <1>1, <1>2, <1>3 DEF ColumnsIn
<1>5. /\ read = [i \in IndexRange(size) |-> read[i]]
      /\ \A i \in IndexRange(size) :
            /\ read[i] = [c \in copied |-> read[i][c]]
            /\ \A c \in copied : read[i][c] = rows[n][i][c]
    BY <1>3
<1>6. RowsIn(held, size) = read
    <2> HIDE DEF read, copied, rows, size
    <2>1. QED
        BY <1>2, <1>4, <1>5, RowsRead
<1>7. Table!Replace(m, ColumnsIn(held), RowsIn(held, size))
    BY <1>1, TableReplaced
<1>8. Table!Copy(m, n)
    <2>1. copied \in SUBSET columns[n]
        OBVIOUS
    <2>2. /\ [k \in Managers |-> ColumnsIn(attributes[k])]'
                = [columns EXCEPT ![m] = copied]
          /\ [k \in Managers |-> RowsIn(attributes[k], nb_elements[k])]'
                = [rows EXCEPT ![m] = read]
        BY <1>2, <1>6, <1>7 DEF Table!Replace
    <2> HIDE DEF columns, rows, copied
    <2>3. QED
        BY <2>1, <2>2 DEF Table!Copy, Table!Replace, columns, rows
<1>9. QED
    BY <1>8 DEF Table!ChangeTable

\* What import() reads for element i of m is the cell of row origin[i] of n,
\* or the value of a constant of n.
LEMMA ImportedCells ==
    ASSUME IInv, NEW m \in Managers, NEW n \in Managers \ {m},
           NEW which \in SUBSET IdsOf(n), NEW origin \in Origins(m, n),
           Import(m, n, which, origin)
    PROVE  LET held == ImportedInto(attributes[m], attributes[n],
                                    nb_elements[m], which, origin)
               added == (which \ IdsOf(m)) \cap ColumnsIn(attributes[n])
           IN  /\ ColumnsIn(held) = ColumnsIn(attributes[m]) \cup added
               /\ \A c \in ColumnsIn(attributes[m]), i \in Elements(m) :
                    IF c \in which /\ i \in DOMAIN origin
                    THEN \/ Value(held[c], i)
                                = Value(attributes[n][c], origin[i])
                         \/ /\ Value(attributes[n][c], origin[i]) = Default
                            /\ Value(held[c], i) = Value(attributes[m][c], i)
                    ELSE Value(held[c], i) = Value(attributes[m][c], i)
               /\ \A c \in ColumnsIn(attributes[n]), i \in Elements(m) :
                    c \in which /\ c \notin IdsOf(m) =>
                        Value(held[c], i) =
                            IF i \in DOMAIN origin
                            THEN Value(attributes[n][c], origin[i])
                            ELSE Default
<1> DEFINE size == nb_elements[m]
           held == ImportedInto(attributes[m], attributes[n], size, which,
                                origin)
           added == (which \ IdsOf(m)) \cap ColumnsIn(attributes[n])
<1>1. /\ DOMAIN origin \subseteq IndexRange(size)
      /\ \A i \in DOMAIN origin : origin[i] \in IndexRange(nb_elements[n])
      /\ \A a \in which \cap IdsOf(m) :
            attributes[m][a].storage = "constant" =>
                Value(attributes[n][a], 0) \in Values
    BY ImportBecomes DEF Elements
<1>2. ASSUME NEW a \in IdsOf(m), a \in which
      PROVE  /\ held[a].storage = attributes[m][a].storage
             /\ attributes[m][a].storage # "constant" =>
                    \A k \in IndexRange(size) :
                        IF k \in DOMAIN origin
                        THEN \/ Value(held[a], k)
                                    = Value(attributes[n][a], origin[k])
                             \/ /\ Value(attributes[n][a], origin[k])
                                        = Default
                                /\ Value(held[a], k)
                                        = Value(attributes[m][a], k)
                        ELSE Value(held[a], k) = Value(attributes[m][a], k)
    <2> DEFINE to == attributes[m][a]
               from == attributes[n][a]
               imported == Imported(to, from, origin)
    <2>1. held[a] = imported
        BY <1>2 DEF ImportedInto, IdsOf
    <2>2. ValidIn(to, size) /\ ValidIn(from, nb_elements[n])
        BY <1>2, ManagersAreValid
    <2>3. to.storage = "constant" => Value(from, 0) \in Values
        BY <1>1, <1>2
    <2> HIDE DEF to, from, size
    <2>4. /\ imported.storage = to.storage
          /\ to.storage # "constant" =>
                \A k \in IndexRange(size) :
                    IF k \in DOMAIN origin
                    THEN \/ Value(imported, k) = Value(from, origin[k])
                         \/ /\ Value(from, origin[k]) = Default
                            /\ Value(imported, k) = Value(to, k)
                    ELSE Value(imported, k) = Value(to, k)
        BY <1>1, <2>2, <2>3, ImportedAttribute
    <2> HIDE DEF imported, held
    <2>5. QED
        BY <2>1, <2>4 DEF to, from, size
<1>3. ASSUME NEW a \in which, a \notin IdsOf(m)
      PROVE  /\ held[a].storage = attributes[n][a].storage
             /\ attributes[n][a].storage # "constant" =>
                    \A k \in IndexRange(size) :
                        Value(held[a], k) =
                            IF k \in DOMAIN origin
                            THEN Value(attributes[n][a], origin[k])
                            ELSE Default
    <2> DEFINE from == attributes[n][a]
               extracted == Extracted(from, size, origin)
    <2>1. held[a] = extracted
        BY <1>3 DEF ImportedInto, IdsOf
    <2>2. ValidIn(from, nb_elements[n])
        BY ManagersAreValid
    <2> HIDE DEF from, size
    <2>3. /\ extracted.storage = from.storage
          /\ from.storage # "constant" =>
                \A k \in IndexRange(size) :
                    Value(extracted, k) =
                        IF k \in DOMAIN origin THEN Value(from, origin[k])
                        ELSE Default
        BY <1>1, <2>2, ExtractedAttribute
    <2> HIDE DEF extracted, held
    <2>4. QED
        BY <2>1, <2>3 DEF from, size
<1>4. /\ DOMAIN held = IdsOf(m) \cup which
      /\ \A a \in IdsOf(m) \ which : held[a] = attributes[m][a]
    BY DEF ImportedInto, IdsOf
<1> HIDE DEF held
<1>5. /\ \A a \in IdsOf(m) : held[a].storage = attributes[m][a].storage
      /\ \A a \in which \ IdsOf(m) :
            held[a].storage = attributes[n][a].storage
    BY <1>2, <1>3, <1>4
<1>6. ColumnsIn(held) = ColumnsIn(attributes[m]) \cup added
    BY <1>4, <1>5 DEF ColumnsIn, IdsOf
<1>7. ASSUME NEW c \in ColumnsIn(attributes[m]), NEW i \in Elements(m)
      PROVE  IF c \in which /\ i \in DOMAIN origin
             THEN \/ Value(held[c], i) = Value(attributes[n][c], origin[i])
                  \/ /\ Value(attributes[n][c], origin[i]) = Default
                     /\ Value(held[c], i) = Value(attributes[m][c], i)
             ELSE Value(held[c], i) = Value(attributes[m][c], i)
    <2>1. /\ c \in IdsOf(m)
          /\ attributes[m][c].storage # "constant"
          /\ i \in IndexRange(size)
        BY DEF ColumnsIn, IdsOf, Elements
    <2> HIDE DEF size
    <2>2. QED
        BY <1>2, <1>4, <2>1
<1>8. ASSUME NEW c \in added, NEW i \in Elements(m)
      PROVE  Value(held[c], i) = IF i \in DOMAIN origin
                                 THEN Value(attributes[n][c], origin[i])
                                 ELSE Default
    <2>1. /\ c \in which /\ c \notin IdsOf(m)
          /\ attributes[n][c].storage # "constant"
          /\ i \in IndexRange(size)
        BY DEF ColumnsIn, Elements
    <2> HIDE DEF size
    <2>2. QED
        BY <1>3, <2>1
<1>9. QED
    BY <1>6, <1>7, <1>8 DEF held

\* import() fills cells of m from those of n, one row from one row.
LEMMA ImportImplements ==
    ASSUME IInv, NEW m \in Managers, NEW n \in Managers \ {m},
           NEW which \in SUBSET IdsOf(n), NEW origin \in Origins(m, n),
           Import(m, n, which, origin)
    PROVE  Table!ChangeTable(m)
<1> DEFINE columns == [k \in Managers |-> ColumnsIn(attributes[k])]
           rows == [k \in Managers |-> RowsIn(attributes[k], nb_elements[k])]
           uniform == [k \in Managers |-> UniformIn(attributes[k])]
           size == nb_elements[m]
           held == ImportedInto(attributes[m], attributes[n], size, which,
                                origin)
           added == (which \ IdsOf(m)) \cap ColumnsIn(attributes[n])
           before(i, c) == IF c \in columns[m] THEN rows[m][i][c] ELSE Default
           source(i, c) == IF c \in columns[n] THEN rows[n][origin[i]][c]
                           ELSE uniform[n][c]
<1>1. /\ Becomes(m, held, size)
      /\ DOMAIN origin \subseteq Elements(m)
      /\ \A i \in DOMAIN origin : origin[i] \in Elements(n)
    BY ImportBecomes
<1>2. /\ ColumnsIn(held) = ColumnsIn(attributes[m]) \cup added
      /\ \A c \in ColumnsIn(attributes[m]), i \in Elements(m) :
            IF c \in which /\ i \in DOMAIN origin
            THEN \/ Value(held[c], i) = Value(attributes[n][c], origin[i])
                 \/ /\ Value(attributes[n][c], origin[i]) = Default
                    /\ Value(held[c], i) = Value(attributes[m][c], i)
            ELSE Value(held[c], i) = Value(attributes[m][c], i)
      /\ \A c \in added, i \in Elements(m) :
            Value(held[c], i) = IF i \in DOMAIN origin
                                THEN Value(attributes[n][c], origin[i])
                                ELSE Default
    <2>1. ColumnsIn(held) = ColumnsIn(attributes[m]) \cup added
        BY ImportedCells
    <2>2. ASSUME NEW c \in ColumnsIn(attributes[m]), NEW i \in Elements(m)
          PROVE  IF c \in which /\ i \in DOMAIN origin
                 THEN \/ Value(held[c], i) = Value(attributes[n][c], origin[i])
                      \/ /\ Value(attributes[n][c], origin[i]) = Default
                         /\ Value(held[c], i) = Value(attributes[m][c], i)
                 ELSE Value(held[c], i) = Value(attributes[m][c], i)
        BY ImportedCells
    <2>3. ASSUME NEW c \in ColumnsIn(attributes[n]), NEW i \in Elements(m),
                 c \in which /\ c \notin IdsOf(m)
          PROVE  Value(held[c], i) = IF i \in DOMAIN origin
                                     THEN Value(attributes[n][c], origin[i])
                                     ELSE Default
        BY <2>3, ImportedCells
    <2>4. QED
        BY <2>1, <2>2, <2>3
<1>3. \A i \in Elements(m), c \in columns[m] :
            before(i, c) = Value(attributes[m][c], i)
    <2>1. columns[m] = ColumnsIn(attributes[m])
        OBVIOUS
    <2>2. rows[m] = RowsIn(attributes[m], nb_elements[m])
        OBVIOUS
    <2>3. ASSUME NEW i \in Elements(m), NEW c \in columns[m]
          PROVE  before(i, c) = Value(attributes[m][c], i)
        <3>1. RowsIn(attributes[m], nb_elements[m])[i] =
                [a \in ColumnsIn(attributes[m]) |-> Value(attributes[m][a], i)]
            BY TableOfManager
        <3>2. before(i, c) = rows[m][i][c]
            OBVIOUS
        <3>3. QED
            BY <2>1, <2>2, <3>1, <3>2
    <2>4. QED
        BY <2>3
<1>4. \A i \in Elements(m), c \in added :
            before(i, c) = Default /\ c \in which
    BY DEF ColumnsIn, IdsOf
<1>5. ASSUME NEW i \in DOMAIN origin, NEW c \in which
      PROVE  source(i, c) = Value(attributes[n][c], origin[i])
    <2>1. CASE c \in columns[n]
        <3>1. origin[i] \in IndexRange(nb_elements[n])
            BY <1>1 DEF Elements
        <3>2. rows[n] = RowsIn(attributes[n], nb_elements[n])
            OBVIOUS
        <3>3. c \in ColumnsIn(attributes[n])
            BY <2>1
        <3>4. rows[n][origin[i]][c] = Value(attributes[n][c], origin[i])
            BY <3>1, <3>2, <3>3 DEF RowsIn
        <3>5. QED
            BY <2>1, <3>4
    <2>2. CASE c \notin columns[n]
        <3>1. c \in IdsOf(n) \ ColumnsIn(attributes[n])
            BY <2>2
        <3>2. attributes[n][c].storage = "constant"
            BY <3>1 DEF ColumnsIn, IdsOf
        <3>3. c \in Ids
            BY ManagersAreValid
        <3>4. uniform[n][c] = attributes[n][c].values[0]
            BY <3>1, <3>3 DEF UniformIn, IdsOf
        <3>5. Value(attributes[n][c], origin[i])
                = attributes[n][c].values[0]
            BY <3>2 DEF Value
        <3>6. QED
            BY <2>2, <3>4, <3>5
    <2>3. QED
        BY <2>1, <2>2
<1>6. Table!Replace(m, ColumnsIn(held), RowsIn(held, size))
    BY <1>1, TableReplaced
<1>7. /\ [k \in Managers |-> ColumnsIn(attributes[k])]'
            = [columns EXCEPT ![m] = columns[m] \cup added]
      /\ [k \in Managers |-> ColumnsIn(attributes[k])]'[m]
            = columns[m] \cup added
      /\ [k \in Managers |-> RowsIn(attributes[k], nb_elements[k])]'
            = [rows EXCEPT ![m] = RowsIn(held, size)]
      /\ [k \in Managers |-> RowsIn(attributes[k], nb_elements[k])]'[m]
            = RowsIn(held, size)
    <2>1. ColumnsIn(held) = columns[m] \cup added
        BY <1>2
    <2> HIDE DEF held
    <2>2. QED
        BY <1>6, <2>1 DEF Table!Replace
<1>8. /\ DOMAIN RowsIn(held, size) = Elements(m)
      /\ \A i \in Elements(m), c \in columns[m] \cup added :
            RowsIn(held, size)[i][c] = Value(held[c], i)
    BY <1>2 DEF RowsIn, Elements
<1>9. DOMAIN rows[m] = Elements(m)
    BY TableOfManager
<1>10. ASSUME NEW i \in Elements(m), NEW c \in columns[m] \cup added
       PROVE  IF c \in which /\ i \in DOMAIN origin
              THEN \/ RowsIn(held, size)[i][c] = source(i, c)
                   \/ /\ source(i, c) = Default
                      /\ RowsIn(held, size)[i][c] = before(i, c)
              ELSE RowsIn(held, size)[i][c] = before(i, c)
    <2>1. RowsIn(held, size)[i][c] = Value(held[c], i)
        BY <1>8
    <2>2. CASE c \in columns[m]
        <3>1. before(i, c) = Value(attributes[m][c], i)
            BY <1>3, <2>2
        <3>2. c \in ColumnsIn(attributes[m])
            BY <2>2
        <3> HIDE DEF before, source, held, added, columns, size
        <3>3. QED
            BY <1>2, <1>5, <2>1, <3>1, <3>2
    <2>3. CASE c \in added
        <3>1. before(i, c) = Default /\ c \in which
            BY <1>4, <2>3
        <3> HIDE DEF before, source, held, added, columns, size
        <3>2. QED
            BY <1>2, <1>5, <2>1, <2>3, <3>1
    <2>4. QED
        BY <2>2, <2>3
<1>11. /\ which \in SUBSET Ids
       /\ added \in SUBSET columns[n]
    BY ManagersAreValid
<1>12. Table!Import(m, n, origin)
    <2> DEFINE columnsNext == [k \in Managers |-> ColumnsIn(attributes'[k])]
               rowsNext == [k \in Managers |->
                                RowsIn(attributes'[k], nb_elements'[k])]
    <2>1. /\ columnsNext = [columns EXCEPT ![m] = columns[m] \cup added]
          /\ columnsNext[m] = columns[m] \cup added
          /\ rowsNext[m] = RowsIn(held, size)
        BY <1>7
    <2> HIDE DEF columns, rows, uniform, held, added, size, columnsNext,
                 rowsNext
    <2>2. DOMAIN rowsNext[m] = DOMAIN rows[m]
        BY <1>8, <1>9, <2>1
    <2>3. \A i \in DOMAIN rows[m], c \in columnsNext[m] :
            IF c \in which /\ i \in DOMAIN origin
            THEN \/ rowsNext[m][i][c] = source(i, c)
                 \/ /\ source(i, c) = Default
                    /\ rowsNext[m][i][c] = before(i, c)
            ELSE rowsNext[m][i][c] = before(i, c)
        <3> HIDE DEF source, before
        <3>1. QED
            BY <1>9, <1>10, <2>1
    <2>4. \E imported \in SUBSET Ids, some \in SUBSET columns[n] :
            /\ columnsNext = [columns EXCEPT ![m] = @ \cup some]
            /\ DOMAIN rowsNext[m] = DOMAIN rows[m]
            /\ \A i \in DOMAIN rows[m], c \in columnsNext[m] :
                IF c \in imported /\ i \in DOMAIN origin
                THEN \/ rowsNext[m][i][c] = source(i, c)
                     \/ /\ source(i, c) = Default
                        /\ rowsNext[m][i][c] = before(i, c)
                ELSE rowsNext[m][i][c] = before(i, c)
        <3> HIDE DEF source, before
        <3> USE <1>11
        <3> WITNESS which \in SUBSET Ids, added \in SUBSET columns[n]
        <3>1. QED
            BY <2>1, <2>2, <2>3
    <2>5. QED
        BY <2>4 DEF Table!Import, columns, rows, uniform, columnsNext, rowsNext
<1>13. /\ DOMAIN origin \in SUBSET DOMAIN rows[m]
       /\ origin \in [DOMAIN origin -> DOMAIN rows[n]]
    <2>1. origin = [i \in DOMAIN origin |-> origin[i]]
        BY DEF Origins
    <2>2. QED
        BY <1>1, <2>1, TableOfManager
<1>14. QED
    BY <1>12, <1>13 DEF Table!ChangeTable

-----------------------------------------------------------------------------
LEMMA InitImplementsTable == Init => Table!Init
<1> SUFFICES ASSUME Init PROVE Table!Init
    OBVIOUS
<1> DEFINE none == [a \in {} |-> {}]
<1>1. \A m \in Managers : attributes[m] = none /\ nb_elements[m] = 0
    BY DEF Init
<1>2. DOMAIN none = {}
    OBVIOUS
<1> HIDE DEF none
<1>3. ColumnsIn(none) = {}
    BY <1>2 DEF ColumnsIn
<1>4. RowsIn(none, 0) = [i \in {} |-> {}]
    <2> DEFINE read == [i \in {} |-> {}]
    <2>1. read = [i \in {} |-> read[i]] /\ IndexRange(0) = {}
        BY DEF IndexRange
    <2> HIDE DEF read
    <2>2. RowsIn(none, 0) = read
        BY <1>3, <2>1, RowsRead
    <2>3. QED
        BY <2>2 DEF read
<1>5. UniformIn(none) = [c \in Ids |-> NoId]
    BY <1>2 DEF UniformIn
<1>6. QED
    BY <1>1, <1>3, <1>4, <1>5 DEF Table!Init

LEMMA NextImplementsTable == IInv /\ [Next]_vars => [Table!Next]_Table!vars
<1> SUFFICES ASSUME IInv, [Next]_vars PROVE [Table!Next]_Table!vars
    OBVIOUS
<1>0. ASSUME NEW m \in Managers, NEW held, NEW size, Becomes(m, held, size)
      PROVE  Table!OnlyOf(m)
    BY <1>0, TableReplaced
<1>1. ASSUME NEW m \in Managers, NEW a \in Ids, NEW storage \in Storages,
             NEW properties \in PropertySets,
             CreateAttribute(m, a, storage, properties)
      PROVE  Table!OnlyOf(m) /\ Table!ChangeTable(m)
    BY <1>0, <1>1, CreateAttributeBecomes, CreateAttributeImplements
<1>2. ASSUME NEW m \in Managers, NEW a \in IdsOf(m),
             \/ DeleteAttribute(m, a)
             \/ \E properties \in PropertySets :
                    SetAttributeProperties(m, a, properties)
             \/ \E i \in Elements(m), v \in Values : SetValue(m, a, i, v)
      PROVE  Table!OnlyOf(m) /\ Table!ChangeTable(m)
    BY <1>0, <1>2, DeleteAttributeBecomes, DeleteAttributeImplements,
       SetAttributePropertiesBecomes, SetAttributePropertiesImplements,
       SetValueBecomes, SetValueImplements
<1>3. ASSUME NEW m \in Managers, Clear(m)
      PROVE  Table!OnlyOf(m) /\ Table!ChangeTable(m)
    BY <1>0, <1>3, ClearBecomes, ClearImplements
<1>4. ASSUME NEW m \in Managers, NEW size \in 0 .. MaxElements,
             Resize(m, size)
      PROVE  Table!OnlyOf(m) /\ Table!ChangeTable(m)
    <2>1. size \in Nat
        OBVIOUS
    <2>2. QED
        BY <1>0, <1>4, <2>1, ResizeBecomes, ResizeImplements
<1>5. ASSUME NEW m \in Managers, NEW deleted \in SUBSET Elements(m),
             DeleteElementsOf(m, deleted)
      PROVE  Table!OnlyOf(m) /\ Table!ChangeTable(m)
    BY <1>0, <1>5, DeleteElementsBecomes, DeleteElementsImplements
<1>6. ASSUME NEW m \in Managers,
             NEW permutation \in PermutationsOf(Elements(m)),
             PermuteElementsOf(m, permutation)
      PROVE  Table!OnlyOf(m) /\ Table!ChangeTable(m)
    BY <1>0, <1>6, PermuteElementsBecomes, PermuteElementsImplements
<1>7. ASSUME NEW m \in Managers,
             NEW from \in Elements(m), NEW to \in Elements(m),
             \/ AssignAttributeValue(m, from, to)
             \/ CopyAttributeValue(m, from, to)
      PROVE  Table!OnlyOf(m) /\ Table!ChangeTable(m)
    <2>1. PICK S : Becomes(m, [a \in IdsOf(m) |->
                                IF a \in S
                                THEN ValueMoved(attributes[m][a], from, to)
                                ELSE attributes[m][a]],
                           nb_elements[m])
        BY <1>7, AssignAttributeValueBecomes, CopyAttributeValueBecomes
    <2>2. QED
        BY <1>0, <2>1, MoveValuesImplements
<1>8. ASSUME NEW m \in Managers, NEW to \in Elements(m),
             InterpolateAttributeValue(m, to)
      PROVE  Table!OnlyOf(m) /\ Table!ChangeTable(m)
    BY <1>0, <1>8, InterpolateAttributeValueBecomes,
       InterpolateAttributeValueImplements
<1>9. ASSUME NEW m \in Managers, NEW n \in Managers \ {m}, Copy(m, n)
      PROVE  Table!OnlyOf(m) /\ Table!ChangeTable(m)
    BY <1>0, <1>9, CopyBecomes, CopyImplements
<1>10. ASSUME NEW m \in Managers, NEW n \in Managers \ {m},
              NEW origin \in Origins(m, n),
              \/ ImportAll(m, n, origin)
              \/ \E a \in Ids : ImportOne(m, n, a, origin)
       PROVE  Table!OnlyOf(m) /\ Table!ChangeTable(m)
    <2>1. PICK which \in SUBSET IdsOf(n) : Import(m, n, which, origin)
        BY <1>10 DEF ImportAll, ImportOne, Transferable
    <2>2. QED
        BY <1>0, <2>1, ImportBecomes, ImportImplements
<1>11. CASE UNCHANGED vars
    BY <1>11 DEF vars, Table!vars
<1>12. CASE \E m \in Managers : Table!OnlyOf(m) /\ Table!ChangeTable(m)
    BY <1>12 DEF Table!Next
<1>13. QED
    BY <1>1, <1>2, <1>3, <1>4, <1>5, <1>6, <1>7, <1>8, <1>9, <1>10, <1>11,
       <1>12
    DEF Next

\* Whatever the kinds of storage and whatever is called on them, the managers
\* are tables: a deletion, a permutation or a copy moves whole rows, and a cell
\* changes only where a call names it.
THEOREM ManagersAreTables == Spec => ImplementsAttributeTable
<1>1. Init => IInv /\ Table!Init
    BY InitIsValid, InitImplementsTable
<1>2. IInv /\ [Next]_vars => IInv' /\ [Table!Next]_Table!vars
    BY NextKeepsValid, NextImplementsTable
<1>3. QED
    BY <1>1, <1>2, PTL DEF Spec, ImplementsAttributeTable, Table!Spec
===============================================================================
