---------------------------- MODULE Renumbering ----------------------------
(***************************************************************************)
(* How OpenGeode renumbers the elements of a mesh.                         *)
(*                                                                         *)
(* The elements of a mesh (vertices, edges, polygons ...) are the indices  *)
(* 0 .. n-1, and whatever is known of them is stored in vectors indexed by *)
(* them.  Deleting or permuting elements compacts or permutes every vector *)
(* and computes old2new, the mapping that the code then applies to every   *)
(* place where an index of the element is stored.  A vector of size n is a *)
(* function with domain 0 .. n-1; a set D of indices stands for the        *)
(* vector< bool > to_delete.                                               *)
(***************************************************************************)
EXTENDS Integers, FiniteSets

\* NO_ID, 2^32 - 1 in the code: above every index, hence no index.
NoId == -1

IndexRange(n) == 0 .. n - 1

\* The size of a vector.
Size(f) == Cardinality(DOMAIN f)

\* The indices below i that are kept when D is deleted.
KeptBelow(i, D) == IndexRange(i) \ D

\* mapping_after_deletion(): the kept elements in their order, from 0.
MappingAfterDeletion(n, D) ==
    [i \in IndexRange(n) |->
        IF i \in D THEN NoId ELSE Cardinality(KeptBelow(i, D))]

\* delete_vector_elements(): the element kept at index k is the one that has
\* k kept elements before it.
DeleteElements(f, D) ==
    LET kept == DOMAIN f \ D
    IN  [k \in IndexRange(Cardinality(kept)) |->
            f[CHOOSE i \in kept : Cardinality(KeptBelow(i, D)) = k]]

\* AttributeManager::resize() of every vector to one more element.
AppendElement(f, value) ==
    [i \in IndexRange(Size(f) + 1) |->
        IF i = Size(f) THEN value ELSE f[i]]

\* permute(): the element of index i afterwards was at permutation[i].
PermuteElements(f, permutation) == [i \in DOMAIN f |-> f[permutation[i]]]

\* Mutant: the permutation itself is taken for its inverse.
PermutationAsOld2New(permutation) == permutation

\* old2new_permutation(): old2new[permutation[i]] = i, for every i in parallel.
Old2NewPermutation(permutation) ==
    [j \in DOMAIN permutation |->
        CHOOSE i \in DOMAIN permutation : permutation[i] = j]
=============================================================================
