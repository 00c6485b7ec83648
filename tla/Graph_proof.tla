---------------------------- MODULE Graph_proof ----------------------------
(***************************************************************************)
(* Renumbered vectors and graphs, of every size.                           *)
(*                                                                         *)
(* old2new and the vectors agree for every deletion and permutation: what  *)
(* was stored at an index is found at old2new of that index.  The argument *)
(* for a deletion: the number of kept indices below i grows strictly along *)
(* the kept indices, so it is one-to-one on them; between finite sets of   *)
(* one size a one-to-one function is onto.                                 *)
(*                                                                         *)
(* The operations of a graph keep its lists dual to its edges.  A loop of  *)
(* the code is a recursive function of the number of turns that are done;  *)
(* what it computes is shown by induction on that number, with an          *)
(* invariant of the loop.                                                  *)
(***************************************************************************)
EXTENDS Graph, FunctionTheorems, FiniteSetTheorems, WellFoundedInduction,
        SequenceTheorems, TLAPS

\* The kept indices below i are at most i.
LEMMA KeptBelowIsFinite ==
    ASSUME NEW i \in Nat, NEW D
    PROVE  /\ IsFiniteSet(KeptBelow(i, D))
           /\ Cardinality(KeptBelow(i, D)) \in 0 .. i
<1>1. IsFiniteSet(IndexRange(i)) /\ Cardinality(IndexRange(i)) = i
    <2>1. 0 \in Int /\ i - 1 \in Int
        OBVIOUS
    <2>2. IsFiniteSet(0 .. i - 1)
          /\ Cardinality(0 .. i - 1) = IF 0 > i - 1 THEN 0 ELSE i - 1 - 0 + 1
        BY <2>1, FS_Interval
    <2>3. QED
        BY <2>2 DEF IndexRange
<1>2. KeptBelow(i, D) \in SUBSET IndexRange(i)
    BY DEF KeptBelow
<1>3. IsFiniteSet(KeptBelow(i, D))
      /\ Cardinality(KeptBelow(i, D)) <= Cardinality(IndexRange(i))
    BY <1>1, <1>2, FS_Subset
<1>4. Cardinality(KeptBelow(i, D)) \in Nat
    BY <1>3, FS_CardinalityType
<1>5. QED
    BY <1>1, <1>3, <1>4

\* Past a kept index there is one more kept index below.
LEMMA KeptBelowGrows ==
    ASSUME NEW i \in Nat, NEW j \in Nat, NEW D, i < j, i \notin D
    PROVE  Cardinality(KeptBelow(i, D)) < Cardinality(KeptBelow(j, D))
<1>1. KeptBelow(i, D) \in SUBSET KeptBelow(j, D)
    BY DEF KeptBelow, IndexRange
<1>2. i \in KeptBelow(j, D) /\ i \notin KeptBelow(i, D)
    BY DEF KeptBelow, IndexRange
<1>3. /\ IsFiniteSet(KeptBelow(j, D))
      /\ Cardinality(KeptBelow(i, D)) \in Nat
      /\ Cardinality(KeptBelow(j, D)) \in Nat
    BY KeptBelowIsFinite
<1>4. /\ Cardinality(KeptBelow(i, D)) <= Cardinality(KeptBelow(j, D))
      /\ Cardinality(KeptBelow(j, D)) = Cardinality(KeptBelow(i, D))
            => KeptBelow(j, D) = KeptBelow(i, D)
    BY <1>1, <1>3, FS_Subset
<1>5. QED
    BY <1>2, <1>3, <1>4

\* Two kept indices with as many kept indices below are one.
LEMMA KeptBelowIsOneToOne ==
    ASSUME NEW i \in Nat, NEW j \in Nat, NEW D, i \notin D, j \notin D,
           Cardinality(KeptBelow(i, D)) = Cardinality(KeptBelow(j, D))
    PROVE  i = j
<1>1. /\ Cardinality(KeptBelow(i, D)) \in Nat
      /\ Cardinality(KeptBelow(j, D)) \in Nat
    BY KeptBelowIsFinite
<1>2. ~ (i < j) /\ ~ (j < i)
    BY <1>1, KeptBelowGrows
<1>3. QED
    BY <1>2

\* mapping_after_deletion() is NO_ID exactly on the deleted elements, and
\* on the kept ones it is one-to-one and below their number.
THEOREM MappingIsOneToOne ==
    ASSUME NEW n \in Nat, NEW D,
           NEW i \in IndexRange(n) \ D, NEW j \in IndexRange(n) \ D
    PROVE  LET old2new == MappingAfterDeletion(n, D)
               kept == IndexRange(n) \ D
           IN  /\ old2new[i] \in IndexRange(Cardinality(kept))
               /\ old2new[i] = old2new[j] => i = j
<1> DEFINE old2new == MappingAfterDeletion(n, D)
           kept == IndexRange(n) \ D
<1>1. i \in Nat /\ j \in Nat /\ i < n
    BY DEF IndexRange
<1>2. /\ old2new[i] = Cardinality(KeptBelow(i, D))
      /\ old2new[j] = Cardinality(KeptBelow(j, D))
    BY DEF MappingAfterDeletion
<1>3. kept = KeptBelow(n, D)
    BY DEF KeptBelow
<1>4. Cardinality(KeptBelow(i, D)) < Cardinality(KeptBelow(n, D))
    BY <1>1, KeptBelowGrows
<1>5. /\ Cardinality(KeptBelow(i, D)) \in Nat
      /\ Cardinality(KeptBelow(n, D)) \in Nat
    BY <1>1, KeptBelowIsFinite
<1>6. old2new[i] \in IndexRange(Cardinality(kept))
    BY <1>2, <1>3, <1>4, <1>5 DEF IndexRange
<1>7. old2new[i] = old2new[j] => i = j
    BY <1>1, <1>2, KeptBelowIsOneToOne
<1>8. QED
    BY <1>6, <1>7

\* delete_vector_elements() leaves at old2new[i] what was at i, for every
\* kept i: a vector and the indices stored elsewhere move together.
THEOREM DeletedVectorFollowsMapping ==
    ASSUME NEW n \in Nat, NEW D, NEW f, DOMAIN f = IndexRange(n),
           NEW i \in IndexRange(n) \ D
    PROVE  LET index == MappingAfterDeletion(n, D)[i]
           IN  /\ index \in DOMAIN DeleteElements(f, D)
               /\ DeleteElements(f, D)[index] = f[i]
<1> DEFINE index == MappingAfterDeletion(n, D)[i]
           kept == IndexRange(n) \ D
           source(k) == CHOOSE j \in kept : Cardinality(KeptBelow(j, D)) = k
<1>1. index \in IndexRange(Cardinality(kept))
    BY MappingIsOneToOne
<1>2. index = Cardinality(KeptBelow(i, D))
    BY DEF MappingAfterDeletion
<1>3. /\ source(index) \in kept
      /\ Cardinality(KeptBelow(source(index), D)) = index
    BY <1>2
<1>4. kept \subseteq Nat
    BY DEF IndexRange
<1>5. source(index) = i
    <2> HIDE DEF source
    <2>1. source(index) \in Nat /\ source(index) \notin D
        BY <1>3, <1>4
    <2>2. i \in Nat /\ i \notin D
        BY <1>4
    <2>3. QED
        BY <1>2, <1>3, <2>1, <2>2, KeptBelowIsOneToOne
<1>6. DeleteElements(f, D) =
        [k \in IndexRange(Cardinality(kept)) |-> f[source(k)]]
    BY DEF DeleteElements
<1>7. QED
    <2> HIDE DEF source, index, kept
    <2>1. /\ index \in DOMAIN DeleteElements(f, D)
          /\ DeleteElements(f, D)[index] = f[source(index)]
        BY <1>1, <1>6
    <2>2. QED
        BY <1>5, <2>1 DEF index

-----------------------------------------------------------------------------
\* old2new_permutation() inverts the permutation, on both sides.
THEOREM Old2NewInvertsPermutation ==
    ASSUME NEW S, NEW permutation \in Bijection(S, S), NEW i \in S
    PROVE  LET old2new == Old2NewPermutation(permutation)
           IN  /\ old2new \in [S -> S]
               /\ old2new[permutation[i]] = i
               /\ permutation[old2new[i]] = i
<1> DEFINE old2new == Old2NewPermutation(permutation)
           place(j) == CHOOSE k \in S : permutation[k] = j
<1>1. /\ permutation \in [S -> S]
      /\ \A a, b \in S : permutation[a] = permutation[b] => a = b
      /\ \A j \in S : \E k \in S : permutation[k] = j
    BY DEF Bijection, Injection, IsInjective, Surjection
<1>2. old2new = [j \in S |-> place(j)]
    BY <1>1 DEF Old2NewPermutation
<1>3. \A j \in S : place(j) \in S /\ permutation[place(j)] = j
    BY <1>1
<1>4. QED
    <2> HIDE DEF place
    <2>1. old2new \in [S -> S]
        BY <1>2, <1>3
    <2>2. permutation[old2new[i]] = i
        BY <1>2, <1>3
    <2>3. old2new[permutation[i]] = i
        BY <1>1, <1>2, <1>3
    <2>4. QED
        BY <2>1, <2>2, <2>3

\* permute() leaves at old2new[i] what was at i.
THEOREM PermutedVectorFollowsMapping ==
    ASSUME NEW S, NEW permutation \in Bijection(S, S),
           NEW f, DOMAIN f = S, NEW i \in S
    PROVE  PermuteElements(f, permutation)[Old2NewPermutation(permutation)[i]]
               = f[i]
<1>1. Old2NewPermutation(permutation)[i] \in S
    BY Old2NewInvertsPermutation
<1>2. permutation[Old2NewPermutation(permutation)[i]] = i
    BY Old2NewInvertsPermutation
<1>3. QED
    BY <1>1, <1>2 DEF PermuteElements

-----------------------------------------------------------------------------
\* A vector of n elements has size n.
LEMMA SizeOfVector ==
    ASSUME NEW n \in Nat
    PROVE  /\ IsFiniteSet(IndexRange(n))
           /\ Cardinality(IndexRange(n)) = n
           /\ \A f : DOMAIN f = IndexRange(n) => Size(f) = n
<1>1. 0 \in Int /\ n - 1 \in Int
    OBVIOUS
<1>2. IsFiniteSet(0 .. n - 1)
      /\ Cardinality(0 .. n - 1) = IF 0 > n - 1 THEN 0 ELSE n - 1 - 0 + 1
    BY <1>1, FS_Interval
<1>3. IsFiniteSet(IndexRange(n)) /\ Cardinality(IndexRange(n)) = n
    BY <1>2 DEF IndexRange
<1>4. QED
    BY <1>3 DEF Size

\* A vector that gets one more element keeps the others at their indices.
LEMMA AppendedVector ==
    ASSUME NEW n \in Nat, NEW f, DOMAIN f = IndexRange(n), NEW value
    PROVE  /\ Size(f) = n
           /\ DOMAIN AppendElement(f, value) = IndexRange(n + 1)
           /\ AppendElement(f, value)[n] = value
           /\ \A i \in IndexRange(n) : AppendElement(f, value)[i] = f[i]
           /\ IndexRange(n + 1) = IndexRange(n) \cup {n}
           /\ n \notin IndexRange(n)
<1>1. Size(f) = n
    BY SizeOfVector
<1>2. IndexRange(n + 1) = IndexRange(n) \cup {n} /\ n \notin IndexRange(n)
    BY DEF IndexRange
<1>3. AppendElement(f, value) =
        [i \in IndexRange(n + 1) |-> IF i = n THEN value ELSE f[i]]
    BY <1>1 DEF AppendElement
<1>4. QED
    BY <1>1, <1>2, <1>3

\* As many elements are kept as the compacted vectors have.
LEMMA DeletedVectorSize ==
    ASSUME NEW n \in Nat, NEW D, NEW f, DOMAIN f = IndexRange(n)
    PROVE  LET count == Cardinality(IndexRange(n) \ D)
           IN  /\ count \in Nat
               /\ IsFiniteSet(IndexRange(n) \ D)
               /\ DOMAIN DeleteElements(f, D) = IndexRange(count)
               /\ Size(DeleteElements(f, D)) = count
<1> DEFINE count == Cardinality(IndexRange(n) \ D)
<1>1. count \in Nat /\ IsFiniteSet(IndexRange(n) \ D)
    BY KeptBelowIsFinite DEF KeptBelow
<1>2. DOMAIN DeleteElements(f, D) = IndexRange(count)
    BY DEF DeleteElements
<1>3. QED
    <2> HIDE DEF count
    <2>1. Size(DeleteElements(f, D)) = count
        BY <1>1, <1>2, SizeOfVector
    <2>2. QED
        BY <1>1, <1>2, <2>1 DEF count

\* No index is skipped: every index of a compacted vector is old2new of an
\* element that was kept, and holds what was stored there.
THEOREM DeletedVectorComesFromKept ==
    ASSUME NEW n \in Nat, NEW D, NEW f, DOMAIN f = IndexRange(n),
           NEW k \in IndexRange(Cardinality(IndexRange(n) \ D))
    PROVE  \E i \in IndexRange(n) \ D :
               /\ MappingAfterDeletion(n, D)[i] = k
               /\ DeleteElements(f, D)[k] = f[i]
<1> DEFINE kept == IndexRange(n) \ D
           indices == IndexRange(Cardinality(kept))
           old2new == [i \in kept |-> MappingAfterDeletion(n, D)[i]]
<1>1. Cardinality(kept) \in Nat /\ IsFiniteSet(kept)
    BY DeletedVectorSize
<1>2. IsFiniteSet(indices) /\ Cardinality(indices) = Cardinality(kept)
    BY <1>1, SizeOfVector
<1>3. \A i, j \in kept : /\ old2new[i] \in indices
                         /\ old2new[i] = old2new[j] => i = j
    BY MappingIsOneToOne
<1>4. old2new \in Injection(kept, indices)
    <2> HIDE DEF kept, indices
    <2>1. old2new \in [kept -> indices]
        BY <1>3
    <2>2. QED
        BY <1>3, <2>1 DEF Injection, IsInjective
<1>5. old2new \in Surjection(kept, indices)
    <2> HIDE DEF kept, indices, old2new
    <2>1. QED
        BY <1>2, <1>4, FS_Injection
<1>6. PICK i \in kept : old2new[i] = k
    BY <1>5 DEF Surjection
<1>7. MappingAfterDeletion(n, D)[i] = k
    BY <1>6
<1>8. DeleteElements(f, D)[k] = f[i]
    BY <1>7, DeletedVectorFollowsMapping
<1>9. QED
    BY <1>7, <1>8

\* A permutation of finitely many indices, no two to one place, reaches all.
LEMMA PermutationIsBijection ==
    ASSUME NEW S, IsFiniteSet(S), NEW permutation \in [S -> S],
           \A i, j \in S : permutation[i] = permutation[j] => i = j
    PROVE  permutation \in Bijection(S, S)
<1>1. permutation \in Injection(S, S)
    BY DEF Injection, IsInjective
<1>2. permutation \in Surjection(S, S)
    BY <1>1, FS_Injection
<1>3. QED
    BY <1>1, <1>2 DEF Bijection


-----------------------------------------------------------------------------
\* Vectors of names that are all different stay so.
LEMMA AppendedNames ==
    ASSUME NEW n \in Nat, NEW S, NEW f \in Injection(IndexRange(n), S),
           NEW name \in S, \A i \in IndexRange(n) : f[i] # name
    PROVE  AppendElement(f, name) \in Injection(IndexRange(n + 1), S)
<1> DEFINE g == AppendElement(f, name)
<1>1. /\ f \in [IndexRange(n) -> S]
      /\ \A i, j \in IndexRange(n) : f[i] = f[j] => i = j
    BY DEF Injection, IsInjective
<1>2. /\ DOMAIN g = IndexRange(n + 1)
      /\ g[n] = name
      /\ \A i \in IndexRange(n) : g[i] = f[i]
      /\ IndexRange(n + 1) = IndexRange(n) \cup {n}
    BY <1>1, AppendedVector
<1>3. g = [i \in IndexRange(n + 1) |-> g[i]]
    BY <1>2 DEF AppendElement
<1> HIDE DEF g
<1>4. g \in [IndexRange(n + 1) -> S]
    BY <1>1, <1>2, <1>3
<1>5. \A i, j \in IndexRange(n + 1) : g[i] = g[j] => i = j
    BY <1>1, <1>2
<1>6. g \in Injection(IndexRange(n + 1), S)
    BY <1>4, <1>5 DEF Injection, IsInjective
<1>7. QED
    BY <1>6 DEF g

LEMMA DeletedNames ==
    ASSUME NEW n \in Nat, NEW D, NEW S, NEW f \in Injection(IndexRange(n), S)
    PROVE  LET kept == IndexRange(n) \ D
               indices == IndexRange(Cardinality(kept))
               g == DeleteElements(f, D)
           IN  g \in Injection(indices, S)
<1> DEFINE kept == IndexRange(n) \ D
           indices == IndexRange(Cardinality(kept))
           g == DeleteElements(f, D)
           old2new == MappingAfterDeletion(n, D)
<1>1. /\ f \in [IndexRange(n) -> S]
      /\ \A i, j \in IndexRange(n) : f[i] = f[j] => i = j
    BY DEF Injection, IsInjective
<1>2. g = [k \in indices |-> g[k]]
    BY <1>1 DEF DeleteElements
<1>3. ASSUME NEW k \in indices
      PROVE  \E i \in kept : old2new[i] = k /\ g[k] = f[i]
    BY <1>1, DeletedVectorComesFromKept
<1>4. kept \subseteq IndexRange(n)
    OBVIOUS
<1> HIDE DEF kept, indices, g, old2new
<1>5. g \in [indices -> S]
    BY <1>1, <1>2, <1>3, <1>4
<1>6. ASSUME NEW k \in indices, NEW l \in indices, g[k] = g[l]
      PROVE  k = l
    <2>1. PICK i \in kept : old2new[i] = k /\ g[k] = f[i]
        BY <1>3
    <2>2. PICK j \in kept : old2new[j] = l /\ g[l] = f[j]
        BY <1>3
    <2>3. i = j
        BY <1>1, <1>4, <1>6, <2>1, <2>2
    <2>4. QED
        BY <2>1, <2>2, <2>3
<1>7. g \in Injection(indices, S)
    BY <1>5, <1>6 DEF Injection, IsInjective
<1>8. QED
    BY <1>7 DEF g, indices, kept

LEMMA PermutedNames ==
    ASSUME NEW A, NEW permutation \in Bijection(A, A),
           NEW S, NEW f \in Injection(A, S)
    PROVE  PermuteElements(f, permutation) \in Injection(A, S)
<1>1. /\ f \in [A -> S]
      /\ \A i, j \in A : f[i] = f[j] => i = j
      /\ permutation \in [A -> A]
      /\ \A i, j \in A : permutation[i] = permutation[j] => i = j
      /\ \A j \in A : \E i \in A : permutation[i] = j
    BY DEF Bijection, Injection, Surjection, IsInjective
<1>2. PermuteElements(f, permutation) = [i \in A |-> f[permutation[i]]]
    BY <1>1 DEF PermuteElements
<1>3. QED
    BY <1>1, <1>2 DEF Injection, IsInjective

-----------------------------------------------------------------------------
\* A set of numbers that is not empty has a least element.
LEMMA LeastElement ==
    ASSUME NEW S, S \subseteq Nat, S # {}
    PROVE  \E m \in S : \A n \in S : m <= n
<1> DEFINE R == {pair \in Nat \X Nat : pair[1] < pair[2]}
<1>1. IsWellFoundedOn(R, Nat)
    BY NatLessThanWellFounded, Zenon DEF OpToRel
<1>2. PICK m \in S : \A n \in S : ~ (<<n, m>> \in R)
    <2> HIDE DEF R
    <2>1. IsWellFoundedOn(R, S)
        BY <1>1, IsWellFoundedOnSubset
    <2>2. QED
        BY <2>1, WFMin
<1>3. \A n \in S : ~ (n < m)
    BY <1>2
<1>4. QED
    BY <1>3

\* Induction: a set that holds 0, and with each number the next, holds all.
LEMMA SetInduction ==
    ASSUME NEW S, 0 \in S, \A n \in Nat : n \in S => n + 1 \in S
    PROVE  Nat \subseteq S
<1> SUFFICES ASSUME Nat \ S # {}
             PROVE  FALSE
    OBVIOUS
<1>1. PICK m \in Nat \ S : \A n \in Nat \ S : m <= n
    BY LeastElement
<1>2. m - 1 \in Nat /\ m - 1 \in S
    BY <1>1
<1>3. QED
    BY <1>1, <1>2

\* What holds before a loop, and after each of its turns if it did before
\* it, holds at its end.  J[n] is what holds after n turns.
LEMMA LoopInvariant ==
    ASSUME NEW N \in Nat, NEW J, NEW f, f[0] \in J[0],
           \A n \in 1 .. N : f[n - 1] \in J[n - 1] => f[n] \in J[n]
    PROVE  \A n \in 0 .. N : f[n] \in J[n]
<1> DEFINE S == {n \in Nat : n <= N => f[n] \in J[n]}
<1>1. 0 \in S
    OBVIOUS
<1>2. ASSUME NEW n \in Nat, n \in S
      PROVE  n + 1 \in S
    <2>1. (n + 1) - 1 = n
        OBVIOUS
    <2>2. CASE n + 1 <= N
        BY <1>2, <2>1, <2>2
    <2>3. CASE ~ (n + 1 <= N)
        BY <2>3
    <2>4. QED
        BY <2>2, <2>3
<1>3. Nat \subseteq S
    <2> HIDE DEF S
    <2>1. QED
        BY <1>1, <1>2, SetInduction
<1>4. QED
    BY <1>3

\* f says what a loop of N turns has computed after each of them.
RunsLoop(f, N, V, base, step) ==
    /\ f \in [0 .. N -> V]
    /\ f[0] = base
    /\ \A n \in 1 .. N : f[n] = step[<<n, f[n - 1]>>]

\* There is a function that says what a loop of N turns has computed after
\* each of them, when a turn leads from V to V.
LEMMA LoopIsDefined ==
    ASSUME NEW N \in Nat, NEW V, NEW base \in V,
           NEW step \in [(1 .. N) \X V -> V]
    PROVE  \E f : RunsLoop(f, N, V, base, step)
<1> DEFINE Computes(f, n) ==
              /\ f \in [0 .. n -> V]
              /\ f[0] = base
              /\ \A k \in 1 .. n : f[k] = step[<<k, f[k - 1]>>]
           S == {n \in Nat : n <= N => \E f : Computes(f, n)}
<1>1. 0 \in S
    <2> DEFINE f == [n \in 0 .. 0 |-> base]
    <2>1. Computes(f, 0)
        OBVIOUS
    <2>2. QED
        BY <2>1
<1>2. ASSUME NEW n \in Nat, n \in S
      PROVE  n + 1 \in S
    <2> SUFFICES ASSUME n + 1 <= N
                 PROVE  \E f : Computes(f, n + 1)
        OBVIOUS
    <2>1. PICK f : Computes(f, n)
        BY <1>2
    <2> DEFINE g == [k \in 0 .. n + 1 |->
                        IF k = n + 1 THEN step[<<n + 1, f[n]>>] ELSE f[k]]
    <2>2. f[n] \in V /\ n + 1 \in 1 .. N
        BY <2>1
    <2>3. step[<<n + 1, f[n]>>] \in V
        BY <2>2
    <2>4. g \in [0 .. n + 1 -> V]
        BY <2>1, <2>3
    <2>5. g[0] = base
        BY <2>1
    <2>6. \A k \in 1 .. n + 1 : g[k] = step[<<k, g[k - 1]>>]
        <3> SUFFICES ASSUME NEW k \in 1 .. n + 1
                     PROVE  g[k] = step[<<k, g[k - 1]>>]
            OBVIOUS
        <3>1. g[k - 1] = f[k - 1]
            <4>1. k - 1 \in 0 .. n + 1 /\ k - 1 # n + 1
                OBVIOUS
            <4>2. QED
                BY <4>1
        <3>2. CASE k = n + 1
            <4>1. k - 1 = n
                BY <3>2
            <4>2. g[k] = step[<<n + 1, f[n]>>]
                BY <3>2
            <4>3. QED
                BY <3>1, <3>2, <4>1, <4>2
        <3>3. CASE k # n + 1
            BY <2>1, <3>1, <3>3
        <3>4. QED
            BY <3>2, <3>3
    <2>7. Computes(g, n + 1)
        BY <2>4, <2>5, <2>6
    <2>8. QED
        BY <2>7
<1>3. Nat \subseteq S
    <2> HIDE DEF S
    <2>1. QED
        BY <1>1, <1>2, SetInduction
<1>4. \E f : Computes(f, N)
    BY <1>3
<1>5. QED
    BY <1>4 DEF RunsLoop

-----------------------------------------------------------------------------
\* No element is in a list twice.
NoRepeat(list) == \A i, j \in DOMAIN list : list[i] = list[j] => i = j

\* A list without the element at one place.
LEMMA RemovedAt ==
    ASSUME NEW S, NEW list \in Seq(S), NEW place \in 1 .. Len(list)
    PROVE  /\ RemoveAt(list, place) \in Seq(S)
           /\ Len(RemoveAt(list, place)) = Len(list) - 1
           /\ \A i \in 1 .. Len(list) - 1 : RemoveAt(list, place)[i] =
                IF i < place THEN list[i] ELSE list[i + 1]
<1> DEFINE before == SubSeq(list, 1, place - 1)
           after == SubSeq(list, place + 1, Len(list))
<1>1. /\ before \in Seq(S)
      /\ Len(before) = place - 1
      /\ \A i \in 1 .. place - 1 : before[i] = list[i]
    BY SubSeqProperties
<1>2. /\ after \in Seq(S)
      /\ Len(after) = Len(list) - place
      /\ \A i \in 1 .. Len(list) - place : after[i] = list[place + i]
    BY SubSeqProperties
<1>3. RemoveAt(list, place) = before \o after
    BY DEF RemoveAt
<1> HIDE DEF before, after
<1>4. /\ before \o after \in Seq(S)
      /\ Len(before \o after) = Len(before) + Len(after)
      /\ \A i \in 1 .. Len(before) + Len(after) : (before \o after)[i] =
            IF i <= Len(before) THEN before[i] ELSE after[i - Len(before)]
    BY <1>1, <1>2, ConcatProperties
<1>5. Len(before) + Len(after) = Len(list) - 1
    BY <1>1, <1>2
<1>6. ASSUME NEW i \in 1 .. Len(list) - 1
      PROVE  (before \o after)[i] = IF i < place THEN list[i] ELSE list[i + 1]
    <2>1. CASE i < place
        BY <1>1, <1>4, <1>5, <2>1
    <2>2. CASE ~ (i < place)
        <3>1. /\ i - (place - 1) \in 1 .. Len(list) - place
              /\ place + (i - (place - 1)) = i + 1
            BY <2>2
        <3>2. (before \o after)[i] = after[i - (place - 1)]
            BY <1>1, <1>4, <1>5, <2>2
        <3>3. QED
            BY <1>2, <2>2, <3>1, <3>2
    <2>3. QED
        BY <2>1, <2>2
<1>7. QED
    BY <1>3, <1>4, <1>5, <1>6

\* RemoveFirst() removes the element at one place.
LEMMA FirstIsAtAPlace ==
    ASSUME NEW S, NEW list \in Seq(S), NEW x, x \in ToSet(list)
    PROVE  \E place \in 1 .. Len(list) :
              /\ list[place] = x
              /\ RemoveFirst(list, x) = RemoveAt(list, place)
<1> DEFINE I == {i \in 1 .. Len(list) : list[i] = x}
<1>1. I \subseteq Nat /\ I # {}
    BY DEF ToSet
<1>2. RemoveFirst(list, x) = RemoveAt(list, Min(I))
    <2>1. \E i \in 1 .. Len(list) : list[i] = x
        BY <1>1
    <2>2. SelectInSeq(list, LAMBDA y : y = x) = Min(I)
        BY <1>1, Zenon DEF SelectInSeq
    <2>3. RemoveFirst(list, x)
            = RemoveAt(list, SelectInSeq(list, LAMBDA y : y = x))
        BY <2>1, Zenon DEF RemoveFirst
    <2>4. QED
        BY <2>2, <2>3, Zenon
<1>3. Min(I) \in I
    <2>1. \E m \in I : \A n \in I : m <= n
        <3> HIDE DEF I
        <3>1. QED
            BY <1>1, LeastElement
    <2>2. QED
        BY <2>1 DEF Min
<1>4. QED
    BY <1>2, <1>3

\* RemoveFirst() takes out the element, which is in the list once at most, and
\* nothing else.
LEMMA RemovedFromList ==
    ASSUME NEW S, NEW list \in Seq(S), NoRepeat(list), NEW x
    PROVE  /\ RemoveFirst(list, x) \in Seq(S)
           /\ NoRepeat(RemoveFirst(list, x))
           /\ ToSet(RemoveFirst(list, x)) = ToSet(list) \ {x}
           /\ x \notin ToSet(list) => RemoveFirst(list, x) = list
<1>1. CASE x \notin ToSet(list)
    <2>1. ~ \E i \in 1 .. Len(list) : list[i] = x
        BY <1>1 DEF ToSet
    <2>2. RemoveFirst(list, x) = list
        BY <2>1, Zenon DEF RemoveFirst
    <2>3. QED
        BY <1>1, <2>2
<1>2. CASE x \in ToSet(list)
    <2>1. PICK place \in 1 .. Len(list) :
            list[place] = x /\ RemoveFirst(list, x) = RemoveAt(list, place)
        BY <1>2, FirstIsAtAPlace
    <2> DEFINE shorter == RemoveAt(list, place)
    <2>2. /\ shorter \in Seq(S)
          /\ Len(shorter) = Len(list) - 1
          /\ \A i \in 1 .. Len(list) - 1 :
                shorter[i] = IF i < place THEN list[i] ELSE list[i + 1]
        BY RemovedAt
    <2> HIDE DEF shorter
    <2>3. DOMAIN shorter = 1 .. Len(list) - 1 /\ DOMAIN list = 1 .. Len(list)
        BY <2>2
    <2>4. NoRepeat(shorter)
        <3> DEFINE at(k) == IF k < place THEN k ELSE k + 1
        <3>1. \A k \in 1 .. Len(list) - 1 :
                at(k) \in 1 .. Len(list) /\ shorter[k] = list[at(k)]
            BY <2>2
        <3>2. \A k, l \in 1 .. Len(list) - 1 : at(k) = at(l) => k = l
            OBVIOUS
        <3> HIDE DEF at
        <3>3. QED
            BY <2>3, <3>1, <3>2 DEF NoRepeat
    <2>5. ASSUME NEW i \in 1 .. Len(list) - 1
          PROVE  shorter[i] \in ToSet(list) \ {x}
        <3>1. \E j \in 1 .. Len(list) : j # place /\ shorter[i] = list[j]
            BY <2>2
        <3>2. QED
            BY <2>1, <2>3, <3>1 DEF NoRepeat, ToSet
    <2>6. ASSUME NEW i \in 1 .. Len(list), list[i] # x
          PROVE  list[i] \in ToSet(shorter)
        <3>1. CASE i < place
            <4>1. i \in 1 .. Len(list) - 1 /\ shorter[i] = list[i]
                BY <2>2, <3>1
            <4>2. QED
                BY <2>3, <4>1 DEF ToSet
        <3>2. CASE i > place
            <4>1. i - 1 \in 1 .. Len(list) - 1 /\ shorter[i - 1] = list[i]
                BY <2>2, <3>2
            <4>2. QED
                BY <2>3, <4>1 DEF ToSet
        <3>3. QED
            BY <2>1, <2>6, <3>1, <3>2
    <2>7. ToSet(shorter) = ToSet(list) \ {x}
        BY <2>3, <2>5, <2>6 DEF ToSet
    <2>8. QED
        BY <1>2, <2>1, <2>2, <2>4, <2>7 DEF shorter
<1>3. QED
    BY <1>1, <1>2

\* An element that is not in a list is added to it.
LEMMA AddedToList ==
    ASSUME NEW S, NEW list \in Seq(S), NoRepeat(list), NEW x \in S,
           x \notin ToSet(list)
    PROVE  /\ Append(list, x) \in Seq(S)
           /\ NoRepeat(Append(list, x))
           /\ ToSet(Append(list, x)) = ToSet(list) \cup {x}
<1> DEFINE longer == Append(list, x)
<1>1. /\ longer \in Seq(S)
      /\ Len(longer) = Len(list) + 1
      /\ \A i \in 1 .. Len(list) : longer[i] = list[i]
      /\ longer[Len(list) + 1] = x
    BY AppendProperties
<1> HIDE DEF longer
<1>2. NoRepeat(longer)
    BY <1>1 DEF NoRepeat, ToSet
<1>3. ToSet(longer) = ToSet(list) \cup {x}
    BY <1>1 DEF ToSet
<1>4. QED
    BY <1>1, <1>2, <1>3 DEF longer

-----------------------------------------------------------------------------
\* The graphs with ne edges, nv vertices, and ends in a set.
GraphsOf(ne, nv, Ends, EdgeLabels, VertexLabels) ==
    [edges : [IndexRange(ne) -> [Sides -> Ends]],
     elabel : [IndexRange(ne) -> EdgeLabels],
     around : [IndexRange(nv) -> Seq(IndexRange(ne) \X Sides)],
     vlabel : [IndexRange(nv) -> VertexLabels]]

\* The list of every vertex of b is that of a, without repetition, where the
\* extremity ev is left out at the vertex u.
LeavesList(a, b, nv, ev, u) ==
    \A w \in IndexRange(nv) :
        /\ NoRepeat(b.around[w])
        /\ \A x : x \in ToSet(b.around[w]) <=>
                    (x \in ToSet(a.around[w]) /\ ~ (w = u /\ x = ev))

\* The same, where ev is in the list of the vertex v.
EntersList(a, b, nv, ev, v) ==
    \A w \in IndexRange(nv) :
        /\ NoRepeat(b.around[w])
        /\ \A x : x \in ToSet(b.around[w]) <=>
                    (x \in ToSet(a.around[w]) \/ (w = v /\ x = ev))

\* An extremity leaves the list of its vertex, if it has one and is there.
LEMMA DisassociatedGraph ==
    ASSUME NEW ne \in Nat, NEW nv \in Nat, NEW Ends, NEW EL, NEW VL,
           NEW g \in GraphsOf(ne, nv, Ends, EL, VL),
           \A w \in IndexRange(nv) : NoRepeat(g.around[w]),
           NEW ev \in IndexRange(ne) \X Sides
    PROVE  LET h == Disassociate(g, ev)
           IN  /\ h \in GraphsOf(ne, nv, Ends, EL, VL)
               /\ h = [edges |-> g.edges, elabel |-> g.elabel,
                       around |-> h.around, vlabel |-> g.vlabel]
               /\ LeavesList(g, h, nv, ev, VertexAt(g, ev))
               /\ (VertexAt(g, ev) \in IndexRange(nv) =>
                        ev \notin ToSet(g.around[VertexAt(g, ev)]))
                    => h = g
<1> DEFINE S == IndexRange(ne) \X Sides
           previous == VertexAt(g, ev)
           h == Disassociate(g, ev)
           shorter == RemoveFirst(g.around[previous], ev)
           around == [g.around EXCEPT ![previous] = shorter]
<1>1. /\ g = [edges |-> g.edges, elabel |-> g.elabel,
              around |-> g.around, vlabel |-> g.vlabel]
      /\ g.edges \in [IndexRange(ne) -> [Sides -> Ends]]
      /\ g.elabel \in [IndexRange(ne) -> EL]
      /\ g.around \in [IndexRange(nv) -> Seq(S)]
      /\ g.vlabel \in [IndexRange(nv) -> VL]
    BY DEF GraphsOf
<1>2. CASE previous \notin IndexRange(nv)
    <2>1. h = g
        BY <1>1, <1>2 DEF Disassociate, GraphVertices
    <2> HIDE DEF h, previous
    <2>2. LeavesList(g, h, nv, ev, previous)
        BY <1>2, <2>1 DEF LeavesList
    <2>3. QED
        BY <1>1, <2>1, <2>2 DEF h, previous
<1>3. CASE previous \in IndexRange(nv)
    <2>1. /\ shorter \in Seq(S)
          /\ NoRepeat(shorter)
          /\ ToSet(shorter) = ToSet(g.around[previous]) \ {ev}
          /\ ev \notin ToSet(g.around[previous]) =>
                shorter = g.around[previous]
        BY <1>1, <1>3, RemovedFromList
    <2>2. h = [g EXCEPT !.around[previous] = shorter]
        BY <1>1, <1>3 DEF Disassociate, GraphVertices
    <2> HIDE DEF shorter, previous
    <2>3. h = [edges |-> g.edges, elabel |-> g.elabel,
               around |-> around, vlabel |-> g.vlabel]
        BY <1>1, <2>2
    <2>4. around \in [IndexRange(nv) -> Seq(S)]
        BY <1>1, <2>1
    <2>5. ASSUME NEW w \in IndexRange(nv)
          PROVE  around[w] = IF w = previous THEN shorter ELSE g.around[w]
        BY <1>1
    <2>6. ev \notin ToSet(g.around[previous]) => around = g.around
        BY <1>1, <2>1
    <2> HIDE DEF around, h
    <2>7. h \in GraphsOf(ne, nv, Ends, EL, VL)
        BY <1>1, <2>3, <2>4 DEF GraphsOf
    <2>8. h.around = around
        BY <2>3
    <2>9. h = [edges |-> g.edges, elabel |-> g.elabel,
               around |-> h.around, vlabel |-> g.vlabel]
        BY <2>3, <2>8
    <2>10. ev \notin ToSet(g.around[previous]) => h = g
        BY <1>1, <2>3, <2>6
    <2>11. LeavesList(g, h, nv, ev, previous)
        BY <2>1, <2>5, <2>8 DEF LeavesList
    <2>12. QED
        BY <1>3, <2>7, <2>9, <2>10, <2>11 DEF h, previous
<1>4. QED
    BY <1>2, <1>3

\* An extremity is added to the list of a vertex, where it is not yet.
LEMMA AssociatedGraph ==
    ASSUME NEW ne \in Nat, NEW nv \in Nat, NEW Ends, NEW EL, NEW VL,
           NEW g \in GraphsOf(ne, nv, Ends, EL, VL),
           \A w \in IndexRange(nv) : NoRepeat(g.around[w]),
           NEW ev \in IndexRange(ne) \X Sides, NEW v \in IndexRange(nv)
    PROVE  LET d == Disassociate(g, ev)
               a == Associate(g, ev, v)
           IN  /\ a \in GraphsOf(ne, nv, Ends, EL, VL)
               /\ a = [edges |-> g.edges, elabel |-> g.elabel,
                       around |-> a.around, vlabel |-> g.vlabel]
               /\ EntersList(d, a, nv, ev, v)
               /\ ev \in ToSet(d.around[v]) => a = d
<1> DEFINE S == IndexRange(ne) \X Sides
           d == Disassociate(g, ev)
           a == Associate(g, ev, v)
           longer == Append(d.around[v], ev)
           around == [d.around EXCEPT ![v] = longer]
<1>1. /\ d \in GraphsOf(ne, nv, Ends, EL, VL)
      /\ d = [edges |-> g.edges, elabel |-> g.elabel,
              around |-> d.around, vlabel |-> g.vlabel]
      /\ LeavesList(g, d, nv, ev, VertexAt(g, ev))
    BY DisassociatedGraph
<1>2. \A w \in IndexRange(nv) : NoRepeat(d.around[w])
    <2> HIDE DEF d
    <2>1. QED
        BY <1>1 DEF LeavesList
<1>3. CASE ev \in ToSet(d.around[v])
    <2>1. a = d
        BY <1>3 DEF Associate, AddToList
    <2> HIDE DEF a, d
    <2>2. EntersList(d, a, nv, ev, v)
        BY <1>3, <1>2, <2>1 DEF EntersList
    <2>3. QED
        BY <1>1, <2>1, <2>2 DEF a, d
<1>4. CASE ev \notin ToSet(d.around[v])
    <2>1. a = [d EXCEPT !.around[v] = longer]
        BY <1>4 DEF Associate, AddToList
    <2> HIDE DEF a, d
    <2>2. /\ d.edges \in [IndexRange(ne) -> [Sides -> Ends]]
          /\ d.elabel \in [IndexRange(ne) -> EL]
          /\ d.around \in [IndexRange(nv) -> Seq(S)]
          /\ d.vlabel \in [IndexRange(nv) -> VL]
        BY <1>1 DEF GraphsOf
    <2>3. /\ longer \in Seq(S)
          /\ NoRepeat(longer)
          /\ ToSet(longer) = ToSet(d.around[v]) \cup {ev}
        <3> DEFINE list == d.around[v]
        <3>1. list \in Seq(S) /\ NoRepeat(list) /\ ev \in S
            BY <1>2, <2>2
        <3>2. ev \notin ToSet(list) /\ longer = Append(list, ev)
            BY <1>4
        <3> HIDE DEF list, longer, S
        <3>3. QED
            BY <3>1, <3>2, AddedToList DEF list
    <2> HIDE DEF longer
    <2>4. a = [edges |-> g.edges, elabel |-> g.elabel,
               around |-> around, vlabel |-> g.vlabel]
        BY <1>1, <2>1
    <2>5. around \in [IndexRange(nv) -> Seq(S)]
        BY <2>2, <2>3
    <2>6. \A w \in IndexRange(nv) :
            around[w] = IF w = v THEN longer ELSE d.around[w]
        BY <2>2
    <2> HIDE DEF around
    <2>7. a.around = around
        BY <2>4
    <2>8. a \in GraphsOf(ne, nv, Ends, EL, VL)
        <3>1. /\ d.edges = g.edges
              /\ d.elabel = g.elabel
              /\ d.vlabel = g.vlabel
            BY <1>1
        <3>2. QED
            BY <2>2, <2>4, <2>5, <3>1 DEF GraphsOf
    <2>9. a = [edges |-> g.edges, elabel |-> g.elabel,
               around |-> a.around, vlabel |-> g.vlabel]
        BY <2>4, <2>7
    <2>10. EntersList(d, a, nv, ev, v)
        BY <1>2, <2>3, <2>6, <2>7 DEF EntersList
    <2>11. QED
        BY <1>4, <2>8, <2>9, <2>10 DEF a, d
<1>5. QED
    BY <1>3, <1>4

\* The attribute "edges" where the end ev is v.
WithEnd(edges, ev, v) == [edges EXCEPT ![ev[1]][ev[2]] = v]

\* The list of every vertex of b is that of a, except that the extremity ev has
\* moved from the vertex u to the vertex v.
MovesInLists(a, b, nv, ev, u, v) ==
    \A w \in IndexRange(nv) :
        /\ NoRepeat(b.around[w])
        /\ \A x : x \in ToSet(b.around[w]) <=>
                    \/ w = v /\ x = ev
                    \/ x \in ToSet(a.around[w]) /\ ~ (w = u /\ x = ev)

\* set_edge_vertex() moves one extremity: in the attribute of the edge and from
\* one list to the other.
LEMMA MovedExtremity ==
    ASSUME NEW ne \in Nat, NEW nv \in Nat, NEW Ends, NEW EL, NEW VL,
           NEW g \in GraphsOf(ne, nv, Ends, EL, VL),
           \A w \in IndexRange(nv) : NoRepeat(g.around[w]),
           NEW ev \in IndexRange(ne) \X Sides,
           NEW v \in IndexRange(nv), v \in Ends, VertexAt(g, ev) # v
    PROVE  LET h == SetEdgeVertex(g, ev, v)
           IN  /\ h \in GraphsOf(ne, nv, Ends, EL, VL)
               /\ h.edges = WithEnd(g.edges, ev, v)
               /\ h.elabel = g.elabel
               /\ h.vlabel = g.vlabel
               /\ MovesInLists(g, h, nv, ev, VertexAt(g, ev), v)
               /\ /\ ev \in ToSet(g.around[v])
                  /\ VertexAt(g, ev) \in IndexRange(nv) =>
                        ev \notin ToSet(g.around[VertexAt(g, ev)])
                  => h.around = g.around
<1> DEFINE S == IndexRange(ne) \X Sides
           previous == VertexAt(g, ev)
           d == Disassociate(g, ev)
           a == Associate(g, ev, v)
           h == SetEdgeVertex(g, ev, v)
           edges == WithEnd(g.edges, ev, v)
<1>1. /\ LeavesList(g, d, nv, ev, previous)
      /\ (previous \in IndexRange(nv) => ev \notin ToSet(g.around[previous]))
            => d = g
    BY DisassociatedGraph
<1>2. /\ a \in GraphsOf(ne, nv, Ends, EL, VL)
      /\ a = [edges |-> g.edges, elabel |-> g.elabel,
              around |-> a.around, vlabel |-> g.vlabel]
      /\ EntersList(d, a, nv, ev, v)
      /\ ev \in ToSet(d.around[v]) => a = d
    BY AssociatedGraph
<1>3. h = [a EXCEPT !.edges[ev[1]][ev[2]] = v]
    BY DEF SetEdgeVertex, SetEnd
<1>4. edges \in [IndexRange(ne) -> [Sides -> Ends]]
    BY DEF GraphsOf, WithEnd
<1> HIDE DEF h, a, d, previous
<1>5. h = [edges |-> edges, elabel |-> g.elabel,
           around |-> a.around, vlabel |-> g.vlabel]
    BY <1>2, <1>3 DEF WithEnd
<1> HIDE DEF edges
<1>6. h \in GraphsOf(ne, nv, Ends, EL, VL)
    BY <1>2, <1>4, <1>5 DEF GraphsOf
<1>7. /\ h.around = a.around
      /\ h.edges = edges
      /\ h.elabel = g.elabel
      /\ h.vlabel = g.vlabel
    BY <1>5
<1>8. MovesInLists(g, h, nv, ev, previous, v)
    BY <1>1, <1>2, <1>7 DEF LeavesList, EntersList, MovesInLists
<1>9. ASSUME ev \in ToSet(g.around[v]),
             previous \in IndexRange(nv) =>
                ev \notin ToSet(g.around[previous])
      PROVE  h.around = g.around
    <2>1. d = g
        BY <1>1, <1>9
    <2>2. a = d
        BY <1>2, <1>9, <2>1
    <2>3. QED
        BY <1>7, <2>1, <2>2
<1>10. QED
    BY <1>6, <1>7, <1>8, <1>9 DEF h, previous, edges

-----------------------------------------------------------------------------
\* The list of every vertex holds the extremities that the edges have there.
ListsFollowEdges(g, ne, nv) ==
    \A w \in IndexRange(nv) :
        /\ NoRepeat(g.around[w])
        /\ \A x : x \in ToSet(g.around[w]) <=>
                    x \in IndexRange(ne) \X Sides /\ VertexAt(g, x) = w

Ends(nv) == IndexRange(nv) \cup {NoId}

\* The graphs with ne edges and nv vertices that can be.
DualGraphs(ne, nv, EdgeLabels, VertexLabels) ==
    {g \in GraphsOf(ne, nv, Ends(nv), EdgeLabels, VertexLabels) :
        ListsFollowEdges(g, ne, nv)}

\* The lists of such a graph say what its edges say, once each.
LEMMA DualGraphIsDual ==
    ASSUME NEW ne \in Nat, NEW nv \in Nat, NEW EL, NEW VL,
           NEW g \in GraphsOf(ne, nv, Ends(nv), EL, VL)
    PROVE  IsDual(g) <=> ListsFollowEdges(g, ne, nv)
<1>1. GraphVertices(g) = IndexRange(nv) /\ GraphEdges(g) = IndexRange(ne)
    BY DEF GraphsOf, GraphVertices, GraphEdges
<1>2. EdgeVertices(g) = IndexRange(ne) \X Sides
    BY <1>1 DEF EdgeVertices
<1>3. ASSUME NEW w \in IndexRange(nv)
      PROVE  (ToSet(g.around[w]) =
                    {ev \in EdgeVertices(g) : VertexAt(g, ev) = w})
                <=> (\A x : x \in ToSet(g.around[w]) <=>
                        x \in IndexRange(ne) \X Sides /\ VertexAt(g, x) = w)
    BY <1>2
<1>4. QED
    BY <1>1, <1>3 DEF IsDual, ListsFollowEdges, NoRepeat

\* set_edge_vertex() changes one end of an edge and keeps the lists in step.
LEMMA SetKeepsDual ==
    ASSUME NEW ne \in Nat, NEW nv \in Nat, NEW EL, NEW VL,
           NEW g \in DualGraphs(ne, nv, EL, VL),
           NEW ev \in IndexRange(ne) \X Sides, NEW v \in IndexRange(nv)
    PROVE  LET h == SetEdgeVertex(g, ev, v)
           IN  /\ h \in DualGraphs(ne, nv, EL, VL)
               /\ h.edges = WithEnd(g.edges, ev, v)
               /\ h.elabel = g.elabel
               /\ h.vlabel = g.vlabel
<1> DEFINE h == SetEdgeVertex(g, ev, v)
           edges == WithEnd(g.edges, ev, v)
<1>1. /\ g \in GraphsOf(ne, nv, Ends(nv), EL, VL)
      /\ ListsFollowEdges(g, ne, nv)
      /\ g.edges \in [IndexRange(ne) -> [Sides -> Ends(nv)]]
      /\ v \in Ends(nv)
    BY DEF DualGraphs, GraphsOf, Ends
<1>2. CASE VertexAt(g, ev) = v
    <2>1. h = g
        BY <1>2 DEF SetEdgeVertex
    <2>2. edges = g.edges
        BY <1>1, <1>2 DEF VertexAt, WithEnd
    <2>3. QED
        BY <2>1, <2>2
<1>3. CASE VertexAt(g, ev) # v
    <2>1. /\ h \in GraphsOf(ne, nv, Ends(nv), EL, VL)
          /\ h.edges = edges
          /\ h.elabel = g.elabel
          /\ h.vlabel = g.vlabel
          /\ MovesInLists(g, h, nv, ev, VertexAt(g, ev), v)
        <3>1. \A w \in IndexRange(nv) : NoRepeat(g.around[w])
            BY <1>1 DEF ListsFollowEdges
        <3>2. QED
            BY <1>1, <1>3, <3>1, MovedExtremity
    <2>2. \A x \in IndexRange(ne) \X Sides :
            edges[x[1]][x[2]] = IF x = ev THEN v ELSE g.edges[x[1]][x[2]]
        BY <1>1 DEF WithEnd
    <2> HIDE DEF h, edges
    <2>3. \A x \in IndexRange(ne) \X Sides :
            VertexAt(h, x) = IF x = ev THEN v ELSE VertexAt(g, x)
        BY <2>1, <2>2 DEF VertexAt
    <2>4. ListsFollowEdges(h, ne, nv)
        BY <1>1, <1>3, <2>1, <2>3 DEF ListsFollowEdges, MovesInLists
    <2>5. h \in DualGraphs(ne, nv, EL, VL)
        BY <2>1, <2>4 DEF DualGraphs
    <2>6. QED
        BY <2>1, <2>5 DEF h, edges
<1>4. QED
    BY <1>2, <1>3

\* create_vertex() adds a vertex without edges.
LEMMA CreatedVertex ==
    ASSUME NEW ne \in Nat, NEW nv \in Nat, NEW EL, NEW VL,
           NEW g \in DualGraphs(ne, nv, EL, VL), NEW label \in VL
    PROVE  LET h == CreateVertex(g, label)
           IN  /\ h \in DualGraphs(ne, nv + 1, EL, VL)
               /\ h.edges = g.edges
               /\ h.elabel = g.elabel
               /\ h.vlabel = AppendElement(g.vlabel, label)
<1> DEFINE h == CreateVertex(g, label)
           S == IndexRange(ne) \X Sides
           around == AppendElement(g.around, <<>>)
           vlabel == AppendElement(g.vlabel, label)
<1>1. /\ ListsFollowEdges(g, ne, nv)
      /\ g = [edges |-> g.edges, elabel |-> g.elabel,
              around |-> g.around, vlabel |-> g.vlabel]
      /\ g.edges \in [IndexRange(ne) -> [Sides -> Ends(nv)]]
      /\ g.elabel \in [IndexRange(ne) -> EL]
      /\ g.around \in [IndexRange(nv) -> Seq(S)]
      /\ g.vlabel \in [IndexRange(nv) -> VL]
    BY DEF DualGraphs, GraphsOf
<1>2. h = [edges |-> g.edges, elabel |-> g.elabel,
           around |-> around, vlabel |-> vlabel]
    <2>1. h = [g EXCEPT !.around = around, !.vlabel = vlabel]
        BY Zenon DEF CreateVertex
    <2> HIDE DEF h, around, vlabel
    <2>2. QED
        BY <1>1, <2>1
<1>3. /\ around = [i \in IndexRange(nv + 1) |->
                    IF i = nv THEN <<>> ELSE g.around[i]]
      /\ vlabel = [i \in IndexRange(nv + 1) |->
                    IF i = nv THEN label ELSE g.vlabel[i]]
    <2>1. Size(g.around) = nv /\ Size(g.vlabel) = nv
        BY <1>1, SizeOfVector
    <2>2. QED
        BY <2>1 DEF AppendElement
<1>4. IndexRange(nv + 1) = IndexRange(nv) \cup {nv} /\ nv \notin IndexRange(nv)
    BY DEF IndexRange
<1>5. <<>> \in Seq(S) /\ ToSet(<<>>) = {} /\ NoRepeat(<<>>)
    BY DEF ToSet, NoRepeat
<1>6. around \in [IndexRange(nv + 1) -> Seq(S)]
    <2>1. \A i \in IndexRange(nv + 1) :
            (IF i = nv THEN <<>> ELSE g.around[i]) \in Seq(S)
        BY <1>1, <1>4, <1>5
    <2>2. QED
        BY <1>3, <2>1
<1>7. vlabel \in [IndexRange(nv + 1) -> VL]
    BY <1>1, <1>3, <1>4
<1>8. g.edges \in [IndexRange(ne) -> [Sides -> Ends(nv + 1)]]
    <2>1. Ends(nv) \subseteq Ends(nv + 1)
        BY <1>4 DEF Ends
    <2>2. QED
        BY <1>1, <2>1
<1>9. \A x \in S : VertexAt(g, x) # nv
    <2>1. nv \notin Ends(nv)
        BY DEF Ends, NoId, IndexRange
    <2>2. QED
        BY <1>1, <2>1 DEF VertexAt
<1>10. \A w \in IndexRange(nv + 1) :
            around[w] = IF w = nv THEN <<>> ELSE g.around[w]
    BY <1>3
<1> HIDE DEF h, around, vlabel, S
<1>11. h \in GraphsOf(ne, nv + 1, Ends(nv + 1), EL, VL)
    BY <1>1, <1>2, <1>6, <1>7, <1>8 DEF GraphsOf, S
<1>12. h.around = around /\ \A x : VertexAt(h, x) = VertexAt(g, x)
    BY <1>2 DEF VertexAt
<1>13. ListsFollowEdges(h, ne, nv + 1)
    BY <1>1, <1>4, <1>5, <1>9, <1>10, <1>12 DEF ListsFollowEdges, S
<1>14. h \in DualGraphs(ne, nv + 1, EL, VL)
    BY <1>11, <1>13 DEF DualGraphs
<1>15. h.edges = g.edges /\ h.elabel = g.elabel /\ h.vlabel = vlabel
    BY <1>2
<1>16. QED
    BY <1>14, <1>15 DEF h, vlabel

\* create_edge() without vertices adds an edge that is in no list.
LEMMA CreatedEmptyEdge ==
    ASSUME NEW ne \in Nat, NEW nv \in Nat, NEW EL, NEW VL,
           NEW g \in DualGraphs(ne, nv, EL, VL), NEW label \in EL
    PROVE  LET none == [side \in Sides |-> NoId]
               h == CreateEmptyEdge(g, label)
           IN  /\ NbEdges(g) = ne
               /\ h \in DualGraphs(ne + 1, nv, EL, VL)
               /\ h.edges = AppendElement(g.edges, none)
               /\ h.elabel = AppendElement(g.elabel, label)
               /\ h.vlabel = g.vlabel
<1> DEFINE none == [side \in Sides |-> NoId]
           edges == AppendElement(g.edges, none)
           elabel == AppendElement(g.elabel, label)
           h == CreateEmptyEdge(g, label)
           S == IndexRange(ne) \X Sides
           T == IndexRange(ne + 1) \X Sides
<1>1. /\ ListsFollowEdges(g, ne, nv)
      /\ g = [edges |-> g.edges, elabel |-> g.elabel,
              around |-> g.around, vlabel |-> g.vlabel]
      /\ g.edges \in [IndexRange(ne) -> [Sides -> Ends(nv)]]
      /\ g.elabel \in [IndexRange(ne) -> EL]
      /\ g.around \in [IndexRange(nv) -> Seq(S)]
      /\ g.vlabel \in [IndexRange(nv) -> VL]
    BY DEF DualGraphs, GraphsOf
<1>2. h = [edges |-> edges, elabel |-> elabel,
           around |-> g.around, vlabel |-> g.vlabel]
    <2>1. h = [g EXCEPT !.edges = edges, !.elabel = elabel]
        BY Zenon DEF CreateEmptyEdge
    <2> HIDE DEF h, edges, elabel
    <2>2. QED
        BY <1>1, <2>1
<1>3. Size(g.edges) = ne /\ Size(g.elabel) = ne
    BY <1>1, SizeOfVector
<1>4. /\ edges = [i \in IndexRange(ne + 1) |->
                    IF i = ne THEN none ELSE g.edges[i]]
      /\ elabel = [i \in IndexRange(ne + 1) |->
                    IF i = ne THEN label ELSE g.elabel[i]]
    BY <1>3 DEF AppendElement
<1>5. IndexRange(ne + 1) = IndexRange(ne) \cup {ne} /\ ne \notin IndexRange(ne)
    BY DEF IndexRange
<1>6. none \in [Sides -> Ends(nv)] /\ NoId \notin IndexRange(nv)
    BY DEF Ends, NoId, IndexRange
<1>7. edges \in [IndexRange(ne + 1) -> [Sides -> Ends(nv)]]
    BY <1>1, <1>4, <1>5, <1>6
<1>8. elabel \in [IndexRange(ne + 1) -> EL]
    BY <1>1, <1>4, <1>5
<1>9. g.around \in [IndexRange(nv) -> Seq(T)]
    <2>1. S \subseteq T
        BY <1>5
    <2> HIDE DEF S, T
    <2>2. \A list \in Seq(S) : list \in Seq(T)
        BY <2>1
    <2>3. QED
        BY <1>1, <2>2
<1>10. \A x \in T :
            edges[x[1]][x[2]] = IF x[1] = ne THEN NoId ELSE g.edges[x[1]][x[2]]
    BY <1>4
<1>11. \A x \in T : x \in S <=> x[1] # ne
    BY <1>5
<1>12. S \subseteq T
    BY <1>5
<1>13. \A w \in IndexRange(nv) :
        /\ NoRepeat(g.around[w])
        /\ \A x : x \in ToSet(g.around[w]) <=> x \in S /\ VertexAt(g, x) = w
    BY <1>1 DEF ListsFollowEdges
<1>14. NbEdges(g) = ne
    BY <1>3 DEF NbEdges
<1> HIDE DEF h, edges, elabel, S, T
<1>15. h \in GraphsOf(ne + 1, nv, Ends(nv), EL, VL)
    BY <1>1, <1>2, <1>7, <1>8, <1>9 DEF GraphsOf, T
<1>16. /\ h.around = g.around
       /\ \A x \in T : VertexAt(h, x) =
                IF x \in S THEN VertexAt(g, x) ELSE NoId
    BY <1>2, <1>10, <1>11 DEF VertexAt
<1>17. ListsFollowEdges(h, ne + 1, nv)
    <2>1. \A w \in IndexRange(nv) :
            /\ NoRepeat(h.around[w])
            /\ \A x : x \in ToSet(h.around[w]) <=>
                        x \in T /\ VertexAt(h, x) = w
        BY <1>6, <1>12, <1>16, <1>13
    <2>2. QED
        BY <2>1, Zenon DEF ListsFollowEdges, T
<1>18. h \in DualGraphs(ne + 1, nv, EL, VL)
    BY <1>15, <1>17 DEF DualGraphs
<1>19. h.edges = edges /\ h.elabel = elabel /\ h.vlabel = g.vlabel
    BY <1>2
<1>20. QED
    BY <1>14, <1>18, <1>19 DEF h, edges, elabel

\* The ends of an edge from v0 to v1.
Joining(v0, v1) == [side \in Sides |-> IF side = 0 THEN v0 ELSE v1]

\* create_edge(v0, v1) adds an edge from v0 to v1.
LEMMA CreatedEdge ==
    ASSUME NEW ne \in Nat, NEW nv \in Nat, NEW EL, NEW VL,
           NEW g \in DualGraphs(ne, nv, EL, VL), NEW label \in EL,
           NEW v0 \in IndexRange(nv), NEW v1 \in IndexRange(nv)
    PROVE  LET h == CreateEdge(g, v0, v1, label)
           IN  /\ h \in DualGraphs(ne + 1, nv, EL, VL)
               /\ h.edges = AppendElement(g.edges, Joining(v0, v1))
               /\ h.elabel = AppendElement(g.elabel, label)
               /\ h.vlabel = g.vlabel
<1> DEFINE none == [side \in Sides |-> NoId]
           ends == [side \in Sides |-> IF side = 0 THEN v0 ELSE v1]
           created == CreateEmptyEdge(g, label)
           more == ne + 1
           start == <<ne, 0>>
           end == <<ne, 1>>
           half == SetEdgeVertex(created, start, v0)
           h == CreateEdge(g, v0, v1, label)
<1>1. /\ NbEdges(g) = ne
      /\ created \in DualGraphs(more, nv, EL, VL)
      /\ created.edges = AppendElement(g.edges, none)
      /\ created.elabel = AppendElement(g.elabel, label)
      /\ created.vlabel = g.vlabel
    BY CreatedEmptyEdge
<1>2. h = SetEdgeVertex(half, end, v1)
    BY <1>1, Zenon DEF CreateEdge
<1>3. /\ start \in IndexRange(more) \X Sides
      /\ end \in IndexRange(more) \X Sides
      /\ start[1] = ne /\ start[2] = 0
      /\ end[1] = ne /\ end[2] = 1
      /\ more \in Nat
    BY DEF IndexRange, Sides
<1> HIDE DEF more, created, start, end, h
<1>4. /\ half \in DualGraphs(more, nv, EL, VL)
      /\ half.edges = WithEnd(created.edges, start, v0)
      /\ half.elabel = created.elabel
      /\ half.vlabel = created.vlabel
    <2> DEFINE k == SetEdgeVertex(created, start, v0)
    <2>1. /\ k \in DualGraphs(more, nv, EL, VL)
          /\ k.edges = WithEnd(created.edges, start, v0)
          /\ k.elabel = created.elabel
          /\ k.vlabel = created.vlabel
        BY <1>1, <1>3, SetKeepsDual
    <2>2. QED
        BY <2>1
<1> HIDE DEF half
<1>5. /\ h \in DualGraphs(more, nv, EL, VL)
      /\ h.edges = WithEnd(half.edges, end, v1)
      /\ h.elabel = half.elabel
      /\ h.vlabel = half.vlabel
    BY <1>2, <1>3, <1>4, SetKeepsDual
<1>6. h.edges = AppendElement(g.edges, ends)
    <2>1. /\ g.edges \in [IndexRange(ne) -> [Sides -> Ends(nv)]]
        BY DEF DualGraphs, GraphsOf
    <2>2. Size(g.edges) = ne
        BY <2>1, SizeOfVector
    <2>3. ne \in IndexRange(ne + 1)
        BY DEF IndexRange
    <2>4. created.edges = [i \in IndexRange(ne + 1) |->
                            IF i = ne THEN none ELSE g.edges[i]]
        BY <1>1, <2>2 DEF AppendElement
    <2>5. created.edges[ne] = none
        BY <2>3, <2>4
    <2>6. [[none EXCEPT ![0] = v0] EXCEPT ![1] = v1] = ends
        BY DEF Sides
    <2>7. h.edges = [i \in IndexRange(ne + 1) |->
                        IF i = ne
                        THEN [[none EXCEPT ![0] = v0] EXCEPT ![1] = v1]
                        ELSE g.edges[i]]
        <3> HIDE DEF none
        <3>1. half.edges = [i \in IndexRange(ne + 1) |->
                        IF i = ne THEN [none EXCEPT ![0] = v0] ELSE g.edges[i]]
            BY <1>3, <1>4, <2>3, <2>4, <2>5 DEF WithEnd
        <3>2. half.edges[ne] = [none EXCEPT ![0] = v0]
            BY <2>3, <3>1
        <3>3. QED
            BY <1>3, <1>5, <2>3, <3>1, <3>2 DEF WithEnd
    <2>8. QED
        BY <2>2, <2>6, <2>7 DEF AppendElement
<1>7. QED
    BY <1>1, <1>4, <1>5, <1>6 DEF h, more, Joining

-----------------------------------------------------------------------------
\* result lists the images of the elements of list that are kept, once each.
ListsImages(result, T, kept, image, list) ==
    /\ result \in Seq(T)
    /\ NoRepeat(result)
    /\ \A y : y \in ToSet(result) <=>
         \E x \in kept : x \in ToSet(list) /\ y = image[x]

\* A loop over a list that appends the image of each kept element gives the
\* list of these images, once each.
LEMMA ImagesOfKept ==
    ASSUME NEW S, NEW T, NEW list \in Seq(S), NoRepeat(list),
           NEW kept, kept \subseteq S, NEW image \in [kept -> T],
           \A x, y \in kept : image[x] = image[y] => x = y,
           NEW f, f[0] = <<>>,
           \A n \in 1 .. Len(list) : f[n] =
                IF list[n] \in kept THEN Append(f[n - 1], image[list[n]])
                                    ELSE f[n - 1]
    PROVE  ListsImages(f[Len(list)], T, kept, image, list)
<1> DEFINE N == Len(list)
           done(n) == {image[list[i]] : i \in {j \in 1 .. n : list[j] \in kept}}
           Good(n, r) == /\ r \in Seq(T)
                         /\ NoRepeat(r)
                         /\ ToSet(r) = done(n)
           J == [n \in 0 .. N |-> {r \in Seq(T) : Good(n, r)}]
<1>1. N \in Nat /\ \A n \in 1 .. N : list[n] \in S
    OBVIOUS
<1>2. f[0] \in J[0]
    <2>1. <<>> \in Seq(T) /\ NoRepeat(<<>>) /\ ToSet(<<>>) = {}
        BY DEF NoRepeat, ToSet
    <2>2. done(0) = {}
        OBVIOUS
    <2>3. QED
        BY <1>1, <2>1, <2>2
<1>3. ASSUME NEW n \in 1 .. N, f[n - 1] \in J[n - 1]
      PROVE  f[n] \in J[n]
    <2> DEFINE r == f[n - 1]
               x == list[n]
    <2>1. r \in Seq(T) /\ NoRepeat(r) /\ ToSet(r) = done(n - 1)
        BY <1>1, <1>3
    <2>2. f[n] = IF x \in kept THEN Append(r, image[x]) ELSE r
        OBVIOUS
    <2>3. n - 1 \in Nat /\ n \in Nat
        OBVIOUS
    <2>4. CASE x \in kept
        <3>1. done(n) = done(n - 1) \cup {image[x]}
            BY <1>1, <2>4
        <3>2. image[x] \notin done(n - 1)
            <4> SUFFICES ASSUME NEW i \in 1 .. n - 1, list[i] \in kept,
                                image[list[i]] = image[x]
                         PROVE  FALSE
                OBVIOUS
            <4>1. list[i] = list[n]
                BY <2>4
            <4>2. i \in DOMAIN list /\ n \in DOMAIN list /\ i # n
                OBVIOUS
            <4>3. QED
                BY <4>1, <4>2 DEF NoRepeat
        <3>3. image[x] \in T
            BY <2>4
        <3> DEFINE y == image[x]
        <3> HIDE DEF y, x, r, done
        <3>4. /\ Append(r, y) \in Seq(T)
              /\ NoRepeat(Append(r, y))
              /\ ToSet(Append(r, y)) = ToSet(r) \cup {y}
            BY <2>1, <3>2, <3>3, AddedToList DEF y
        <3>5. Good(n, f[n])
            BY <2>1, <2>2, <2>4, <3>1, <3>4 DEF y
        <3>6. QED
            BY <3>5
    <2>5. CASE x \notin kept
        <3>1. done(n) = done(n - 1)
            BY <1>1, <2>5
        <3>2. Good(n, f[n])
            BY <2>1, <2>2, <2>5, <3>1
        <3> HIDE DEF Good
        <3>3. f[n] \in Seq(T)
            BY <3>2 DEF Good
        <3>4. QED
            BY <3>2, <3>3
    <2>6. QED
        BY <2>4, <2>5
<1>4. \A n \in 0 .. N : f[n] \in J[n]
    <2> HIDE DEF J, N
    <2>1. QED
        BY <1>1, <1>2, <1>3, LoopInvariant
<1>5. Good(N, f[N])
    BY <1>1, <1>4
<1>6. \A y : y \in done(N) <=> \E x \in kept : x \in ToSet(list) /\ y = image[x]
    BY DEF ToSet
<1>7. QED
    <2> HIDE DEF done
    <2>1. QED
        BY <1>5, <1>6 DEF ListsImages

\* new lists the extremities of list whose edge is kept, with the new index of
\* their edge.
ListsNewEdges(new, list, old2new, T) ==
    /\ new \in Seq(T)
    /\ NoRepeat(new)
    /\ \A y : y \in ToSet(new) <=>
         \E x \in ToSet(list) : /\ old2new[x[1]] # NoId
                                /\ y = <<old2new[x[1]], x[2]>>

\* A list of update_edges_around(): the extremities of the kept edges, with
\* their new indices.
LEMMA NewEdgesOfList ==
    ASSUME NEW ne \in Nat, NEW m \in Nat, NEW old2new,
           \A e \in IndexRange(ne) :
                old2new[e] # NoId => old2new[e] \in IndexRange(m),
           \A e, f \in IndexRange(ne) :
                old2new[e] # NoId /\ old2new[e] = old2new[f] => e = f,
           NEW list \in Seq(IndexRange(ne) \X Sides), NoRepeat(list)
    PROVE  ListsNewEdges(NewEdges(list, old2new), list, old2new,
                         IndexRange(m) \X Sides)
<1> DEFINE S == IndexRange(ne) \X Sides
           T == IndexRange(m) \X Sides
           N == Len(list)
           V == Seq(T)
           kept == {x \in S : old2new[x[1]] # NoId}
           image == [x \in kept |-> <<old2new[x[1]], x[2]>>]
           step == [p \in (1 .. N) \X Seq(T) |->
                        IF list[p[1]] \in kept
                        THEN Append(p[2], image[list[p[1]]]) ELSE p[2]]
           next(r, x) == IF old2new[x[1]] = NoId
                         THEN r
                         ELSE Append(r, <<old2new[x[1]], x[2]>>)
           IsFold(f) == f = [n \in 0 .. N |->
                                IF n = 0 THEN <<>>
                                         ELSE next(f[n - 1], list[n])]
           f == CHOOSE fold : IsFold(fold)
<1>1. /\ kept \subseteq S
      /\ image \in [kept -> T]
      /\ \A x, y \in kept : image[x] = image[y] => x = y
    OBVIOUS
<1>2. /\ N \in Nat
      /\ list \in Seq(S)
      /\ \A n \in 1 .. N : list[n] \in S
    OBVIOUS
<1>3. \A r : \A x \in S : next(r, x) =
            IF x \in kept THEN Append(r, image[x]) ELSE r
    OBVIOUS
<1>4. \E fold : IsFold(fold)
    <2>1. step \in [(1 .. N) \X V -> V]
        <3> HIDE DEF T, kept, image
        <3>1. QED
            BY <1>1
    <2>2. <<>> \in V
        OBVIOUS
    <2>3. PICK fold : RunsLoop(fold, N, V, <<>>, step)
        <3> HIDE DEF step, V, N
        <3>1. QED
            BY <1>2, <2>1, <2>2, LoopIsDefined
    <2>4. /\ fold \in [0 .. N -> V]
          /\ fold[0] = <<>>
          /\ \A n \in 1 .. N : fold[n] = step[<<n, fold[n - 1]>>]
        <3> HIDE DEF step, V, N
        <3>1. QED
            BY <2>3 DEF RunsLoop
    <2>5. ASSUME NEW n \in 1 .. N
          PROVE  fold[n] = next(fold[n - 1], list[n])
        <3>1. fold[n - 1] \in Seq(T)
            <4>1. n - 1 \in 0 .. N
                BY <1>2
            <4>2. QED
                BY <2>4, <4>1, Zenon
        <3> HIDE DEF T, kept, image, next
        <3>2. step[<<n, fold[n - 1]>>] = next(fold[n - 1], list[n])
            BY <1>2, <1>3, <3>1
        <3>3. QED
            BY <2>4, <3>2
    <2>6. IsFold(fold)
        <3> HIDE DEF next
        <3>1. QED
            BY <2>4, <2>5
    <2>7. QED
        BY <2>6
<1>5. IsFold(f)
    BY <1>4
<1>6. NewEdges(list, old2new) = f[N]
    BY DEF NewEdges, FoldInOrder
<1>7. /\ f[0] = <<>>
      /\ \A n \in 1 .. N : f[n] =
            IF list[n] \in kept THEN Append(f[n - 1], image[list[n]])
                                ELSE f[n - 1]
    <2> HIDE DEF f, next, kept, image, S
    <2>1. f[0] = <<>> /\ \A n \in 1 .. N : f[n] = next(f[n - 1], list[n])
        BY <1>2, <1>5
    <2>2. QED
        BY <1>2, <1>3, <2>1
<1>8. ListsImages(f[N], T, kept, image, list)
    <2> HIDE DEF f, kept, image, T, S
    <2>1. QED
        BY <1>1, <1>2, <1>7, ImagesOfKept
<1>9. ASSUME NEW y
      PROVE  (\E x \in kept : x \in ToSet(list) /\ y = image[x])
                <=> \E x \in ToSet(list) : /\ old2new[x[1]] # NoId
                                           /\ y = <<old2new[x[1]], x[2]>>
    <2>1. ToSet(list) \subseteq S
        BY DEF ToSet
    <2>2. QED
        BY <2>1
<1>10. QED
    <2> HIDE DEF f, kept, image
    <2>1. QED
        BY <1>6, <1>8, <1>9 DEF ListsImages, ListsNewEdges

\* The graph g with other attributes of the edges.
WithEdges(g, edges, elabel) ==
    [g EXCEPT !.edges = edges, !.elabel = elabel]

\* They alone are replaced.
LEMMA EdgesReplaced ==
    ASSUME NEW a, NEW b, NEW c, NEW d, NEW x, NEW y, NEW g,
           g = [edges |-> a, elabel |-> b, around |-> c, vlabel |-> d]
    PROVE  WithEdges(g, x, y)
            = [edges |-> x, elabel |-> y, around |-> c, vlabel |-> d]
<1>1. PICK h : h = [edges |-> x, elabel |-> b, around |-> c, vlabel |-> d]
    OBVIOUS
<1>2. [g EXCEPT !.edges = x] = h
    BY <1>1
<1>3. [h EXCEPT !.elabel = y]
        = [edges |-> x, elabel |-> y, around |-> c, vlabel |-> d]
    BY <1>1
<1>4. [g EXCEPT !.edges = x, !.elabel = y]
        = [[g EXCEPT !.edges = x] EXCEPT !.elabel = y]
    OBVIOUS
<1>5. QED
    BY <1>2, <1>3, <1>4 DEF WithEdges

\* The vector g of m elements is f of n elements, renumbered by old2new, where
\* some may be left out.
Renumbers(old2new, n, m, f, g) ==
    /\ \A i \in IndexRange(n) :
            old2new[i] # NoId => old2new[i] \in IndexRange(m)
    /\ \A i, j \in IndexRange(n) :
            old2new[i] # NoId /\ old2new[i] = old2new[j] => i = j
    /\ \A k \in IndexRange(m) : \E i \in IndexRange(n) :
            old2new[i] = k /\ g[k] = f[i]

\* update_edges_around(), with the attributes of the edges renumbered in the
\* same way, keeps the lists in step with the edges.
LEMMA RenumberedEdges ==
    ASSUME NEW ne \in Nat, NEW nv \in Nat, NEW EL, NEW VL,
           NEW g \in DualGraphs(ne, nv, EL, VL),
           NEW m \in Nat, NEW old2new,
           NEW edges \in [IndexRange(m) -> [Sides -> Ends(nv)]],
           NEW elabel \in [IndexRange(m) -> EL],
           Renumbers(old2new, ne, m, g.edges, edges)
    PROVE  LET h == WithEdges(UpdateEdgesAround(g, old2new), edges, elabel)
           IN  /\ h \in DualGraphs(m, nv, EL, VL)
               /\ h.edges = edges
               /\ h.elabel = elabel
               /\ h.vlabel = g.vlabel
<1> DEFINE S == IndexRange(ne) \X Sides
           T == IndexRange(m) \X Sides
           updated == UpdateEdgesAround(g, old2new)
           h == WithEdges(updated, edges, elabel)
           around == [v \in IndexRange(nv) |-> NewEdges(g.around[v], old2new)]
<1>1. /\ \A e \in IndexRange(ne) :
               old2new[e] # NoId => old2new[e] \in IndexRange(m)
      /\ \A e, f \in IndexRange(ne) :
               old2new[e] # NoId /\ old2new[e] = old2new[f] => e = f
    BY DEF Renumbers
<1>2. \A k \in IndexRange(m) : \E e \in IndexRange(ne) :
            old2new[e] = k /\ edges[k] = g.edges[e]
    BY DEF Renumbers
<1>3. /\ ListsFollowEdges(g, ne, nv)
      /\ g = [edges |-> g.edges, elabel |-> g.elabel,
              around |-> g.around, vlabel |-> g.vlabel]
      /\ g.edges \in [IndexRange(ne) -> [Sides -> Ends(nv)]]
      /\ g.around \in [IndexRange(nv) -> Seq(S)]
      /\ g.vlabel \in [IndexRange(nv) -> VL]
    BY DEF DualGraphs, GraphsOf
<1>4. updated = [g EXCEPT !.around = around]
    <2>1. GraphVertices(g) = IndexRange(nv)
        BY <1>3 DEF GraphVertices
    <2>2. QED
        BY <2>1, Zenon DEF UpdateEdgesAround
<1>5. \A w \in IndexRange(nv) :
        /\ g.around[w] \in Seq(S)
        /\ NoRepeat(g.around[w])
        /\ \A x : x \in ToSet(g.around[w]) <=> x \in S /\ VertexAt(g, x) = w
    BY <1>3 DEF ListsFollowEdges
<1>6. ASSUME NEW w \in IndexRange(nv)
      PROVE  ListsNewEdges(around[w], g.around[w], old2new, T)
    <2> DEFINE list == g.around[w]
               new == NewEdges(list, old2new)
    <2>1. list \in Seq(S) /\ NoRepeat(list)
        BY <1>5
    <2>2. around[w] = new
        OBVIOUS
    <2> HIDE DEF list, around
    <2>3. ListsNewEdges(new, list, old2new, T)
        BY <1>1, <2>1, NewEdgesOfList
    <2> HIDE DEF new
    <2>4. QED
        BY <2>2, <2>3 DEF list
<1>7. around \in [IndexRange(nv) -> Seq(T)]
    <2>1. \A w \in IndexRange(nv) : NewEdges(g.around[w], old2new) \in Seq(T)
        BY <1>6 DEF ListsNewEdges
    <2>2. QED
        BY <2>1
<1> HIDE DEF updated, around
<1>8. h = [edges |-> edges, elabel |-> elabel,
           around |-> around, vlabel |-> g.vlabel]
    <2>1. updated = [edges |-> g.edges, elabel |-> g.elabel,
                     around |-> around, vlabel |-> g.vlabel]
        BY <1>3, <1>4
    <2>2. QED
        BY <2>1, EdgesReplaced
<1> HIDE DEF h
<1>9. h \in GraphsOf(m, nv, Ends(nv), EL, VL)
    BY <1>3, <1>7, <1>8 DEF GraphsOf
<1>10. h.around = around /\ h.edges = edges
    BY <1>8
<1>11. \A x \in T : VertexAt(h, x) = edges[x[1]][x[2]]
    BY <1>10 DEF VertexAt
<1>12. \A x \in S : VertexAt(g, x) = g.edges[x[1]][x[2]]
    BY DEF VertexAt
<1>13. NoId \notin IndexRange(m)
    BY DEF NoId, IndexRange
<1>14. ASSUME NEW w \in IndexRange(nv), NEW y
       PROVE  y \in ToSet(around[w]) <=> y \in T /\ VertexAt(h, y) = w
    <2>1. ASSUME y \in ToSet(around[w])
          PROVE  y \in T /\ VertexAt(h, y) = w
        <3>1. PICK x \in S : /\ VertexAt(g, x) = w
                             /\ old2new[x[1]] # NoId
                             /\ y = <<old2new[x[1]], x[2]>>
            BY <1>5, <1>6, <2>1 DEF ListsNewEdges
        <3>2. /\ x[1] \in IndexRange(ne) /\ x[2] \in Sides
              /\ y[1] = old2new[x[1]] /\ y[2] = x[2]
              /\ y[1] \in IndexRange(m)
            BY <1>1, <3>1
        <3>3. PICK e \in IndexRange(ne) :
                old2new[e] = y[1] /\ edges[y[1]] = g.edges[e]
            BY <1>2, <3>2, Zenon
        <3>4. e = x[1]
            BY <1>1, <3>1, <3>2, <3>3
        <3>5. y \in T
            BY <3>1, <3>2
        <3>6. edges[y[1]][y[2]] = g.edges[x[1]][x[2]]
            BY <3>2, <3>3, <3>4
        <3>7. QED
            BY <1>11, <1>12, <3>1, <3>5, <3>6
    <2>2. ASSUME y \in T, VertexAt(h, y) = w
          PROVE  y \in ToSet(around[w])
        <3>1. y[1] \in IndexRange(m) /\ y[2] \in Sides /\ y = <<y[1], y[2]>>
            BY <2>2
        <3>2. PICK e \in IndexRange(ne) :
                old2new[e] = y[1] /\ edges[y[1]] = g.edges[e]
            BY <1>2, <3>1, Zenon
        <3> DEFINE x == <<e, y[2]>>
        <3>3. x \in S /\ x[1] = e /\ x[2] = y[2]
            BY <3>1, <3>2
        <3>4. old2new[x[1]] # NoId /\ y = <<old2new[x[1]], x[2]>>
            BY <1>13, <3>1, <3>2, <3>3
        <3>5. VertexAt(g, x) = edges[y[1]][y[2]]
            BY <1>12, <3>2, <3>3
        <3>6. VertexAt(g, x) = w
            BY <1>11, <2>2, <3>5
        <3> HIDE DEF x
        <3>7. x \in ToSet(g.around[w])
            BY <1>5, <3>3, <3>6
        <3>8. QED
            BY <1>6, <3>4, <3>7 DEF ListsNewEdges
    <2>3. QED
        BY <2>1, <2>2
<1>15. ListsFollowEdges(h, m, nv)
    BY <1>6, <1>10, <1>14 DEF ListsFollowEdges, ListsNewEdges
<1>16. h \in DualGraphs(m, nv, EL, VL)
    BY <1>9, <1>15 DEF DualGraphs
<1>17. h.edges = edges /\ h.elabel = elabel /\ h.vlabel = g.vlabel
    BY <1>8
<1>18. QED
    BY <1>16, <1>17 DEF h, updated

\* Nothing is deleted from a vector with no index to delete.
LEMMA DeletedNothing ==
    ASSUME NEW n \in Nat, NEW f, f = [i \in IndexRange(n) |-> f[i]]
    PROVE  DeleteElements(f, {}) = f
<1> DEFINE g == DeleteElements(f, {})
           kept == IndexRange(n) \ {}
<1>1. kept = IndexRange(n) /\ DOMAIN f = IndexRange(n)
    OBVIOUS
<1>2. Cardinality(IndexRange(n)) = n
    BY SizeOfVector
<1>3. DOMAIN g = IndexRange(Cardinality(kept))
    BY <1>1, DeletedVectorSize
<1>4. g = [i \in DOMAIN g |-> g[i]]
    BY DEF DeleteElements
<1>5. ASSUME NEW i \in IndexRange(n)
      PROVE  g[i] = f[i]
    <2> DEFINE index == MappingAfterDeletion(n, {})[i]
    <2>1. KeptBelow(i, {}) = IndexRange(i) /\ i \in Nat
        BY DEF KeptBelow, IndexRange
    <2>2. Cardinality(KeptBelow(i, {})) = i
        BY <2>1, SizeOfVector
    <2>3. index = i
        BY <2>2 DEF MappingAfterDeletion
    <2>4. g[index] = f[i]
        BY <1>1, DeletedVectorFollowsMapping
    <2>5. QED
        BY <2>3, <2>4
<1> HIDE DEF g
<1>6. g = [i \in IndexRange(n) |-> f[i]]
    BY <1>1, <1>2, <1>3, <1>4, <1>5
<1>7. QED
    BY <1>6 DEF g

\* Deleting and permuting keep the type of a vector.
LEMMA DeletedVectorType ==
    ASSUME NEW n \in Nat, NEW D, NEW V, NEW f \in [IndexRange(n) -> V]
    PROVE  DeleteElements(f, D)
                \in [IndexRange(Cardinality(IndexRange(n) \ D)) -> V]
<1> DEFINE g == DeleteElements(f, D)
           m == Cardinality(IndexRange(n) \ D)
<1>1. DOMAIN g = IndexRange(m)
    BY DeletedVectorSize
<1>2. g = [k \in DOMAIN g |-> g[k]]
    BY DEF DeleteElements
<1>3. ASSUME NEW k \in IndexRange(m)
      PROVE  g[k] \in V
    <2>1. \E i \in IndexRange(n) \ D : /\ MappingAfterDeletion(n, D)[i] = k
                                       /\ g[k] = f[i]
        BY DeletedVectorComesFromKept
    <2>2. QED
        BY <2>1
<1> HIDE DEF g, m
<1>4. g \in [IndexRange(m) -> V]
    BY <1>1, <1>2, <1>3
<1>5. QED
    BY <1>4 DEF g, m

\* Permuting a vector keeps its type.
LEMMA PermutedVectorType ==
    ASSUME NEW S, NEW permutation \in Bijection(S, S),
           NEW V, NEW f \in [S -> V]
    PROVE  PermuteElements(f, permutation) \in [S -> V]
BY DEF PermuteElements, Bijection, Injection, Surjection

\* The number of elements left of n when D is deleted.
NbKept(n, D) == Cardinality(IndexRange(n) \ D)

\* delete_edges() removes edges and keeps the lists in step.
LEMMA DeletedEdges ==
    ASSUME NEW ne \in Nat, NEW nv \in Nat, NEW EL, NEW VL,
           NEW g \in DualGraphs(ne, nv, EL, VL), NEW D
    PROVE  LET h == DeleteEdges(g, D)
               m == NbKept(ne, D)
           IN  /\ m \in Nat
               /\ h \in DualGraphs(m, nv, EL, VL)
               /\ h.edges = DeleteElements(g.edges, D)
               /\ h.elabel = DeleteElements(g.elabel, D)
               /\ h.vlabel = g.vlabel
<1> USE DEF NbKept
<1> DEFINE h == DeleteEdges(g, D)
           m == Cardinality(IndexRange(ne) \ D)
           old2new == MappingAfterDeletion(ne, D)
           edges == DeleteElements(g.edges, D)
           elabel == DeleteElements(g.elabel, D)
<1>1. /\ g.edges \in [IndexRange(ne) -> [Sides -> Ends(nv)]]
      /\ g.elabel \in [IndexRange(ne) -> EL]
      /\ DOMAIN g.edges = IndexRange(ne)
      /\ DOMAIN g.elabel = IndexRange(ne)
    BY DEF DualGraphs, GraphsOf
<1>2. m \in Nat
    BY <1>1, DeletedVectorSize
<1>3. CASE D = {}
    <2>1. h = g
        BY <1>3 DEF DeleteEdges
    <2>2. m = ne
        <3>1. IndexRange(ne) \ D = IndexRange(ne)
            BY <1>3
        <3>2. QED
            BY <3>1, SizeOfVector
    <2>3. edges = g.edges
        <3>1. DeleteElements(g.edges, {}) = g.edges
            BY <1>1, DeletedNothing
        <3>2. QED
            BY <1>3, <3>1
    <2>4. elabel = g.elabel
        <3>1. DeleteElements(g.elabel, {}) = g.elabel
            BY <1>1, DeletedNothing
        <3>2. QED
            BY <1>3, <3>1
    <2> HIDE DEF edges, elabel, m, h
    <2>5. QED
        BY <1>2, <2>1, <2>2, <2>3, <2>4 DEF edges, elabel, m, h
<1>4. CASE D # {}
    <2>1. NbEdges(g) = ne
        BY <1>1, SizeOfVector DEF NbEdges
    <2>2. h = WithEdges(UpdateEdgesAround(g, old2new), edges, elabel)
        <3>1. /\ UpdateEdgesAround(g, old2new).edges = g.edges
              /\ UpdateEdgesAround(g, old2new).elabel = g.elabel
            <4>1. g = [edges |-> g.edges, elabel |-> g.elabel,
                       around |-> g.around, vlabel |-> g.vlabel]
                BY DEF DualGraphs, GraphsOf
            <4> DEFINE around == [v \in GraphVertices(g) |->
                                    NewEdges(g.around[v], old2new)]
                       updated == UpdateEdgesAround(g, old2new)
            <4>2. updated = [g EXCEPT !.around = around]
                BY Zenon DEF UpdateEdgesAround
            <4> HIDE DEF around, updated
            <4>3. updated.edges = g.edges /\ updated.elabel = g.elabel
                BY <4>1, <4>2
            <4>4. QED
                BY <4>3 DEF updated
        <3>2. h = [UpdateEdgesAround(g, old2new) EXCEPT
                    !.edges = DeleteElements(@, D),
                    !.elabel = DeleteElements(@, D)]
            BY <1>4, <2>1, Zenon DEF DeleteEdges
        <3>3. QED
            BY <3>1, <3>2, Zenon DEF WithEdges
    <2>3. /\ edges \in [IndexRange(m) -> [Sides -> Ends(nv)]]
          /\ elabel \in [IndexRange(m) -> EL]
        BY <1>1, DeletedVectorType
    <2>4. \A e \in IndexRange(ne) : old2new[e] # NoId => e \notin D
        BY DEF MappingAfterDeletion
    <2>5. \A e \in IndexRange(ne) :
            old2new[e] # NoId => old2new[e] \in IndexRange(m)
        BY <2>4, MappingIsOneToOne
    <2>6. \A e, f \in IndexRange(ne) :
            old2new[e] # NoId /\ old2new[e] = old2new[f] => e = f
        BY <2>4, MappingIsOneToOne
    <2>7. \A k \in IndexRange(m) : \E e \in IndexRange(ne) :
            old2new[e] = k /\ edges[k] = g.edges[e]
        BY <1>1, DeletedVectorComesFromKept
    <2> HIDE DEF h, m, old2new, edges, elabel
    <2>8. Renumbers(old2new, ne, m, g.edges, edges)
        BY <2>5, <2>6, <2>7 DEF Renumbers
    <2>9. LET k == WithEdges(UpdateEdgesAround(g, old2new), edges, elabel)
          IN  /\ k \in DualGraphs(m, nv, EL, VL)
              /\ k.edges = edges
              /\ k.elabel = elabel
              /\ k.vlabel = g.vlabel
        BY <1>2, <2>3, <2>8, RenumberedEdges
    <2>10. QED
        BY <1>2, <2>2, <2>9 DEF h, m, edges, elabel
<1>5. /\ h \in DualGraphs(m, nv, EL, VL)
      /\ h.edges = edges
      /\ h.elabel = elabel
      /\ h.vlabel = g.vlabel
    BY <1>3, <1>4
<1> HIDE DEF h, edges, elabel
<1>6. QED
    BY <1>2, <1>5 DEF h, edges, elabel

\* permute_edges() renumbers the edges and keeps the lists in step.
LEMMA PermutedEdges ==
    ASSUME NEW ne \in Nat, NEW nv \in Nat, NEW EL, NEW VL,
           NEW g \in DualGraphs(ne, nv, EL, VL),
           NEW p \in Bijection(IndexRange(ne), IndexRange(ne))
    PROVE  LET h == PermuteEdges(g, p)
           IN  /\ h \in DualGraphs(ne, nv, EL, VL)
               /\ h.edges = PermuteElements(g.edges, p)
               /\ h.elabel = PermuteElements(g.elabel, p)
               /\ h.vlabel = g.vlabel
<1> DEFINE h == PermuteEdges(g, p)
           old2new == Old2NewPermutation(p)
           edges == PermuteElements(g.edges, p)
           elabel == PermuteElements(g.elabel, p)
<1>1. /\ g.edges \in [IndexRange(ne) -> [Sides -> Ends(nv)]]
      /\ g.elabel \in [IndexRange(ne) -> EL]
      /\ DOMAIN g.edges = IndexRange(ne)
      /\ DOMAIN g.elabel = IndexRange(ne)
    BY DEF DualGraphs, GraphsOf
<1>2. h = WithEdges(UpdateEdgesAround(g, old2new), edges, elabel)
    <2>1. /\ UpdateEdgesAround(g, old2new).edges = g.edges
          /\ UpdateEdgesAround(g, old2new).elabel = g.elabel
        <3>1. g = [edges |-> g.edges, elabel |-> g.elabel,
                   around |-> g.around, vlabel |-> g.vlabel]
            BY DEF DualGraphs, GraphsOf
        <3> DEFINE around == [v \in GraphVertices(g) |->
                                NewEdges(g.around[v], old2new)]
                   updated == UpdateEdgesAround(g, old2new)
        <3>2. updated = [g EXCEPT !.around = around]
            BY Zenon DEF UpdateEdgesAround
        <3> HIDE DEF around, updated
        <3>3. updated.edges = g.edges /\ updated.elabel = g.elabel
            BY <3>1, <3>2
        <3>4. QED
            BY <3>3 DEF updated
    <2>2. h = [UpdateEdgesAround(g, old2new) EXCEPT
                !.edges = PermuteElements(@, p),
                !.elabel = PermuteElements(@, p)]
        BY Zenon DEF PermuteEdges
    <2>3. QED
        BY <2>1, <2>2, Zenon DEF WithEdges
<1>3. /\ edges \in [IndexRange(ne) -> [Sides -> Ends(nv)]]
      /\ elabel \in [IndexRange(ne) -> EL]
    BY <1>1, PermutedVectorType
<1>4. \A e \in IndexRange(ne) : /\ old2new[e] \in IndexRange(ne)
                                /\ old2new[p[e]] = e
                                /\ p[old2new[e]] = e
    BY Old2NewInvertsPermutation
<1>5. \A e \in IndexRange(ne) : p[e] \in IndexRange(ne)
    BY DEF Bijection, Injection, Surjection
<1>6. \A k \in IndexRange(ne) : \E e \in IndexRange(ne) :
        old2new[e] = k /\ edges[k] = g.edges[e]
    <2>1. \A k \in IndexRange(ne) : edges[k] = g.edges[p[k]]
        BY <1>1 DEF PermuteElements
    <2>2. QED
        BY <1>4, <1>5, <2>1
<1> HIDE DEF h, old2new, edges, elabel
<1>7. \A e \in IndexRange(ne) :
        old2new[e] # NoId => old2new[e] \in IndexRange(ne)
    BY <1>4
<1>8. \A e, f \in IndexRange(ne) :
        old2new[e] # NoId /\ old2new[e] = old2new[f] => e = f
    BY <1>4
<1>9. Renumbers(old2new, ne, ne, g.edges, edges)
    BY <1>6, <1>7, <1>8 DEF Renumbers
<1>10. LET k == WithEdges(UpdateEdgesAround(g, old2new), edges, elabel)
      IN  /\ k \in DualGraphs(ne, nv, EL, VL)
          /\ k.edges = edges
          /\ k.elabel = elabel
          /\ k.vlabel = g.vlabel
    BY <1>3, <1>9, RenumberedEdges
<1>11. QED
    BY <1>2, <1>10 DEF h, edges, elabel

-----------------------------------------------------------------------------
\* The turn of the loop over edges and sides that comes to an extremity.
Rank(x) == 2 * x[1] + x[2]

\* The loop over edges and sides comes to each extremity once.
LEMMA OrderOfExtremities ==
    ASSUME NEW ne \in Nat, NEW g, DOMAIN g.edges = IndexRange(ne)
    PROVE  LET order == EdgeVertexOrder(g)
           IN  /\ Len(order) = 2 * ne
               /\ order \in Seq(IndexRange(ne) \X Sides)
               /\ \A n \in 1 .. 2 * ne : Rank(order[n]) = n - 1
<1> DEFINE order == EdgeVertexOrder(g)
           N == 2 * ne
<1>1. NbEdges(g) = ne
    BY SizeOfVector DEF NbEdges
<1>2. order = [i \in 1 .. N |-> <<(i - 1) \div 2, (i - 1) % 2>>]
    BY <1>1, Zenon DEF EdgeVertexOrder
<1>3. ASSUME NEW i \in 1 .. N
      PROVE  /\ (i - 1) \div 2 \in 0 .. ne - 1
             /\ (i - 1) % 2 \in {0, 1}
             /\ 2 * ((i - 1) \div 2) + ((i - 1) % 2) = i - 1
    OBVIOUS
<1>4. N \in Nat
    OBVIOUS
<1> HIDE DEF order, N
<1>5. \A i \in 1 .. N : order[i] = <<(i - 1) \div 2, (i - 1) % 2>>
    BY <1>2
<1>6. \A i \in 1 .. N :
        order[i] \in IndexRange(ne) \X Sides /\ Rank(order[i]) = i - 1
    <2> SUFFICES ASSUME NEW i \in 1 .. N
                 PROVE  /\ order[i] \in IndexRange(ne) \X Sides
                        /\ Rank(order[i]) = i - 1
        OBVIOUS
    <2>1. PICK a, b : a = (i - 1) \div 2 /\ b = (i - 1) % 2
        OBVIOUS
    <2>2. a \in 0 .. ne - 1 /\ b \in {0, 1} /\ 2 * a + b = i - 1
        BY <1>3, <2>1
    <2>3. order[i] = <<a, b>>
        BY <1>5, <2>1
    <2>4. QED
        BY <2>2, <2>3 DEF IndexRange, Sides, Rank
<1>7. order \in [1 .. N -> IndexRange(ne) \X Sides]
    <2> DEFINE S == IndexRange(ne) \X Sides
               at(i) == <<(i - 1) \div 2, (i - 1) % 2>>
    <2>1. order = [i \in 1 .. N |-> at(i)]
        BY <1>2, Zenon
    <2>2. \A i \in 1 .. N : at(i) \in S
        BY <1>5, <1>6
    <2> HIDE DEF at, S
    <2>3. order \in [1 .. N -> S]
        BY <2>1, <2>2
    <2>4. QED
        BY <2>3 DEF S
<1>8. order \in Seq(IndexRange(ne) \X Sides) /\ Len(order) = N
    <2>1. order \in Seq(IndexRange(ne) \X Sides)
        BY <1>4, <1>7, SeqDef, Zenon
    <2>2. Len(order) \in Nat /\ DOMAIN order = 1 .. Len(order)
        BY <2>1, LenProperties
    <2>3. DOMAIN order = 1 .. N
        BY <1>7
    <2>4. 1 .. Len(order) = 1 .. N
        BY <2>2, <2>3, Zenon
    <2>5. ASSUME NEW a \in Nat, NEW b \in Nat, 1 .. a = 1 .. b
          PROVE  a = b
        <3>1. a = 0 \/ a \in 1 .. a
            OBVIOUS
        <3>2. a = 0 \/ a \in 1 .. b
            BY <2>5, <3>1
        <3>3. b = 0 \/ b \in 1 .. b
            OBVIOUS
        <3>4. b = 0 \/ b \in 1 .. a
            BY <2>5, <3>3
        <3>5. QED
            BY <3>2, <3>4
    <2>6. Len(order) = N
        BY <1>4, <2>2, <2>4, <2>5, Zenon
    <2>7. QED
        BY <2>1, <2>6
<1>9. QED
    BY <1>6, <1>8 DEF order, N

\* No two extremities have the same rank.
LEMMA RankIsOneToOne ==
    ASSUME NEW ne \in Nat, NEW x \in IndexRange(ne) \X Sides,
           NEW y \in IndexRange(ne) \X Sides
    PROVE  /\ Rank(x) = Rank(y) => x = y
           /\ Rank(x) \in 0 .. 2 * ne - 1
<1>1. /\ x[1] \in 0 .. ne - 1 /\ x[2] \in {0, 1} /\ x = <<x[1], x[2]>>
      /\ y[1] \in 0 .. ne - 1 /\ y[2] \in {0, 1} /\ y = <<y[1], y[2]>>
    BY DEF IndexRange, Sides
<1>2. ASSUME 2 * x[1] + x[2] = 2 * y[1] + y[2]
      PROVE  x[1] = y[1] /\ x[2] = y[2]
    BY <1>1, <1>2
<1>3. 2 * x[1] + x[2] \in 0 .. 2 * ne - 1
    BY <1>1
<1>4. QED
    BY <1>1, <1>2, <1>3 DEF Rank

\* The lists around the vertices are those of the new indices of the ends.
ListsFollowNewEnds(g, old2new, ne, m) ==
    /\ \A x \in IndexRange(ne) \X Sides :
            old2new[VertexAt(g, x)] \in IndexRange(m)
    /\ \A w \in IndexRange(m) :
        /\ NoRepeat(g.around[w])
        /\ \A x : x \in ToSet(g.around[w]) <=>
            x \in IndexRange(ne) \X Sides /\ old2new[VertexAt(g, x)] = w

\* The ends of the edges are renumbered by old2new.
NewEnds(edges, old2new) ==
    [e \in DOMAIN edges |-> [side \in Sides |-> old2new[edges[e][side]]]]

\* A turn of update_edge_vertices(): the extremity is already in the list of its
\* new vertex and in no other, so that only the edge changes.
LEMMA TurnOfUpdate ==
    ASSUME NEW ne \in Nat, NEW m \in Nat, NEW Known, NEW EL, NEW VL,
           IndexRange(m) \subseteq Known,
           NEW h \in GraphsOf(ne, m, Known, EL, VL),
           NEW old2new, NEW ev \in IndexRange(ne) \X Sides,
           NEW w \in IndexRange(m), w = old2new[VertexAt(h, ev)],
           \A v \in IndexRange(m) : NoRepeat(h.around[v]),
           \A v \in IndexRange(m) : ev \in ToSet(h.around[v]) <=> v = w
    PROVE  LET k == SetEdgeVertex(h, ev, w)
           IN  /\ k \in GraphsOf(ne, m, Known, EL, VL)
               /\ k.edges = WithEnd(h.edges, ev, w)
               /\ k.elabel = h.elabel
               /\ k.around = h.around
               /\ k.vlabel = h.vlabel
<1> DEFINE k == SetEdgeVertex(h, ev, w)
<1>1. CASE VertexAt(h, ev) = w
    <2>1. k = h
        BY <1>1 DEF SetEdgeVertex
    <2>2. h.edges \in [IndexRange(ne) -> [Sides -> Known]]
        BY DEF GraphsOf
    <2>3. WithEnd(h.edges, ev, w) = h.edges
        BY <1>1, <2>2 DEF VertexAt, WithEnd
    <2>4. QED
        BY <2>1, <2>3
<1>2. CASE VertexAt(h, ev) # w
    <2>1. w \in Known
        OBVIOUS
    <2>2. /\ k \in GraphsOf(ne, m, Known, EL, VL)
          /\ k.edges = WithEnd(h.edges, ev, w)
          /\ k.elabel = h.elabel
          /\ k.vlabel = h.vlabel
          /\ /\ ev \in ToSet(h.around[w])
             /\ VertexAt(h, ev) \in IndexRange(m) =>
                    ev \notin ToSet(h.around[VertexAt(h, ev)])
             => k.around = h.around
        BY <1>2, <2>1, MovedExtremity
    <2>3. ev \in ToSet(h.around[w])
        OBVIOUS
    <2>4. VertexAt(h, ev) \in IndexRange(m) =>
                ev \notin ToSet(h.around[VertexAt(h, ev)])
        BY <1>2
    <2> HIDE DEF k
    <2>5. QED
        BY <2>2, <2>3, <2>4 DEF k
<1>3. QED
    BY <1>1, <1>2

\* update_edge_vertices() in a graph whose lists are renumbered already: the
\* edges follow, and the lists stay as they are.
LEMMA UpdatedEnds ==
    ASSUME NEW ne \in Nat, NEW m \in Nat, NEW Old, NEW EL, NEW VL,
           NEW g \in GraphsOf(ne, m, Old, EL, VL), NEW old2new,
           ListsFollowNewEnds(g, old2new, ne, m)
    PROVE  LET h == UpdateEdgeVertices(g, old2new)
           IN  /\ h \in DualGraphs(ne, m, EL, VL)
               /\ h.edges = NewEnds(g.edges, old2new)
               /\ h.elabel = g.elabel
               /\ h.vlabel = g.vlabel
<1> DEFINE S == IndexRange(ne) \X Sides
           N == 2 * ne
           order == EdgeVertexOrder(g)
           Known == Old \cup IndexRange(m)
           \* The ends after n turns, and the graph.
           end(n, e, s) == IF 2 * e + s < n THEN old2new[g.edges[e][s]]
                                            ELSE g.edges[e][s]
           ends(n) == [e \in IndexRange(ne) |-> [s \in Sides |-> end(n, e, s)]]
           at(n) == [edges |-> ends(n), elabel |-> g.elabel,
                     around |-> g.around, vlabel |-> g.vlabel]
           turn(h, ev) == SetEdgeVertex(h, ev, old2new[VertexAt(h, ev)])
           IsFold(f) == f = [n \in 0 .. Len(order) |->
                                IF n = 0 THEN g ELSE turn(f[n - 1], order[n])]
           fold == CHOOSE f : IsFold(f)
<1>1. /\ g = [edges |-> g.edges, elabel |-> g.elabel,
              around |-> g.around, vlabel |-> g.vlabel]
      /\ g.edges \in [IndexRange(ne) -> [Sides -> Old]]
      /\ g.elabel \in [IndexRange(ne) -> EL]
      /\ g.around \in [IndexRange(m) -> Seq(S)]
      /\ g.vlabel \in [IndexRange(m) -> VL]
      /\ DOMAIN g.edges = IndexRange(ne)
    BY DEF GraphsOf
<1>2. /\ N \in Nat
      /\ Len(order) = N
      /\ \A n \in 1 .. N : order[n] \in S /\ Rank(order[n]) = n - 1
    <2>1. DOMAIN g.edges = IndexRange(ne)
        BY <1>1
    <2>2. /\ Len(order) = N
          /\ order \in Seq(S)
          /\ \A n \in 1 .. N : Rank(order[n]) = n - 1
        BY <2>1, OrderOfExtremities, Zenon
    <2>3. N \in Nat
        OBVIOUS
    <2> HIDE DEF order, S, N
    <2>4. \A n \in 1 .. N : order[n] \in S
        BY <2>2, ElementOfSeq
    <2>5. QED
        BY <2>2, <2>3, <2>4
<1>3. /\ \A x \in S : old2new[VertexAt(g, x)] \in IndexRange(m)
      /\ \A w \in IndexRange(m) :
            /\ NoRepeat(g.around[w])
            /\ \A x : x \in ToSet(g.around[w]) <=>
                    x \in S /\ old2new[VertexAt(g, x)] = w
    BY DEF ListsFollowNewEnds
<1>4. ASSUME NEW n \in 0 .. N
      PROVE  /\ ends(n) \in [IndexRange(ne) -> [Sides -> Known]]
             /\ at(n) \in GraphsOf(ne, m, Known, EL, VL)
             /\ \A x \in S : VertexAt(at(n), x) =
                    IF Rank(x) < n THEN old2new[VertexAt(g, x)]
                                   ELSE VertexAt(g, x)
    <2>1. \A e \in IndexRange(ne), s \in Sides : end(n, e, s) \in Known
        <3> SUFFICES ASSUME NEW e \in IndexRange(ne), NEW s \in Sides
                     PROVE  end(n, e, s) \in Known
            OBVIOUS
        <3>1. old2new[g.edges[e][s]] \in IndexRange(m)
            <4>1. <<e, s>> \in S /\ VertexAt(g, <<e, s>>) = g.edges[e][s]
                BY DEF VertexAt
            <4>2. QED
                BY <1>3, <4>1
        <3>2. g.edges[e][s] \in Old
            BY <1>1
        <3>3. QED
            BY <3>1, <3>2
    <2>2. ends(n) \in [IndexRange(ne) -> [Sides -> Known]]
        <3> HIDE DEF end, Known
        <3>1. QED
            BY <2>1
    <2>3. \A x \in S : ends(n)[x[1]][x[2]] = end(n, x[1], x[2])
        OBVIOUS
    <2> DEFINE now == ends(n)
    <2> HIDE DEF now
    <2>4. at(n) = [edges |-> now, elabel |-> g.elabel,
                   around |-> g.around, vlabel |-> g.vlabel]
        BY DEF now
    <2>5. at(n) \in GraphsOf(ne, m, Known, EL, VL)
        <3>1. now \in [IndexRange(ne) -> [Sides -> Known]]
            BY <2>2 DEF now
        <3> HIDE DEF at, Known
        <3>2. QED
            BY <1>1, <2>4, <3>1 DEF GraphsOf
    <2>6. ASSUME NEW x \in S
          PROVE  VertexAt(at(n), x) =
                    IF Rank(x) < n THEN old2new[VertexAt(g, x)]
                                   ELSE VertexAt(g, x)
        <3>1. at(n).edges = now
            BY <2>4
        <3>2. VertexAt(at(n), x) = end(n, x[1], x[2])
            BY <2>3, <3>1, Zenon DEF VertexAt, now
        <3>3. QED
            BY <3>2 DEF Rank, VertexAt
    <2>7. QED
        BY <2>2, <2>5, <2>6
<1>5. at(0) = g
    <2>1. \A e \in IndexRange(ne), s \in Sides : end(0, e, s) = g.edges[e][s]
        BY DEF IndexRange, Sides
    <2> HIDE DEF end
    <2>2. ends(0) = g.edges
        BY <1>1, <2>1
    <2>3. QED
        BY <1>1, <2>2
<1>6. ASSUME NEW n \in 1 .. N
      PROVE  turn(at(n - 1), order[n]) = at(n)
    <2> DEFINE ev == order[n]
               before == at(n - 1)
               w == old2new[VertexAt(g, ev)]
               k == SetEdgeVertex(before, ev, w)
    <2>1. /\ n - 1 \in 0 .. N /\ n \in 0 .. N
          /\ ev \in S /\ Rank(ev) = n - 1
        BY <1>2
    <2>2. VertexAt(before, ev) = VertexAt(g, ev)
        <3>1. VertexAt(before, ev) =
                    IF Rank(ev) < n - 1 THEN old2new[VertexAt(g, ev)]
                                        ELSE VertexAt(g, ev)
            BY <1>4, <2>1, Zenon
        <3>2. ~ (Rank(ev) < n - 1)
            <4> HIDE DEF ev
            <4>1. QED
                BY <2>1
        <3> HIDE DEF before, ev
        <3>3. QED
            BY <3>1, <3>2
    <2>3. w \in IndexRange(m) /\ w = old2new[VertexAt(before, ev)]
        BY <1>3, <2>1, <2>2
    <2>4. before \in GraphsOf(ne, m, Known, EL, VL)
        BY <1>4, <2>1, Zenon
    <2>5. /\ before.edges = ends(n - 1)
          /\ before.elabel = g.elabel
          /\ before.around = g.around
          /\ before.vlabel = g.vlabel
        OBVIOUS
    <2>6. turn(before, ev) = k
        BY <2>2
    <2> HIDE DEF before, turn, k
    <2>7. /\ \A v \in IndexRange(m) : NoRepeat(before.around[v])
          /\ \A v \in IndexRange(m) : ev \in ToSet(before.around[v]) <=> v = w
        BY <1>3, <2>1, <2>5
    <2> HIDE DEF ev, w, at, ends
    <2>8. /\ k \in GraphsOf(ne, m, Known, EL, VL)
          /\ k.edges = WithEnd(before.edges, ev, w)
          /\ k.elabel = before.elabel
          /\ k.around = before.around
          /\ k.vlabel = before.vlabel
        BY <2>1, <2>3, <2>4, <2>7, TurnOfUpdate DEF k
    <2>9. WithEnd(ends(n - 1), ev, w) = ends(n)
        <3>1. /\ ends(n - 1) \in [IndexRange(ne) -> [Sides -> Known]]
              /\ ends(n) \in [IndexRange(ne) -> [Sides -> Known]]
            BY <1>4, <2>1
        <3>2. ASSUME NEW e \in IndexRange(ne), NEW s \in Sides
              PROVE  ends(n)[e][s] =
                        IF e = ev[1] /\ s = ev[2] THEN w ELSE ends(n - 1)[e][s]
            <4>1. <<e, s>> \in S /\ Rank(<<e, s>>) = 2 * e + s
                BY DEF Rank
            <4>2. 2 * e + s \in Nat
                BY DEF IndexRange, Sides
            <4>3. /\ ends(n)[e][s] = end(n, e, s)
                  /\ ends(n - 1)[e][s] = end(n - 1, e, s)
                BY DEF ends
            <4>4. CASE e = ev[1] /\ s = ev[2]
                <5>1. 2 * e + s = n - 1
                    BY <2>1, <4>4 DEF Rank
                <5>2. w = old2new[g.edges[e][s]]
                    BY <4>4 DEF w, VertexAt
                <5>3. QED
                    BY <4>3, <4>4, <5>1, <5>2
            <4>5. CASE ~ (e = ev[1] /\ s = ev[2])
                <5>1. Rank(<<e, s>>) # Rank(ev)
                    <6>1. <<e, s>> # ev
                        BY <4>5
                    <6>2. QED
                        BY <2>1, <4>1, <6>1, RankIsOneToOne
                <5>2. 2 * e + s # n - 1
                    BY <2>1, <4>1, <5>1
                <5>3. 2 * e + s < n <=> 2 * e + s < n - 1
                    BY <4>2, <5>2
                <5>4. QED
                    BY <4>3, <4>5, <5>3
            <4>6. QED
                BY <4>4, <4>5
        <3>3. ev[1] \in IndexRange(ne) /\ ev[2] \in Sides
            BY <2>1
        <3> HIDE DEF Known
        <3>4. QED
            BY <3>1, <3>2, <3>3 DEF WithEnd
    <2>10. k = [edges |-> k.edges, elabel |-> k.elabel,
                around |-> k.around, vlabel |-> k.vlabel]
        BY <2>8 DEF GraphsOf
    <2>11. k = at(n)
        BY <2>5, <2>8, <2>9, <2>10 DEF at
    <2>12. QED
        BY <2>6, <2>11 DEF before, ev
<1>7. IsFold([n \in 0 .. N |-> at(n)])
    <2> DEFINE f == [n \in 0 .. N |-> at(n)]
    <2>1. ASSUME NEW n \in 0 .. N
          PROVE  f[n] = IF n = 0 THEN g ELSE turn(f[n - 1], order[n])
        <3> HIDE DEF at, turn, order
        <3>1. CASE n = 0
            BY <1>2, <1>5, <3>1
        <3>2. CASE n # 0
            <4>1. n \in 1 .. N /\ n - 1 \in 0 .. N
                BY <3>2
            <4>2. f[n - 1] = at(n - 1) /\ f[n] = at(n)
                BY <4>1
            <4>3. QED
                BY <1>6, <3>2, <4>1, <4>2
        <3>3. QED
            BY <3>1, <3>2
    <2> HIDE DEF at, turn, order
    <2>2. QED
        BY <1>2, <2>1
<1>8. IsFold(fold)
    <2> HIDE DEF at, turn, order
    <2>1. QED
        BY <1>7
<1>9. UpdateEdgeVertices(g, old2new) = fold[N]
    <2>1. UpdateEdgeVertices(g, old2new) = fold[Len(order)]
        BY DEF UpdateEdgeVertices, FoldInOrder
    <2>2. QED
        BY <1>2, <2>1
<1>10. fold[N] = at(N)
    <2> DEFINE J == [n \in 0 .. N |-> {at(n)}]
    <2> HIDE DEF at, turn, order, fold, N
    <2>1. fold[0] \in J[0]
        BY <1>2, <1>5, <1>8
    <2>2. ASSUME NEW n \in 1 .. N, fold[n - 1] \in J[n - 1]
          PROVE  fold[n] \in J[n]
        <3>1. n - 1 \in 0 .. N /\ n \in 0 .. N /\ n # 0
            BY <1>2
        <3>2. fold[n - 1] = at(n - 1)
            BY <2>2, <3>1
        <3>3. fold[n] = turn(fold[n - 1], order[n])
            BY <1>2, <1>8, <3>1
        <3>4. QED
            BY <1>6, <3>1, <3>2, <3>3
    <2> HIDE DEF J
    <2>3. \A n \in 0 .. N : fold[n] \in J[n]
        BY <1>2, <2>1, <2>2, LoopInvariant
    <2>4. QED
        BY <1>2, <2>3 DEF J
<1>11. ends(N) = NewEnds(g.edges, old2new)
    <2>1. \A e \in IndexRange(ne), s \in Sides :
            end(N, e, s) = old2new[g.edges[e][s]]
        BY DEF IndexRange, Sides
    <2> HIDE DEF end, N
    <2>2. QED
        BY <1>1, <2>1 DEF NewEnds
<1>12. at(N) \in DualGraphs(ne, m, EL, VL)
    <2> DEFINE h == at(N)
               edges == ends(N)
    <2>1. N \in 0 .. N
        BY <1>2
    <2>2. \A x \in S : VertexAt(h, x) = old2new[VertexAt(g, x)]
        <3>1. \A x \in S : Rank(x) < N
            BY RankIsOneToOne
        <3>2. QED
            BY <1>4, <2>1, <3>1
    <2>3. h = [edges |-> edges, elabel |-> g.elabel,
               around |-> g.around, vlabel |-> g.vlabel]
        OBVIOUS
    <2>4. edges \in [IndexRange(ne) -> [Sides -> Ends(m)]]
        <3>1. edges \in [IndexRange(ne) -> [Sides -> Known]]
            BY <1>4, <2>1
        <3>2. h.edges = edges
            BY <2>3
        <3> HIDE DEF h, edges, Known
        <3>3. \A e \in IndexRange(ne), s \in Sides :
                edges[e][s] = old2new[VertexAt(g, <<e, s>>)]
            <4> SUFFICES ASSUME NEW e \in IndexRange(ne), NEW s \in Sides
                         PROVE  edges[e][s] = old2new[VertexAt(g, <<e, s>>)]
                OBVIOUS
            <4>1. VertexAt(h, <<e, s>>) = edges[e][s]
                BY <3>2 DEF VertexAt
            <4>2. <<e, s>> \in S
                OBVIOUS
            <4>3. QED
                BY <2>2, <4>1, <4>2
        <3>4. \A e \in IndexRange(ne), s \in Sides : edges[e][s] \in Ends(m)
            <4> SUFFICES ASSUME NEW e \in IndexRange(ne), NEW s \in Sides
                         PROVE  edges[e][s] \in Ends(m)
                OBVIOUS
            <4>1. <<e, s>> \in S
                OBVIOUS
            <4>2. edges[e][s] \in IndexRange(m)
                BY <1>3, <3>3, <4>1
            <4>3. QED
                BY <4>2 DEF Ends
        <3>5. QED
            BY <3>1, <3>4
    <2> HIDE DEF h, edges
    <2>5. h \in GraphsOf(ne, m, Ends(m), EL, VL)
        BY <1>1, <2>3, <2>4 DEF GraphsOf
    <2>6. h.around = g.around
        BY <2>3
    <2>7. ListsFollowEdges(h, ne, m)
        BY <1>3, <2>2, <2>6 DEF ListsFollowEdges
    <2>8. QED
        BY <2>5, <2>7 DEF DualGraphs, h
<1>13. /\ at(N).edges = ends(N)
       /\ at(N).elabel = g.elabel
       /\ at(N).vlabel = g.vlabel
    OBVIOUS
<1>14. QED
    <2> HIDE DEF at, ends, fold, N
    <2>1. QED
        BY <1>9, <1>10, <1>11, <1>12, <1>13

\* The graph g with other attributes of the vertices.
WithVertices(g, around, vlabel) ==
    [g EXCEPT !.around = around, !.vlabel = vlabel]

\* They alone are replaced.
LEMMA VerticesReplaced ==
    ASSUME NEW a, NEW b, NEW c, NEW d, NEW x, NEW y, NEW g,
           g = [edges |-> a, elabel |-> b, around |-> c, vlabel |-> d]
    PROVE  WithVertices(g, x, y)
            = [edges |-> a, elabel |-> b, around |-> x, vlabel |-> y]
<1>1. PICK h : h = [edges |-> a, elabel |-> b, around |-> x, vlabel |-> d]
    OBVIOUS
<1>2. [g EXCEPT !.around = x] = h
    BY <1>1
<1>3. [h EXCEPT !.vlabel = y]
        = [edges |-> a, elabel |-> b, around |-> x, vlabel |-> y]
    BY <1>1
<1>4. [g EXCEPT !.around = x, !.vlabel = y]
        = [[g EXCEPT !.around = x] EXCEPT !.vlabel = y]
    OBVIOUS
<1>5. QED
    BY <1>2, <1>3, <1>4 DEF WithVertices

\* A vector of n elements.
IsVector(f, n) == f = [i \in IndexRange(n) |-> f[i]]

\* Every vertex with edges has a new index.
KeepsJoined(g, old2new, nv) ==
    \A v \in IndexRange(nv) : g.around[v] # <<>> => old2new[v] # NoId

\* All ends of edges are set.
EndsSet(g, ne) == \A x \in IndexRange(ne) \X Sides : VertexAt(g, x) # NoId

\* update_edge_vertices(), after the attributes of the vertices are renumbered
\* in the same way, keeps the lists in step with the edges.
LEMMA RenumberedVertices ==
    ASSUME NEW ne \in Nat, NEW nv \in Nat, NEW EL, NEW VL,
           NEW g \in DualGraphs(ne, nv, EL, VL), EndsSet(g, ne),
           NEW m \in Nat, NEW old2new,
           NEW around, Renumbers(old2new, nv, m, g.around, around),
           IsVector(around, m), NEW vlabel \in [IndexRange(m) -> VL],
           KeepsJoined(g, old2new, nv)
    PROVE  LET h == UpdateEdgeVertices(WithVertices(g, around, vlabel), old2new)
           IN  /\ h \in DualGraphs(ne, m, EL, VL)
               /\ h.edges = NewEnds(g.edges, old2new)
               /\ h.elabel = g.elabel
               /\ h.vlabel = vlabel
<1> DEFINE S == IndexRange(ne) \X Sides
           k == WithVertices(g, around, vlabel)
<1>1. /\ g = [edges |-> g.edges, elabel |-> g.elabel,
              around |-> g.around, vlabel |-> g.vlabel]
      /\ g.edges \in [IndexRange(ne) -> [Sides -> Ends(nv)]]
      /\ g.elabel \in [IndexRange(ne) -> EL]
      /\ g.around \in [IndexRange(nv) -> Seq(S)]
    BY DEF DualGraphs, GraphsOf
<1>2. \A w \in IndexRange(nv) :
            /\ NoRepeat(g.around[w])
            /\ \A x : x \in ToSet(g.around[w]) <=> x \in S /\ VertexAt(g, x) = w
    BY DEF DualGraphs, ListsFollowEdges
<1>3. /\ \A v \in IndexRange(nv) :
            old2new[v] # NoId => old2new[v] \in IndexRange(m)
      /\ \A u, v \in IndexRange(nv) :
            old2new[u] # NoId /\ old2new[u] = old2new[v] => u = v
      /\ \A w \in IndexRange(m) : \E v \in IndexRange(nv) :
            old2new[v] = w /\ around[w] = g.around[v]
    BY DEF Renumbers
<1>4. k = [edges |-> g.edges, elabel |-> g.elabel,
           around |-> around, vlabel |-> vlabel]
    BY <1>1, VerticesReplaced
<1>5. around \in [IndexRange(m) -> Seq(S)]
    BY <1>1, <1>3 DEF IsVector
<1> HIDE DEF k
<1>6. k \in GraphsOf(ne, m, Ends(nv), EL, VL)
    BY <1>1, <1>4, <1>5 DEF GraphsOf
<1>7. k.around = around /\ \A x : VertexAt(k, x) = VertexAt(g, x)
    BY <1>4 DEF VertexAt
<1>8. ASSUME NEW x \in S
      PROVE  /\ VertexAt(g, x) \in IndexRange(nv)
             /\ old2new[VertexAt(g, x)] \in IndexRange(m)
             /\ old2new[VertexAt(g, x)] # NoId
    <2>1. VertexAt(g, x) \in Ends(nv)
        BY <1>1 DEF VertexAt
    <2>2. VertexAt(g, x) \in IndexRange(nv)
        BY <2>1 DEF EndsSet, Ends
    <2>3. g.around[VertexAt(g, x)] # <<>>
        <3>1. x \in ToSet(g.around[VertexAt(g, x)])
            BY <1>2, <2>2
        <3>2. x \notin ToSet(<<>>)
            BY DEF ToSet
        <3>3. QED
            BY <3>1, <3>2
    <2>4. QED
        BY <1>3, <2>2, <2>3 DEF KeepsJoined
<1>9. ASSUME NEW w \in IndexRange(m)
      PROVE  /\ NoRepeat(k.around[w])
             /\ \A x : x \in ToSet(k.around[w]) <=>
                        x \in S /\ old2new[VertexAt(k, x)] = w
    <2>1. PICK v \in IndexRange(nv) : old2new[v] = w /\ around[w] = g.around[v]
        BY <1>3
    <2>2. w # NoId
        BY DEF IndexRange, NoId
    <2>3. ASSUME NEW x \in S
          PROVE  VertexAt(g, x) = v <=> old2new[VertexAt(g, x)] = w
        BY <1>3, <1>8, <2>1, <2>2
    <2>4. QED
        BY <1>2, <1>7, <2>1, <2>3
<1>10. ListsFollowNewEnds(k, old2new, ne, m)
    BY <1>7, <1>8, <1>9 DEF ListsFollowNewEnds
<1>11. LET h == UpdateEdgeVertices(k, old2new)
       IN  /\ h \in DualGraphs(ne, m, EL, VL)
           /\ h.edges = NewEnds(k.edges, old2new)
           /\ h.elabel = k.elabel
           /\ h.vlabel = k.vlabel
    BY <1>6, <1>10, UpdatedEnds
<1>12. k.edges = g.edges /\ k.elabel = g.elabel /\ k.vlabel = vlabel
    BY <1>4
<1>13. QED
    BY <1>11, <1>12 DEF k

\* delete_vertices() of isolated vertices removes them and keeps the lists in
\* step.
LEMMA DeletedVertices ==
    ASSUME NEW ne \in Nat, NEW nv \in Nat, NEW EL, NEW VL,
           NEW g \in DualGraphs(ne, nv, EL, VL), EndsSet(g, ne),
           NEW D, D \subseteq IsolatedVertices(g)
    PROVE  LET h == DeleteVertices(g, D)
               m == NbKept(nv, D)
           IN  /\ m \in Nat
               /\ h \in DualGraphs(ne, m, EL, VL)
               /\ h.edges = NewEnds(g.edges, MappingAfterDeletion(nv, D))
               /\ h.elabel = g.elabel
               /\ h.vlabel = DeleteElements(g.vlabel, D)
<1> USE DEF NbKept
<1> DEFINE S == IndexRange(ne) \X Sides
           h == DeleteVertices(g, D)
           m == Cardinality(IndexRange(nv) \ D)
           old2new == MappingAfterDeletion(nv, D)
           around == DeleteElements(g.around, D)
           vlabel == DeleteElements(g.vlabel, D)
<1>1. /\ g.edges \in [IndexRange(ne) -> [Sides -> Ends(nv)]]
      /\ g.around \in [IndexRange(nv) -> Seq(S)]
      /\ g.vlabel \in [IndexRange(nv) -> VL]
      /\ DOMAIN g.around = IndexRange(nv)
      /\ DOMAIN g.vlabel = IndexRange(nv)
      /\ DOMAIN g.edges = IndexRange(ne)
    BY DEF DualGraphs, GraphsOf
<1>2. m \in Nat
    BY <1>1, DeletedVectorSize
<1>3. CASE D = {}
    <2>1. h = g
        BY <1>3 DEF DeleteVertices
    <2>2. m = nv
        <3>1. IndexRange(nv) \ D = IndexRange(nv)
            BY <1>3
        <3>2. QED
            BY <3>1, SizeOfVector
    <2>3. vlabel = g.vlabel
        <3>1. DeleteElements(g.vlabel, {}) = g.vlabel
            BY <1>1, DeletedNothing
        <3>2. QED
            BY <1>3, <3>1
    <2>4. \A i \in IndexRange(nv) : old2new[i] = i
        <3> SUFFICES ASSUME NEW i \in IndexRange(nv)
                     PROVE  old2new[i] = i
            OBVIOUS
        <3>1. KeptBelow(i, {}) = IndexRange(i) /\ i \in Nat
            BY DEF KeptBelow, IndexRange
        <3>2. Cardinality(KeptBelow(i, {})) = i
            BY <3>1, SizeOfVector
        <3>3. QED
            BY <1>3, <3>2 DEF MappingAfterDeletion
    <2>5. NewEnds(g.edges, old2new) = g.edges
        <3>1. \A e \in IndexRange(ne), s \in Sides :
                g.edges[e][s] \in IndexRange(nv)
            <4> SUFFICES ASSUME NEW e \in IndexRange(ne), NEW s \in Sides
                         PROVE  g.edges[e][s] \in IndexRange(nv)
                OBVIOUS
            <4>1. VertexAt(g, <<e, s>>) # NoId /\ <<e, s>> \in S
                BY DEF EndsSet
            <4>2. QED
                BY <1>1, <4>1 DEF VertexAt, Ends
        <3> DEFINE edges == g.edges
        <3>2. edges \in [IndexRange(ne) -> [Sides -> Ends(nv)]]
            BY <1>1
        <3> HIDE DEF old2new, edges
        <3>3. \A e \in IndexRange(ne) :
                [side \in Sides |-> old2new[edges[e][side]]] = edges[e]
            BY <2>4, <3>1, <3>2 DEF edges
        <3>4. NewEnds(edges, old2new) = edges
            BY <3>2, <3>3 DEF NewEnds
        <3>5. QED
            BY <3>4 DEF edges
    <2> HIDE DEF m, h, vlabel, old2new
    <2>6. QED
        BY <1>2, <2>1, <2>2, <2>3, <2>5 DEF m, h, vlabel, old2new
<1>4. CASE D # {}
    <2>1. NbVertices(g) = nv
        BY <1>1, SizeOfVector DEF NbVertices
    <2>2. h = UpdateEdgeVertices(WithVertices(g, around, vlabel), old2new)
        BY <1>4, <2>1, Zenon DEF DeleteVertices, WithVertices
    <2>3. vlabel \in [IndexRange(m) -> VL]
        BY <1>1, DeletedVectorType
    <2>4. \A v \in IndexRange(nv) : old2new[v] # NoId <=> v \notin D
        <3> SUFFICES ASSUME NEW v \in IndexRange(nv)
                     PROVE  old2new[v] # NoId <=> v \notin D
            OBVIOUS
        <3>1. v \in Nat
            BY DEF IndexRange
        <3>2. Cardinality(KeptBelow(v, D)) \in 0 .. v
            BY <3>1, KeptBelowIsFinite
        <3>3. QED
            BY <3>1, <3>2 DEF MappingAfterDeletion, NoId
    <2>5. \A v \in IndexRange(nv) :
            old2new[v] # NoId => old2new[v] \in IndexRange(m)
        BY <2>4, MappingIsOneToOne
    <2>6. \A u, v \in IndexRange(nv) :
            old2new[u] # NoId /\ old2new[u] = old2new[v] => u = v
        BY <2>4, MappingIsOneToOne
    <2>7. \A k \in IndexRange(m) : \E v \in IndexRange(nv) :
            old2new[v] = k /\ around[k] = g.around[v]
        <3> DEFINE f == g.around
        <3>1. DOMAIN f = IndexRange(nv)
            BY <1>1
        <3> HIDE DEF f
        <3>2. \A k \in IndexRange(m) : \E v \in IndexRange(nv) \ D :
                old2new[v] = k /\ DeleteElements(f, D)[k] = f[v]
            BY <3>1, DeletedVectorComesFromKept
        <3>3. QED
            BY <3>2 DEF f
    <2>8. Renumbers(old2new, nv, m, g.around, around)
        <3> HIDE DEF old2new, around, m
        <3>1. QED
            BY <2>5, <2>6, <2>7 DEF Renumbers
    <2>9. KeepsJoined(g, old2new, nv)
        BY <1>1, <2>4 DEF IsolatedVertices, GraphVertices, KeepsJoined
    <2>10. IsVector(around, m)
        <3>1. DOMAIN around = IndexRange(m)
            BY <1>1, DeletedVectorSize
        <3>2. around = [w \in DOMAIN around |-> around[w]]
            BY DEF DeleteElements
        <3> HIDE DEF around, m
        <3>3. QED
            BY <3>1, <3>2 DEF IsVector
    <2> HIDE DEF h, m, old2new, around, vlabel
    <2>11. LET k == UpdateEdgeVertices(WithVertices(g, around, vlabel), old2new)
           IN  /\ k \in DualGraphs(ne, m, EL, VL)
               /\ k.edges = NewEnds(g.edges, old2new)
               /\ k.elabel = g.elabel
               /\ k.vlabel = vlabel
        BY <1>2, <2>3, <2>8, <2>9, <2>10, RenumberedVertices
    <2>12. QED
        BY <1>2, <2>2, <2>11 DEF h, m, old2new, vlabel
<1> DEFINE edges == NewEnds(g.edges, old2new)
<1>5. /\ h \in DualGraphs(ne, m, EL, VL)
      /\ h.edges = edges
      /\ h.elabel = g.elabel
      /\ h.vlabel = vlabel
    BY <1>3, <1>4
<1> HIDE DEF h, edges, vlabel
<1>6. QED
    BY <1>2, <1>5 DEF h, edges, vlabel, old2new

\* permute_vertices() renumbers the vertices and keeps the lists in step.
LEMMA PermutedVertices ==
    ASSUME NEW ne \in Nat, NEW nv \in Nat, NEW EL, NEW VL,
           NEW g \in DualGraphs(ne, nv, EL, VL), EndsSet(g, ne),
           NEW p \in Bijection(IndexRange(nv), IndexRange(nv))
    PROVE  LET h == PermuteVertices(g, p)
           IN  /\ h \in DualGraphs(ne, nv, EL, VL)
               /\ h.edges = NewEnds(g.edges, Old2NewPermutation(p))
               /\ h.elabel = g.elabel
               /\ h.vlabel = PermuteElements(g.vlabel, p)
<1> DEFINE S == IndexRange(ne) \X Sides
           h == PermuteVertices(g, p)
           old2new == Old2NewPermutation(p)
           around == PermuteElements(g.around, p)
           vlabel == PermuteElements(g.vlabel, p)
<1>1. /\ g.around \in [IndexRange(nv) -> Seq(S)]
      /\ g.vlabel \in [IndexRange(nv) -> VL]
      /\ DOMAIN g.around = IndexRange(nv)
    BY DEF DualGraphs, GraphsOf
<1>2. h = UpdateEdgeVertices(WithVertices(g, around, vlabel), old2new)
    BY Zenon DEF PermuteVertices, WithVertices
<1>3. vlabel \in [IndexRange(nv) -> VL]
    BY <1>1, PermutedVectorType
<1>4. \A v \in IndexRange(nv) : /\ old2new[v] \in IndexRange(nv)
                                /\ old2new[p[v]] = v
                                /\ p[old2new[v]] = v
    BY Old2NewInvertsPermutation
<1>5. \A v \in IndexRange(nv) : p[v] \in IndexRange(nv)
    BY DEF Bijection, Injection, Surjection
<1>6. \A v \in IndexRange(nv) : old2new[v] # NoId
    <2>1. NoId \notin IndexRange(nv)
        BY DEF IndexRange, NoId
    <2>2. QED
        BY <1>4, <2>1
<1>7. /\ DOMAIN around = IndexRange(nv)
      /\ around = [w \in DOMAIN around |-> around[w]]
      /\ \A k \in IndexRange(nv) : around[k] = g.around[p[k]]
    BY <1>1 DEF PermuteElements
<1> HIDE DEF h, old2new, around, vlabel
<1>8. IsVector(around, nv)
    BY <1>7 DEF IsVector
<1>9. KeepsJoined(g, old2new, nv)
    BY <1>6 DEF KeepsJoined
<1>10. Renumbers(old2new, nv, nv, g.around, around)
    <2>1. \A v \in IndexRange(nv) :
            old2new[v] # NoId => old2new[v] \in IndexRange(nv)
        BY <1>4
    <2>2. \A u, v \in IndexRange(nv) :
            old2new[u] # NoId /\ old2new[u] = old2new[v] => u = v
        BY <1>4
    <2>3. \A k \in IndexRange(nv) : \E v \in IndexRange(nv) :
            old2new[v] = k /\ around[k] = g.around[v]
        BY <1>4, <1>5, <1>7
    <2>4. QED
        BY <2>1, <2>2, <2>3 DEF Renumbers
<1>11. LET k == UpdateEdgeVertices(WithVertices(g, around, vlabel), old2new)
      IN  /\ k \in DualGraphs(ne, nv, EL, VL)
          /\ k.edges = NewEnds(g.edges, old2new)
          /\ k.elabel = g.elabel
          /\ k.vlabel = vlabel
    BY <1>3, <1>10, <1>8, <1>9, RenumberedVertices
<1>12. QED
    BY <1>2, <1>11 DEF h, old2new, vlabel

-----------------------------------------------------------------------------
\* Every end of an edge at old is at new.
MovedEnds(edges, old, new) ==
    [e \in DOMAIN edges |-> [side \in Sides |->
        IF edges[e][side] = old THEN new ELSE edges[e][side]]]

\* A list of one element becomes empty.
LEMMA OneIsErased ==
    ASSUME NEW ev
    PROVE  /\ PlaceIn(<<ev>>, ev) = 1
           /\ RemoveFirst(<<ev>>, ev) = <<>>
<1> DEFINE list == <<ev>>
           I == {i \in 1 .. Len(list) : list[i] = ev}
<1>1. I = {1} /\ \E i \in 1 .. Len(list) : list[i] = ev
    OBVIOUS
<1>2. SelectInSeq(list, LAMBDA x : x = ev) = Min(I)
    BY <1>1, Zenon DEF SelectInSeq
<1>3. Min(I) = 1
    <2>1. Min({1}) = 1
        BY DEF Min
    <2> HIDE DEF I
    <2>2. QED
        BY <1>1, <2>1
<1>4. RemoveFirst(list, ev) = RemoveAt(list, 1)
    BY <1>1, <1>2, <1>3, Zenon DEF RemoveFirst
<1>5. RemoveAt(list, 1) = <<>>
    BY DEF RemoveAt
<1>6. PlaceIn(list, ev) = SelectInSeq(list, LAMBDA x : x = ev)
    BY Zenon DEF PlaceIn
<1>7. QED
    BY <1>2, <1>3, <1>4, <1>5, <1>6, Zenon

\* All of a list of one element is that list.
LEMMA OneIsKept ==
    ASSUME NEW ev
    PROVE  SubSeq(<<ev>>, 1, 1) = <<ev>>
<1> DEFINE list == <<ev>>
           part == SubSeq(list, 1, 1)
<1>1. list \in Seq({ev}) /\ Len(list) = 1 /\ list[1] = ev
    OBVIOUS
<1>2. part \in Seq({ev}) /\ Len(part) = 1
    BY <1>1, SubSeqProperties
<1> HIDE DEF list, part
<1>3. part[1] = ev
    BY <1>2
<1>4. part = list
    BY <1>1, <1>2, <1>3, SeqEqual
<1>5. QED
    BY <1>4 DEF part, list

\* Erasing the only live slot leaves its value in storage.
LEMMA OneSlotIsErased ==
    ASSUME NEW ev, NEW w, w.slots = <<ev>>, w.live = 1
    PROVE  EraseSlot(w, ev) = [w EXCEPT !.live = 0, !.slots = <<ev>>]
<1> DEFINE shifted == ShiftSlots(w.slots, 1, w.live)
           place == PlaceIn(SubSeq(w.slots, 1, w.live), ev)
<1>1. SubSeq(w.slots, 1, w.live) = <<ev>>
    <2>1. SubSeq(<<ev>>, 1, 1) = <<ev>>
        BY OneIsKept
    <2>2. SubSeq(w.slots, 1, w.live) = SubSeq(<<ev>>, 1, 1)
        OBVIOUS
    <2>3. QED
        BY <2>1, <2>2, Zenon
<1>2. place = 1
    <2>1. PlaceIn(<<ev>>, ev) = 1
        BY OneIsErased
    <2>2. QED
        BY <1>1, <2>1, Zenon
<1>3. EraseSlot(w, ev) = IF place = 0 THEN w ELSE
        [w EXCEPT !.live = w.live - 1,
                  !.slots = ShiftSlots(w.slots, place, w.live)]
    BY Zenon DEF EraseSlot
<1> HIDE DEF place
<1>4. EraseSlot(w, ev) = [w EXCEPT !.live = w.live - 1, !.slots = shifted]
    BY <1>2, <1>3
<1>5. shifted = <<ev>>
    <2>1. /\ \A k \in {1} : ~ (k \in 1 .. w.live - 1)
          /\ DOMAIN w.slots = {1}
          /\ w.slots[1] = ev
        OBVIOUS
    <2>2. shifted = [k \in {1} |-> ev]
        BY <2>1 DEF ShiftSlots
    <2>3. QED
        BY <2>2
<1>6. w.live - 1 = 0
    OBVIOUS
<1> HIDE DEF shifted
<1>7. QED
    BY <1>4, <1>5, <1>6, Zenon

\* The state of the loop with other slots of its list.
WithSlots(w, live, slots) == [w EXCEPT !.live = live, !.slots = slots]

\* They alone are replaced.
LEMMA SlotsReplaced ==
    ASSUME NEW a, NEW b, NEW c, NEW d, NEW e, NEW x, NEW y, NEW w,
           w = [graph |-> a, slots |-> b, live |-> c, from |-> d, to |-> e]
    PROVE  WithSlots(w, x, y)
            = [graph |-> a, slots |-> y, live |-> x, from |-> d, to |-> e]
<1>1. PICK h : h = [graph |-> a, slots |-> b, live |-> x, from |-> d, to |-> e]
    OBVIOUS
<1>2. [w EXCEPT !.live = x] = h
    BY <1>1
<1>3. [h EXCEPT !.slots = y]
        = [graph |-> a, slots |-> y, live |-> x, from |-> d, to |-> e]
    BY <1>1
<1>4. [w EXCEPT !.live = x, !.slots = y]
        = [[w EXCEPT !.live = x] EXCEPT !.slots = y]
    OBVIOUS
<1>5. QED
    BY <1>2, <1>3, <1>4 DEF WithSlots

\* The only turn of the loop of replace_vertex(), for a vertex old with one
\* extremity: that of set_edge_vertex().
LEMMA TurnOfReplace ==
    ASSUME NEW g, NEW old, NEW new, old # new, NEW ev,
           old \in DOMAIN g.around, g.around[old] = <<ev>>,
           VertexAt(g, ev) = old,
           NEW w, w = [graph |-> g, slots |-> <<ev>>, live |-> 1,
                       from |-> old, to |-> new]
    PROVE  ReplaceVertexStep(w, 1).graph = SetEdgeVertex(g, ev, new)
<1> DEFINE erased == EraseSlot(w, w.slots[1])
           named == erased.slots[1]
           rest == SubSeq(erased.slots, 1, erased.live)
           cut == [w.graph EXCEPT !.around[w.from] = rest]
           moved == SetEnd(AddToList(cut, named, w.to), named, w.to)
<1>1. /\ w.slots = <<ev>> /\ w.live = 1 /\ w.graph = g
      /\ w.from = old /\ w.to = new
      /\ w.slots[1] = ev /\ DOMAIN w.slots = {1}
    OBVIOUS
<1>2. ReplaceVertexStep(w, 1) =
        IF VertexAt(w.graph, w.slots[1]) = w.to
        THEN w ELSE [erased EXCEPT !.graph = moved]
    BY Zenon DEF ReplaceVertexStep
<1>3. erased = [graph |-> g, slots |-> <<ev>>, live |-> 0,
                from |-> old, to |-> new]
    <2>1. erased = EraseSlot(w, ev)
        BY <1>1, Zenon
    <2>2. EraseSlot(w, ev) = WithSlots(w, 0, <<ev>>)
        BY <1>1, OneSlotIsErased, Zenon DEF WithSlots
    <2>3. WithSlots(w, 0, <<ev>>)
            = [graph |-> g, slots |-> <<ev>>, live |-> 0,
               from |-> old, to |-> new]
        BY SlotsReplaced
    <2> HIDE DEF erased
    <2>4. QED
        BY <2>1, <2>2, <2>3, Zenon
<1> HIDE DEF erased
<1>4. named = ev
    BY <1>3
<1>5. rest = <<>>
    BY <1>3
<1>6. cut = Disassociate(g, ev)
    <2>1. Disassociate(g, ev) = [g EXCEPT !.around[old] = RemoveFirst(@, ev)]
        BY DEF Disassociate, GraphVertices
    <2>2. RemoveFirst(g.around[old], ev) = <<>>
        BY OneIsErased
    <2>3. QED
        BY <1>1, <1>5, <2>1, <2>2
<1>7. moved = SetEdgeVertex(g, ev, new)
    <2> HIDE DEF cut, named
    <2>1. moved = SetEnd(AddToList(cut, ev, new), ev, new)
        BY <1>1, <1>4
    <2>2. SetEdgeVertex(g, ev, new)
            = SetEnd(AddToList(Disassociate(g, ev), ev, new), ev, new)
        BY DEF SetEdgeVertex, Associate
    <2>3. QED
        BY <1>6, <2>1, <2>2
<1> HIDE DEF moved
<1>8. [erased EXCEPT !.graph = moved].graph = moved
    BY <1>3
<1>9. QED
    BY <1>1, <1>2, <1>7, <1>8

\* replace_vertex() of a vertex with at most one extremity.
LEMMA ReplacedVertex ==
    ASSUME NEW ne \in Nat, NEW nv \in Nat, NEW EL, NEW VL,
           NEW g \in DualGraphs(ne, nv, EL, VL),
           NEW old \in IndexRange(nv), NEW new \in IndexRange(nv),
           Len(g.around[old]) <= 1
    PROVE  LET h == ReplaceVertex(g, old, new)
           IN  /\ h \in DualGraphs(ne, nv, EL, VL)
               /\ h.edges = MovedEnds(g.edges, old, new)
               /\ h.elabel = g.elabel
               /\ h.vlabel = g.vlabel
<1> DEFINE S == IndexRange(ne) \X Sides
           slots == g.around[old]
           base == [graph |-> g, slots |-> slots, live |-> Len(slots),
                    from |-> old, to |-> new]
           list == [i \in DOMAIN slots |-> i]
           IsFold(f) == f = [n \in 0 .. Len(list) |-> IF n = 0 THEN base
                                ELSE ReplaceVertexStep(f[n - 1], list[n])]
           fold == CHOOSE f : IsFold(f)
           h == ReplaceVertex(g, old, new)
<1>1. /\ g.edges \in [IndexRange(ne) -> [Sides -> Ends(nv)]]
      /\ g.around \in [IndexRange(nv) -> Seq(S)]
      /\ slots \in Seq(S)
    BY DEF DualGraphs, GraphsOf
<1>2. \A x : x \in ToSet(slots) <=> x \in S /\ VertexAt(g, x) = old
    BY DEF DualGraphs, ListsFollowEdges
<1>3. \A e \in IndexRange(ne), s \in Sides :
            g.edges[e][s] = old <=> <<e, s>> \in ToSet(slots)
    BY <1>2 DEF VertexAt
<1>4. CASE old = new
    <2>1. h = g
        BY <1>4 DEF ReplaceVertex
    <2> DEFINE edges == g.edges
    <2>2. edges \in [IndexRange(ne) -> [Sides -> Ends(nv)]]
        BY <1>1
    <2> HIDE DEF edges
    <2>3. \A e \in IndexRange(ne) :
            [side \in Sides |-> IF edges[e][side] = old
                                THEN new ELSE edges[e][side]] = edges[e]
        BY <1>4, <2>2
    <2>4. MovedEnds(edges, old, new) = edges
        BY <2>2, <2>3 DEF MovedEnds
    <2>5. MovedEnds(g.edges, old, new) = g.edges
        BY <2>4 DEF edges
    <2>6. /\ g \in DualGraphs(ne, nv, EL, VL)
          /\ g.edges = MovedEnds(g.edges, old, new)
        BY <2>5
    <2> HIDE DEF h
    <2>7. h \in DualGraphs(ne, nv, EL, VL) /\ h.edges = g.edges
          /\ h.elabel = g.elabel /\ h.vlabel = g.vlabel
        BY <2>1
    <2>8. QED
        BY <2>6, <2>7 DEF h
<1>5. CASE old # new /\ Len(slots) = 0
    <2>1. slots = <<>>
        BY <1>1, <1>5
    <2>2. list = <<>> /\ Len(list) = 0
        BY <2>1
    <2>3. IsFold([n \in 0 .. 0 |-> base])
        <3> DEFINE f == [n \in 0 .. 0 |-> base]
        <3> HIDE DEF base, list
        <3>1. \A n \in 0 .. 0 : n = 0 /\ f[n] = base
            OBVIOUS
        <3>2. f = [n \in 0 .. 0 |-> f[n]]
            OBVIOUS
        <3> HIDE DEF f
        <3>3. f = [n \in 0 .. 0 |-> IF n = 0 THEN base
                        ELSE ReplaceVertexStep(f[n - 1], list[n])]
            BY <3>1, <3>2
        <3>4. IsFold(f)
            BY <2>2, <3>3
        <3>5. QED
            BY <3>4 DEF f
    <2>4. IsFold(fold)
        <3> HIDE DEF base, list
        <3>1. QED
            BY <2>3
    <2>5. fold[0] = base
        <3> HIDE DEF fold, base, list
        <3>1. QED
            BY <2>2, <2>4
    <2>6. h = fold[Len(list)].graph
        BY <1>5 DEF ReplaceVertex, FoldInOrder
    <2>7. h = g
        <3> HIDE DEF fold, list, h
        <3>1. QED
            BY <2>2, <2>5, <2>6
    <2> DEFINE edges == g.edges
    <2>8. edges \in [IndexRange(ne) -> [Sides -> Ends(nv)]]
        BY <1>1
    <2>9. \A e \in IndexRange(ne), s \in Sides : edges[e][s] # old
        BY <1>3, <2>1 DEF ToSet
    <2> HIDE DEF edges
    <2>10. \A e \in IndexRange(ne) :
            [side \in Sides |-> IF edges[e][side] = old
                                THEN new ELSE edges[e][side]] = edges[e]
        BY <2>8, <2>9
    <2>11. MovedEnds(edges, old, new) = edges
        BY <2>8, <2>10 DEF MovedEnds
    <2>12. QED
        BY <2>7, <2>11 DEF edges
<1>6. CASE old # new /\ Len(slots) = 1
    <2> DEFINE ev == slots[1]
               k == SetEdgeVertex(g, ev, new)
    <2>1. slots = <<ev>>
        <3>1. <<ev>> \in Seq(S) /\ Len(<<ev>>) = 1
            BY <1>1, <1>6
        <3>2. QED
            BY <1>1, <1>6, <3>1, SeqEqual
    <2>2. ev \in S /\ VertexAt(g, ev) = old /\ \A x \in S :
                VertexAt(g, x) = old <=> x = ev
        <3> DEFINE only == slots[1]
        <3> HIDE DEF only
        <3>1. slots = <<only>>
            BY <2>1 DEF only
        <3>2. \A x : x \in ToSet(slots) <=> x = only
            BY <3>1 DEF ToSet
        <3>3. QED
            BY <1>2, <3>2 DEF only
    <2>3. list = <<1>> /\ Len(list) = 1 /\ list[1] = 1
        <3>1. DOMAIN slots = {1}
            BY <1>1, <1>6
        <3>2. list = [i \in {1} |-> i]
            BY <3>1
        <3> HIDE DEF list
        <3>3. list = <<1>>
            BY <3>2
        <3>4. QED
            BY <3>3
    <2>4. IsFold([n \in 0 .. 1 |-> IF n = 0 THEN base
                                   ELSE ReplaceVertexStep(base, 1)])
        <3> DEFINE f == [n \in 0 .. 1 |-> IF n = 0 THEN base
                                          ELSE ReplaceVertexStep(base, 1)]
        <3> HIDE DEF base, list
        <3>1. \A n \in 0 .. 1 : f[n] = IF n = 0 THEN base
                                ELSE ReplaceVertexStep(f[n - 1], list[n])
            <4>1. \A n \in 0 .. 1 : n = 0 \/ n = 1
                OBVIOUS
            <4>2. f[0] = base /\ f[1] = ReplaceVertexStep(base, 1)
                OBVIOUS
            <4>3. f[1] = ReplaceVertexStep(f[1 - 1], list[1])
                BY <2>3, <4>2
            <4> HIDE DEF f
            <4>4. QED
                BY <4>1, <4>2, <4>3
        <3>2. QED
            BY <2>3, <3>1
    <2>5. IsFold(fold)
        <3> HIDE DEF base, list
        <3>1. QED
            BY <2>4
    <2>6. fold[1] = ReplaceVertexStep(base, 1)
        <3> HIDE DEF fold, base, list
        <3>1. fold[0] = base
            BY <2>3, <2>5
        <3>2. fold[1] = ReplaceVertexStep(fold[1 - 1], list[1])
            BY <2>3, <2>5
        <3>3. QED
            BY <2>3, <3>1, <3>2
    <2>7. h = fold[Len(list)].graph
        BY <1>6 DEF ReplaceVertex, FoldInOrder
    <2>8. base = [graph |-> g, slots |-> <<ev>>, live |-> 1,
                  from |-> old, to |-> new]
        <3> DEFINE only == slots[1]
                   places == slots
        <3> HIDE DEF only, places
        <3>1. places = <<only>> /\ Len(places) = 1
            BY <1>6, <2>1 DEF only, places
        <3>2. base = [graph |-> g, slots |-> places, live |-> Len(places),
                      from |-> old, to |-> new]
            BY DEF places
        <3>3. QED
            BY <3>1, <3>2 DEF only
    <2>9. old \in DOMAIN g.around
        BY <1>1
    <2> HIDE DEF fold, base, list, h, k
    <2>10. ReplaceVertexStep(base, 1).graph = k
        BY <1>6, <2>1, <2>2, <2>8, <2>9, TurnOfReplace DEF k
    <2>11. h = k
        BY <2>3, <2>6, <2>7, <2>10
    <2> HIDE DEF ev
    <2>12. /\ k \in DualGraphs(ne, nv, EL, VL)
           /\ k.edges = WithEnd(g.edges, ev, new)
           /\ k.elabel = g.elabel
           /\ k.vlabel = g.vlabel
        BY <2>2, SetKeepsDual DEF k
    <2>13. WithEnd(g.edges, ev, new) = MovedEnds(g.edges, old, new)
        <3> DEFINE edges == g.edges
                   moved == MovedEnds(edges, old, new)
                   other == WithEnd(edges, ev, new)
        <3>1. edges \in [IndexRange(ne) -> [Sides -> Ends(nv)]]
            BY <1>1
        <3>2. \A e \in IndexRange(ne), s \in Sides :
                edges[e][s] = old <=> e = ev[1] /\ s = ev[2]
            <4> SUFFICES ASSUME NEW e \in IndexRange(ne), NEW s \in Sides
                         PROVE  edges[e][s] = old <=> e = ev[1] /\ s = ev[2]
                OBVIOUS
            <4>1. <<e, s>> \in S /\ VertexAt(g, <<e, s>>) = edges[e][s]
                BY DEF VertexAt
            <4>2. <<e, s>> = ev <=> e = ev[1] /\ s = ev[2]
                BY <2>2
            <4>3. QED
                BY <2>2, <4>1, <4>2
        <3>3. ev[1] \in IndexRange(ne) /\ ev[2] \in Sides
            BY <2>2
        <3> HIDE DEF edges
        <3>4. /\ moved \in [IndexRange(ne) -> [Sides -> Ends(nv)]]
              /\ other \in [IndexRange(ne) -> [Sides -> Ends(nv)]]
            BY <3>1, <3>3 DEF MovedEnds, WithEnd, Ends
        <3>5. \A e \in IndexRange(ne), s \in Sides : moved[e][s] = other[e][s]
            BY <3>1, <3>2, <3>3 DEF MovedEnds, WithEnd
        <3> HIDE DEF moved, other
        <3>6. moved = other
            BY <3>4, <3>5
        <3>7. QED
            BY <3>6 DEF moved, other, edges
    <2>14. QED
        BY <2>11, <2>12, <2>13 DEF h
<1>7. Len(slots) = 0 \/ Len(slots) = 1
    <2>1. Len(slots) \in Nat
        BY <1>1, LenProperties
    <2>2. Len(slots) <= 1
        OBVIOUS
    <2>3. \A n \in Nat : n <= 1 => n = 0 \/ n = 1
        OBVIOUS
    <2>4. QED
        BY <2>1, <2>2, <2>3, Zenon
<1> HIDE DEF slots
<1>8. QED
    BY <1>4, <1>5, <1>6, <1>7

-----------------------------------------------------------------------------
\* The ends that copy() has set after n turns of its loop over extremities.
EndsBefore(edges, n) ==
    [e \in DOMAIN edges |->
        [s \in Sides |-> IF 2 * e + s < n THEN edges[e][s] ELSE NoId]]

\* A turn of the loop of copy(), for the extremity ev of g.
CopyTurn(g, h, ev) ==
    IF VertexAt(g, ev) = NoId
    THEN h
    ELSE SetEdgeVertex(h, ev, VertexAt(g, ev))

\* Setting the extremity of rank n after those before it.
LEMMA EndsBeforeNext ==
    ASSUME NEW ne \in Nat, NEW nv \in Nat,
           NEW edges \in [IndexRange(ne) -> [Sides -> Ends(nv)]],
           NEW ev \in IndexRange(ne) \X Sides
    PROVE  WithEnd(EndsBefore(edges, Rank(ev)), ev, edges[ev[1]][ev[2]])
                = EndsBefore(edges, Rank(ev) + 1)
<1> DEFINE n == Rank(ev)
           v == edges[ev[1]][ev[2]]
           before == EndsBefore(edges, n)
           after == EndsBefore(edges, n + 1)
           other == WithEnd(before, ev, v)
<1>1. ev[1] \in IndexRange(ne) /\ ev[2] \in Sides /\ v \in Ends(nv)
    OBVIOUS
<1>2. n \in Nat
    BY <1>1 DEF Rank, IndexRange, Sides
<1>3. \A k : EndsBefore(edges, k) \in [IndexRange(ne) -> [Sides -> Ends(nv)]]
    BY DEF EndsBefore, Ends
<1>4. ASSUME NEW k
      PROVE  \A e \in IndexRange(ne), s \in Sides :
                EndsBefore(edges, k)[e][s] =
                    IF 2 * e + s < k THEN edges[e][s] ELSE NoId
    BY DEF EndsBefore
<1>5. ASSUME NEW e \in IndexRange(ne), NEW s \in Sides
      PROVE  after[e][s] = IF e = ev[1] /\ s = ev[2] THEN v ELSE before[e][s]
    <2>1. <<e, s>> \in IndexRange(ne) \X Sides /\ Rank(<<e, s>>) = 2 * e + s
        BY DEF Rank
    <2>2. 2 * e + s \in Nat
        BY DEF IndexRange, Sides
    <2>3. /\ before[e][s] = IF 2 * e + s < n THEN edges[e][s] ELSE NoId
          /\ after[e][s] = IF 2 * e + s < n + 1 THEN edges[e][s] ELSE NoId
        BY <1>4
    <2> HIDE DEF before, after
    <2>4. CASE e = ev[1] /\ s = ev[2]
        <3>1. 2 * e + s = n
            BY <2>4 DEF Rank
        <3>2. QED
            BY <1>2, <2>3, <2>4, <3>1
    <2>5. CASE ~ (e = ev[1] /\ s = ev[2])
        <3>1. <<e, s>> # ev
            BY <2>5
        <3>2. 2 * e + s # n
            BY <2>1, <3>1, RankIsOneToOne
        <3>3. 2 * e + s < n <=> 2 * e + s < n + 1
            BY <1>2, <2>2, <3>2
        <3>4. QED
            BY <2>3, <2>5, <3>3
    <2>6. QED
        BY <2>4, <2>5
<1>6. /\ before \in [IndexRange(ne) -> [Sides -> Ends(nv)]]
      /\ after \in [IndexRange(ne) -> [Sides -> Ends(nv)]]
    BY <1>3
<1> HIDE DEF before, after, v, n
<1>7. /\ other \in [IndexRange(ne) -> [Sides -> Ends(nv)]]
      /\ \A e \in IndexRange(ne), s \in Sides : other[e][s] = after[e][s]
    BY <1>1, <1>5, <1>6 DEF WithEnd
<1> HIDE DEF other
<1>8. other = after
    BY <1>6, <1>7
<1>9. QED
    BY <1>8 DEF other, after, before, v, n

\* A turn of the loop of copy() keeps the lists of the copy in step.
LEMMA TurnOfCopy ==
    ASSUME NEW ne \in Nat, NEW nv \in Nat, NEW EL, NEW VL,
           NEW g \in DualGraphs(ne, nv, EL, VL),
           NEW h \in DualGraphs(ne, nv, EL, VL),
           NEW ev \in IndexRange(ne) \X Sides,
           h.edges = EndsBefore(g.edges, Rank(ev))
    PROVE  LET k == CopyTurn(g, h, ev)
           IN  /\ k \in DualGraphs(ne, nv, EL, VL)
               /\ k.edges = EndsBefore(g.edges, Rank(ev) + 1)
               /\ k.elabel = h.elabel
               /\ k.vlabel = h.vlabel
<1> DEFINE k == CopyTurn(g, h, ev)
           v == VertexAt(g, ev)
           after == EndsBefore(g.edges, Rank(ev) + 1)
<1>1. g.edges \in [IndexRange(ne) -> [Sides -> Ends(nv)]]
    BY DEF DualGraphs, GraphsOf
<1>2. /\ v \in Ends(nv) /\ v = g.edges[ev[1]][ev[2]]
      /\ ev[1] \in IndexRange(ne) /\ ev[2] \in Sides
    BY <1>1 DEF VertexAt
<1>3. WithEnd(h.edges, ev, v) = after
    BY <1>1, <1>2, EndsBeforeNext
<1>4. CASE v = NoId
    <2>1. k = h
        BY <1>4 DEF CopyTurn
    <2>2. h.edges[ev[1]][ev[2]] = NoId
        <3>1. ~ (2 * ev[1] + ev[2] < Rank(ev))
            BY <1>2 DEF Rank, IndexRange, Sides
        <3>2. QED
            BY <1>1, <1>2, <3>1 DEF EndsBefore
    <2>3. h.edges \in [IndexRange(ne) -> [Sides -> Ends(nv)]]
        BY DEF DualGraphs, GraphsOf
    <2>4. WithEnd(h.edges, ev, v) = h.edges
        BY <1>2, <1>4, <2>2, <2>3 DEF WithEnd
    <2>5. QED
        BY <1>3, <2>1, <2>4
<1>5. CASE v # NoId
    <2>1. k = SetEdgeVertex(h, ev, v) /\ v \in IndexRange(nv)
        BY <1>2, <1>5 DEF CopyTurn, Ends
    <2> HIDE DEF k, v, after
    <2>2. QED
        BY <1>3, <2>1, SetKeepsDual DEF k, after
<1>6. QED
    BY <1>4, <1>5

\* The graph that copy() begins with: the elements of g, without ends.
LEMMA BareGraph ==
    ASSUME NEW ne \in Nat, NEW nv \in Nat, NEW EL, NEW VL,
           NEW g \in DualGraphs(ne, nv, EL, VL)
    PROVE  LET bare == [edges |-> [e \in GraphEdges(g) |->
                                      [side \in Sides |-> NoId]],
                        elabel |-> g.elabel,
                        around |-> [v \in GraphVertices(g) |-> <<>>],
                        vlabel |-> g.vlabel]
           IN  /\ bare \in DualGraphs(ne, nv, EL, VL)
               /\ bare.edges = EndsBefore(g.edges, 0)
               /\ bare.elabel = g.elabel
               /\ bare.vlabel = g.vlabel
<1> DEFINE edges == [e \in GraphEdges(g) |-> [side \in Sides |-> NoId]]
           around == [v \in GraphVertices(g) |-> <<>>]
           bare == [edges |-> edges, elabel |-> g.elabel,
                    around |-> around, vlabel |-> g.vlabel]
<1>1. /\ g.edges \in [IndexRange(ne) -> [Sides -> Ends(nv)]]
      /\ g.elabel \in [IndexRange(ne) -> EL]
      /\ g.vlabel \in [IndexRange(nv) -> VL]
      /\ GraphEdges(g) = IndexRange(ne) /\ GraphVertices(g) = IndexRange(nv)
    BY DEF DualGraphs, GraphsOf, GraphEdges, GraphVertices
<1>2. edges \in [IndexRange(ne) -> [Sides -> Ends(nv)]]
    BY <1>1 DEF Ends
<1>3. /\ around \in [IndexRange(nv) -> Seq(IndexRange(ne) \X Sides)]
      /\ \A v \in IndexRange(nv) : around[v] = <<>>
    BY <1>1
<1>4. \A x \in IndexRange(ne) \X Sides : edges[x[1]][x[2]] = NoId
    BY <1>1
<1>5. edges = EndsBefore(g.edges, 0)
    <2>1. \A e \in IndexRange(ne), s \in Sides : ~ (2 * e + s < 0)
        BY DEF IndexRange, Sides
    <2>2. QED
        BY <1>1, <2>1 DEF EndsBefore
<1> HIDE DEF edges, around
<1>6. bare \in GraphsOf(ne, nv, Ends(nv), EL, VL)
    BY <1>1, <1>2, <1>3 DEF GraphsOf
<1>7. ASSUME NEW w \in IndexRange(nv)
      PROVE  /\ NoRepeat(bare.around[w])
             /\ \A x : x \in ToSet(bare.around[w]) <=>
                     x \in IndexRange(ne) \X Sides /\ VertexAt(bare, x) = w
    <2>1. bare.around[w] = <<>>
        BY <1>3
    <2>2. \A x \in IndexRange(ne) \X Sides : VertexAt(bare, x) = NoId
        BY <1>4 DEF VertexAt
    <2>3. w # NoId
        BY DEF IndexRange, NoId
    <2> HIDE DEF bare
    <2>4. QED
        BY <2>1, <2>2, <2>3 DEF NoRepeat, ToSet
<1>8. ListsFollowEdges(bare, ne, nv)
    BY <1>7 DEF ListsFollowEdges
<1>9. QED
    BY <1>5, <1>6, <1>8 DEF DualGraphs, edges, around

\* copy() gives the same edges and names as the graph it is given.
LEMMA CopiedGraph ==
    ASSUME NEW ne \in Nat, NEW nv \in Nat, NEW EL, NEW VL,
           NEW g \in DualGraphs(ne, nv, EL, VL)
    PROVE  LET h == CopyGraph(g)
           IN  /\ h \in DualGraphs(ne, nv, EL, VL)
               /\ h.edges = g.edges
               /\ h.elabel = g.elabel
               /\ h.vlabel = g.vlabel
<1> DEFINE S == IndexRange(ne) \X Sides
           V == DualGraphs(ne, nv, EL, VL)
           N == 2 * ne
           order == EdgeVertexOrder(g)
           base == [edges |-> [e \in GraphEdges(g) |->
                                  [side \in Sides |-> NoId]],
                    elabel |-> g.elabel,
                    around |-> [v \in GraphVertices(g) |-> <<>>],
                    vlabel |-> g.vlabel]
           turn(h, ev) == IF VertexAt(g, ev) = NoId
                          THEN h
                          ELSE SetEdgeVertex(h, ev, VertexAt(g, ev))
           IsFold(f) == f = [n \in 0 .. Len(order) |->
                               IF n = 0 THEN base ELSE turn(f[n - 1], order[n])]
           fold == CHOOSE f : IsFold(f)
           Set(n) == {h \in V : /\ h.edges = EndsBefore(g.edges, n)
                                /\ h.elabel = g.elabel
                                /\ h.vlabel = g.vlabel}
<1>1. /\ N \in Nat
      /\ Len(order) = N
      /\ \A n \in 1 .. N : order[n] \in S /\ Rank(order[n]) = n - 1
    <2>1. DOMAIN g.edges = IndexRange(ne)
        BY DEF DualGraphs, GraphsOf
    <2>2. /\ Len(order) = N
          /\ order \in Seq(S)
          /\ \A n \in 1 .. N : Rank(order[n]) = n - 1
        BY <2>1, OrderOfExtremities, Zenon
    <2>3. N \in Nat
        OBVIOUS
    <2> HIDE DEF order, S, N
    <2>4. \A n \in 1 .. N : order[n] \in S
        BY <2>2, ElementOfSeq
    <2>5. QED
        BY <2>2, <2>3, <2>4
<1>2. base \in Set(0)
    <2>1. /\ base \in V
          /\ base.edges = EndsBefore(g.edges, 0)
          /\ base.elabel = g.elabel
          /\ base.vlabel = g.vlabel
        BY BareGraph, Zenon
    <2> HIDE DEF base, V
    <2>2. QED
        BY <2>1
<1>3. ASSUME NEW h, NEW ev
      PROVE  turn(h, ev) = CopyTurn(g, h, ev)
    BY DEF CopyTurn
<1>4. ASSUME NEW n \in 1 .. N, NEW h \in Set(n - 1)
      PROVE  turn(h, order[n]) \in Set(n)
    <2> DEFINE ev == order[n]
               k == turn(h, ev)
    <2>1. /\ ev \in S /\ Rank(ev) = n - 1 /\ Rank(ev) + 1 = n
          /\ h \in V /\ h.edges = EndsBefore(g.edges, Rank(ev))
          /\ h.elabel = g.elabel /\ h.vlabel = g.vlabel
        BY <1>1
    <2>2. k = CopyTurn(g, h, ev)
        BY <1>3
    <2> HIDE DEF ev, k
    <2>3. /\ k \in V
          /\ k.edges = EndsBefore(g.edges, Rank(ev) + 1)
          /\ k.elabel = h.elabel
          /\ k.vlabel = h.vlabel
        BY <2>1, <2>2, TurnOfCopy
    <2>4. k \in Set(n)
        BY <2>1, <2>3
    <2>5. QED
        BY <2>4 DEF k, ev
<1>5. \E f : IsFold(f)
    <2> DEFINE \* Where a turn is not reached, the value does not matter.
               step == [p \in (1 .. N) \X V |->
                            IF p[2] \in Set(p[1] - 1)
                            THEN turn(p[2], order[p[1]]) ELSE p[2]]
    <2>1. step \in [(1 .. N) \X V -> V]
        <3>1. ASSUME NEW p \in (1 .. N) \X V
              PROVE  step[p] \in V
            <4>1. p[1] \in 1 .. N /\ p[2] \in V
                OBVIOUS
            <4>2. step[p] = IF p[2] \in Set(p[1] - 1)
                            THEN turn(p[2], order[p[1]]) ELSE p[2]
                OBVIOUS
            <4>3. \A n : Set(n) \subseteq V
                OBVIOUS
            <4> HIDE DEF step, V, N, Set, turn, order
            <4>4. QED
                BY <1>4, <4>1, <4>2, <4>3
        <3> HIDE DEF V, N
        <3>2. step = [p \in (1 .. N) \X V |-> step[p]]
            OBVIOUS
        <3> HIDE DEF step
        <3>3. QED
            BY <3>1, <3>2
    <2>2. base \in V
        BY <1>2
    <2>3. PICK f : RunsLoop(f, N, V, base, step)
        <3> HIDE DEF step, V, N, base
        <3>1. QED
            BY <1>1, <2>1, <2>2, LoopIsDefined
    <2>4. /\ f \in [0 .. N -> V]
          /\ f[0] = base
          /\ \A n \in 1 .. N : f[n] = step[<<n, f[n - 1]>>]
        BY <2>3 DEF RunsLoop
    <2>5. \A n \in 1 .. N, h \in V : step[<<n, h>>] =
                IF h \in Set(n - 1) THEN turn(h, order[n]) ELSE h
        <3> HIDE DEF V, N, Set, turn, order
        <3>1. QED
            OBVIOUS
    <2> HIDE DEF step, V, N, Set, turn, order, base
    <2> DEFINE J == [n \in 0 .. N |-> Set(n)]
    <2>6. \A n \in 0 .. N : f[n] \in Set(n)
        <3>1. f[0] \in J[0]
            BY <1>1, <1>2, <2>4
        <3>2. ASSUME NEW n \in 1 .. N, f[n - 1] \in J[n - 1]
              PROVE  f[n] \in J[n]
            <4>1. n - 1 \in 0 .. N /\ n \in 0 .. N
                BY <1>1
            <4>2. f[n - 1] \in Set(n - 1) /\ f[n - 1] \in V
                BY <2>4, <3>2, <4>1
            <4>3. f[n] = turn(f[n - 1], order[n])
                BY <2>4, <2>5, <4>2
            <4>4. QED
                BY <1>4, <4>1, <4>2, <4>3
        <3> HIDE DEF J
        <3>3. \A n \in 0 .. N : f[n] \in J[n]
            BY <1>1, <3>1, <3>2, LoopInvariant
        <3>4. QED
            BY <3>3 DEF J
    <2>7. \A n \in 0 .. N : f[n] =
                IF n = 0 THEN base ELSE turn(f[n - 1], order[n])
        <3> SUFFICES ASSUME NEW n \in 0 .. N
                     PROVE  f[n] = IF n = 0 THEN base
                                   ELSE turn(f[n - 1], order[n])
            OBVIOUS
        <3>1. CASE n = 0
            BY <2>4, <3>1
        <3>2. CASE n # 0
            <4>1. n \in 1 .. N /\ n - 1 \in 0 .. N
                BY <1>1, <3>2
            <4>2. f[n - 1] \in Set(n - 1) /\ f[n - 1] \in V
                BY <2>4, <2>6, <4>1
            <4>3. QED
                BY <2>4, <2>5, <3>2, <4>1, <4>2
        <3>3. QED
            BY <3>1, <3>2
    <2>8. f = [n \in 0 .. N |-> IF n = 0 THEN base
                                ELSE turn(f[n - 1], order[n])]
        BY <2>4, <2>7
    <2>9. IsFold(f)
        BY <1>1, <2>8
    <2>10. QED
        BY <2>9
<1>6. IsFold(fold)
    <2> HIDE DEF IsFold
    <2>1. QED
        BY <1>5
<1>7. CopyGraph(g) = fold[N]
    <2>1. CopyGraph(g) = fold[Len(order)]
        BY DEF CopyGraph, FoldInOrder
    <2>2. QED
        BY <1>1, <2>1
<1>8. fold[N] \in Set(N)
    <2> DEFINE J == [n \in 0 .. N |-> Set(n)]
    <2> HIDE DEF turn, order, fold, N, base, Set, V
    <2>1. fold[0] \in J[0]
        BY <1>1, <1>2, <1>6
    <2>2. ASSUME NEW n \in 1 .. N, fold[n - 1] \in J[n - 1]
          PROVE  fold[n] \in J[n]
        <3>1. n - 1 \in 0 .. N /\ n \in 0 .. N /\ n # 0
            BY <1>1
        <3>2. fold[n - 1] \in Set(n - 1)
            BY <2>2, <3>1
        <3>3. fold[n] = turn(fold[n - 1], order[n])
            BY <1>1, <1>6, <3>1
        <3>4. QED
            BY <1>4, <3>1, <3>2, <3>3
    <2> HIDE DEF J
    <2>3. \A n \in 0 .. N : fold[n] \in J[n]
        BY <1>1, <2>1, <2>2, LoopInvariant
    <2>4. QED
        BY <1>1, <2>3 DEF J
<1>9. EndsBefore(g.edges, N) = g.edges
    <2>1. g.edges \in [IndexRange(ne) -> [Sides -> Ends(nv)]]
        BY DEF DualGraphs, GraphsOf
    <2>2. \A e \in IndexRange(ne), s \in Sides : 2 * e + s < N
        BY DEF IndexRange, Sides
    <2> HIDE DEF N
    <2>3. QED
        BY <2>1, <2>2 DEF EndsBefore
<1> HIDE DEF fold, N
<1>10. QED
    BY <1>7, <1>8, <1>9
-----------------------------------------------------------------------------
(* Elements of a set, and those kept of a list. *)

\* The elements of a finite set in some order, each once.
LEMMA ListedSet ==
    ASSUME NEW S, IsFiniteSet(S)
    PROVE  /\ SetToSeq(S) \in Seq(S)
           /\ ToSet(SetToSeq(S)) = S
           /\ \A x \in S : \E n \in 1 .. Len(SetToSeq(S)) : SetToSeq(S)[n] = x
           /\ NoRepeat(SetToSeq(S))
<1> DEFINE N == Cardinality(S)
           list == SetToSeq(S)
<1>1. N \in Nat /\ ExistsBijection(1 .. N, S)
    BY FS_CardinalityType
<1>2. PICK f : f \in Bijection(1 .. N, S)
    BY <1>1, Fun_ExistsBij
<1>3. f \in [1 .. N -> S] /\ IsInjective(f)
    BY <1>2 DEF Bijection, Injection
<1>4. list \in [1 .. N -> S] /\ IsInjective(list)
    BY <1>3 DEF SetToSeq
<1> HIDE DEF list
<1>5. list \in Injection(1 .. N, S)
    BY <1>4 DEF Injection
<1>6. IsFiniteSet(1 .. N) /\ Cardinality(1 .. N) = N
    BY <1>1, FS_Interval
<1> HIDE DEF N
<1>7. list \in Surjection(1 .. N, S)
    BY <1>5, <1>6, FS_Injection DEF N
<1>8. list \in Seq(S) /\ Len(list) = N
    BY <1>1, <1>4
<1>9. \A x \in S : \E n \in 1 .. N : list[n] = x
    BY <1>7 DEF Surjection
<1>10. ToSet(list) = S
    BY <1>1, <1>4, <1>9 DEF ToSet
<1>11. QED
    BY <1>4, <1>8, <1>9, <1>10 DEF NoRepeat, IsInjective, list

\* f[n] is what Kept() has after the n-th element.
KeptTurns(list, S, f) ==
    /\ f[0] = <<>>
    /\ \A n \in 1 .. Len(list) :
          f[n] = (IF list[n] \in S THEN Append(f[n - 1], list[n])
                                   ELSE f[n - 1])
    /\ Kept(list, S) = f[Len(list)]

\* The turns of Kept().
LEMMA TurnsOfKept ==
    ASSUME NEW T, NEW list \in Seq(T), NEW S
    PROVE  \E f : KeptTurns(list, S, f)
<1> DEFINE N == Len(list)
           turn(acc, x) == IF x \in S THEN Append(acc, x) ELSE acc
           Runs(f, n) == /\ f = [k \in 0 .. n |-> f[k]]
                         /\ f[0] = <<>>
                         /\ \A k \in 1 .. n : f[k] = turn(f[k - 1], list[k])
           IsFold(f) == f = [n \in 0 .. N |-> IF n = 0 THEN <<>>
                                            ELSE turn(f[n - 1], list[n])]
           fold == CHOOSE f : IsFold(f)
           R == {n \in Nat : \E f : Runs(f, n)}
<1>1. N \in Nat
    OBVIOUS
<1> HIDE DEF turn
<1>2. 0 \in R
    <2>1. Runs([n \in 0 .. 0 |-> <<>>], 0)
        OBVIOUS
    <2>2. QED
        BY <2>1
<1>3. ASSUME NEW n \in Nat, n \in R
      PROVE  n + 1 \in R
    <2>1. PICK f : Runs(f, n)
        BY <1>3
    <2> DEFINE g == [k \in 0 .. n + 1 |->
                        IF k = n + 1 THEN turn(f[n], list[n + 1]) ELSE f[k]]
    <2>2. \A k \in 1 .. n + 1 : g[k] = turn(g[k - 1], list[k])
        <3>1. \A k \in 1 .. n : g[k] = f[k] /\ g[k - 1] = f[k - 1]
            OBVIOUS
        <3>2. g[n + 1] = turn(f[n], list[n + 1]) /\ g[n] = f[n]
            OBVIOUS
        <3>3. (n + 1) - 1 = n /\ 1 .. n + 1 = (1 .. n) \cup {n + 1}
            OBVIOUS
        <3> HIDE DEF g
        <3>4. QED
            BY <2>1, <3>1, <3>2, <3>3
    <2>3. g = [k \in 0 .. n + 1 |-> g[k]] /\ g[0] = <<>>
        BY <2>1
    <2> HIDE DEF g
    <2>4. Runs(g, n + 1)
        BY <2>2, <2>3
    <2> HIDE DEF Runs
    <2>5. QED
        BY <2>4
<1>4. N \in R
    <2> HIDE DEF R, N
    <2>1. Nat \subseteq R
        BY <1>2, <1>3, SetInduction
    <2>2. QED
        BY <1>1, <2>1
<1>5. PICK f : Runs(f, N)
    BY <1>4
<1>6. IsFold(f)
    <2>1. f = [n \in 0 .. N |-> f[n]]
        BY <1>5
    <2>2. \A n \in 0 .. N : f[n] = IF n = 0 THEN <<>>
                                          ELSE turn(f[n - 1], list[n])
        BY <1>1, <1>5
    <2> HIDE DEF turn, N
    <2>3. QED
        BY <2>1, <2>2
<1>7. IsFold(fold)
    BY <1>6
<1>8. Kept(list, S) = fold[N]
    BY DEF Kept, FoldInOrder, turn
<1>9. /\ fold[0] = <<>>
      /\ \A n \in 1 .. N : fold[n] = turn(fold[n - 1], list[n])
    <2> HIDE DEF fold
    <2>1. QED
        BY <1>1, <1>7
<1>10. QED
    BY <1>8, <1>9 DEF turn, KeptTurns

\* What Kept() returns.
LEMMA KeptList ==
    ASSUME NEW T, NEW list \in Seq(T), NoRepeat(list), NEW S
    PROVE  /\ Kept(list, S) \in Seq(T)
           /\ NoRepeat(Kept(list, S))
           /\ ToSet(Kept(list, S)) = ToSet(list) \cap S
<1> DEFINE kept == T \cap S
           same == [x \in kept |-> x]
<1>1. PICK f : /\ f[0] = <<>>
               /\ \A n \in 1 .. Len(list) :
                    f[n] = (IF list[n] \in S THEN Append(f[n - 1], list[n])
                                             ELSE f[n - 1])
               /\ Kept(list, S) = f[Len(list)]
    <2>1. PICK f : KeptTurns(list, S, f)
        BY TurnsOfKept
    <2>2. QED
        BY <2>1 DEF KeptTurns
<1>2. \A n \in 1 .. Len(list) : list[n] \in T
    OBVIOUS
<1>3. \A n \in 1 .. Len(list) : f[n] =
            IF list[n] \in kept THEN Append(f[n - 1], same[list[n]])
                                ELSE f[n - 1]
    BY <1>1, <1>2
<1>4. /\ kept \subseteq T
      /\ same \in [kept -> T]
      /\ \A x, y \in kept : same[x] = same[y] => x = y
    OBVIOUS
<1>5. \A x \in ToSet(list) : x \in T
    BY <1>2 DEF ToSet
<1>6. \A x \in kept : same[x] = x
    OBVIOUS
<1> HIDE DEF kept, same
<1>7. ListsImages(f[Len(list)], T, kept, same, list)
    BY <1>1, <1>3, <1>4, ImagesOfKept
<1>8. ToSet(Kept(list, S)) = ToSet(list) \cap S
    <2>1. \A y : y \in ToSet(Kept(list, S)) <=> y \in ToSet(list) \cap S
        BY <1>1, <1>5, <1>6, <1>7 DEF ListsImages, kept
    <2>2. QED
        BY <2>1
<1>9. QED
    BY <1>1, <1>7, <1>8 DEF ListsImages
===============================================================================
