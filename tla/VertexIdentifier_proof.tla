----------------------- MODULE VertexIdentifier_proof -----------------------
(***************************************************************************)
(* The lists of the unique vertices and the attributes of the meshes agree *)
(* for every set of components and every number of vertices, whatever is   *)
(* registered, identified, deleted, permuted and renumbered in any order.  *)
(*                                                                         *)
(* ListsMatchAttributes is not inductive alone.  When the lists are told   *)
(* of a change they are rebuilt from the mapping only, so an identified    *)
(* vertex stays listed only if the mapping has it as a value: the pending  *)
(* mappings must be onto the vertices of the mesh (PendingIsOnto).         *)
(*                                                                         *)
(* The last part is about the mapping of colocated points: it is sound for *)
(* every number of points and every proximity, and its tasks implement the *)
(* sequential algorithm.  Between "recheck" and "unlock" a task holds the  *)
(* mutex, so it alone writes the mapping.  It begins to take only when its *)
(* point has no representative; then no representative is near its point,  *)
(* for that one would have taken it before it unlocked (Settled).  While   *)
(* it takes, its point is the only one whose neighbors are not all taken.  *)
(***************************************************************************)
EXTENDS VertexIdentifier, ColocatedMapping, Graph_proof

SizesAreNumbers ==
    /\ \A c \in Components : Size(mesh[c]) \in Nat
    /\ Size(component_vertices) \in Nat

PendingIsOnto ==
    \A c \in Registered : \A w \in MeshVertices(c) :
        \E v \in DOMAIN unnotified[c] : unnotified[c][v] = w

IInv ==
    /\ ListsMatchAttributes
    /\ SizesAreNumbers
    /\ PendingIsOnto

USE DEF Registered, UniqueVertices, MeshVertices

-----------------------------------------------------------------------------
LEMMA InitIsConsistent == Init => IInv
<1> SUFFICES ASSUME Init PROVE IInv
    OBVIOUS
<1>1. DOMAIN <<>> = {}
    OBVIOUS
<1>2. Cardinality({}) = 0 /\ IndexRange(0) = {}
    BY FS_EmptySet DEF IndexRange
<1>3. /\ \A c \in Components : MeshVertices(c) = {}
      /\ DOMAIN mesh = Components
      /\ Registered = {}
      /\ UniqueVertices = {}
      /\ DOMAIN unnotified = {}
      /\ DOMAIN unique_name = {}
    BY <1>1 DEF Init
<1>4. /\ \A c \in Components : Size(mesh[c]) = 0
      /\ Size(component_vertices) = 0
    BY <1>2, <1>3 DEF Size
<1>5. TypeOK /\ SizesAreNumbers
    <2>1. \A c \in Components : MeshVertices(c) = IndexRange(Size(mesh[c]))
        BY <1>2, <1>3, <1>4
    <2>2. UniqueVertices = IndexRange(Size(component_vertices))
        BY <1>2, <1>3, <1>4
    <2>3. TypeOK
        BY <1>3, <2>1, <2>2 DEF TypeOK
    <2>4. SizesAreNumbers
        BY <1>4 DEF SizesAreNumbers
    <2>5. QED
        BY <2>3, <2>4
<1>6. ListedIsIdentified /\ IdentifiedIsListed /\ ListedOnce /\ PendingIsOnto
    BY <1>3
    DEF ListedIsIdentified, IdentifiedIsListed, ListedOnce, PendingIsOnto
<1>7. QED
    BY <1>5, <1>6 DEF IInv, ListsMatchAttributes

-----------------------------------------------------------------------------
\* A component vertex in a list is a pair whose mapping gives it that list.
LEMMA ListedPair ==
    ASSUME TypeOK, ListedIsIdentified,
           NEW u \in UniqueVertices, NEW cmv \in component_vertices[u]
    PROVE  /\ cmv = <<cmv[1], cmv[2]>>
           /\ cmv[1] \in Components
           /\ cmv[1] \in Registered
           /\ cmv[2] \in Nat
           /\ cmv[2] \in DOMAIN unnotified[cmv[1]]
           /\ \/ unnotified[cmv[1]][cmv[2]] = NoId
              \/ unique_vertex[cmv[1]][unnotified[cmv[1]][cmv[2]]] = u
<1>1. cmv \in Components \X Nat
    BY DEF TypeOK
<1>2. QED
    BY <1>1 DEF ListedIsIdentified

\* Without a pending change the vertices in the lists are those of the mesh.
LEMMA ListedUpToDate ==
    ASSUME TypeOK, ListedIsIdentified, SizesAreNumbers,
           NEW u \in UniqueVertices, NEW cmv \in component_vertices[u],
           UpToDate(cmv[1])
    PROVE  /\ cmv[2] \in MeshVertices(cmv[1])
           /\ unique_vertex[cmv[1]][cmv[2]] = u
<1>1. cmv[1] \in Registered /\ cmv[2] \in DOMAIN unnotified[cmv[1]]
    BY ListedPair
<1>2. unnotified[cmv[1]] = [v \in MeshVertices(cmv[1]) |-> v]
    BY <1>1 DEF UpToDate, SameIndices
<1>3. cmv[2] \in MeshVertices(cmv[1]) /\ unnotified[cmv[1]][cmv[2]] = cmv[2]
    BY <1>1, <1>2
<1>4. cmv[2] # NoId
    BY ListedPair DEF NoId
<1>5. QED
    BY <1>3, <1>4, ListedPair

\* Without a pending change an identified vertex is in the list of its unique
\* vertex.
LEMMA IdentifiedUpToDate ==
    ASSUME TypeOK, IdentifiedIsListed, SizesAreNumbers,
           NEW c \in Registered, UpToDate(c), NEW v \in MeshVertices(c),
           unique_vertex[c][v] # NoId
    PROVE  /\ unique_vertex[c][v] \in UniqueVertices
           /\ <<c, v>> \in component_vertices[unique_vertex[c][v]]
<1>1. unnotified[c] = [w \in MeshVertices(c) |-> w]
    BY DEF UpToDate, SameIndices
<1>2. v \in DOMAIN unnotified[c] /\ unnotified[c][v] = v
    BY <1>1
<1>3. v # NoId
    <2>1. MeshVertices(c) = IndexRange(Size(mesh[c])) /\ Size(mesh[c]) \in Nat
        BY DEF TypeOK, SizesAreNumbers
    <2>2. QED
        BY <2>1 DEF IndexRange, NoId
<1>4. QED
    BY <1>2, <1>3 DEF IdentifiedIsListed, TypeOK


-----------------------------------------------------------------------------
\* register_component(): no list knows the component yet.
LEMMA RegisterComponentStep ==
    ASSUME IInv, NEW c \in Components, RegisterComponent(c)
    PROVE  IInv'
<1> USE DEF IInv, ListsMatchAttributes
<1>1. /\ c \notin Registered
      /\ Registered' = Registered \cup {c}
      /\ unique_vertex'[c] = [v \in MeshVertices(c) |-> NoId]
      /\ unnotified'[c] = [v \in MeshVertices(c) |-> v]
      /\ \A d \in Registered : /\ unique_vertex'[d] = unique_vertex[d]
                               /\ unnotified'[d] = unnotified[d]
      /\ DOMAIN unnotified' = Registered'
      /\ UNCHANGED <<mesh, component_vertices, unique_name>>
    BY DEF RegisterComponent, SameIndices
<1>2. TypeOK'
    BY <1>1 DEF TypeOK
<1>3. ListedIsIdentified'
    <2> SUFFICES ASSUME NEW u \in UniqueVertices,
                        NEW cmv \in component_vertices[u]
                 PROVE  ListedIsIdentified!(u)!(cmv)'
        BY <1>1 DEF ListedIsIdentified
    <2>1. QED
        BY <1>1, ListedPair
<1>4. IdentifiedIsListed'
    BY <1>1 DEF IdentifiedIsListed, TypeOK, NoId
<1>5. ListedOnce' /\ SizesAreNumbers'
    BY <1>1 DEF ListedOnce, SizesAreNumbers
<1>6. PendingIsOnto'
    BY <1>1 DEF PendingIsOnto
<1>7. QED
    BY <1>2, <1>3, <1>4, <1>5, <1>6


\* unregister_component(): its vertices leave every list.
LEMMA UnregisterComponentStep ==
    ASSUME IInv, NEW c \in Components, UnregisterComponent(c)
    PROVE  IInv'
<1> USE DEF IInv, ListsMatchAttributes
<1>1. /\ Registered' = Registered \ {c}
      /\ \A d \in Registered' : /\ unique_vertex'[d] = unique_vertex[d]
                                /\ unnotified'[d] = unnotified[d]
      /\ DOMAIN unnotified' = Registered'
      /\ component_vertices' = [u \in UniqueVertices |->
            {cmv \in component_vertices[u] : cmv[1] # c}]
      /\ UniqueVertices' = UniqueVertices
      /\ UNCHANGED <<mesh, unique_name>>
    BY DEF UnregisterComponent
<1>2. Size(component_vertices') = Size(component_vertices)
    BY <1>1 DEF Size
<1>3. TypeOK'
    <2>1. \A u \in UniqueVertices :
                component_vertices'[u] \subseteq Components \X Nat
        BY <1>1 DEF TypeOK
    <2>2. QED
        BY <1>1, <1>2, <2>1 DEF TypeOK
<1>4. ListedIsIdentified'
    <2> SUFFICES ASSUME NEW u \in UniqueVertices,
                        NEW cmv \in component_vertices[u], cmv[1] # c
                 PROVE  ListedIsIdentified!(u)!(cmv)'
        BY <1>1 DEF ListedIsIdentified
    <2>1. QED
        BY <1>1, ListedPair
<1>5. IdentifiedIsListed'
    <2> SUFFICES ASSUME NEW d \in Registered, d # c,
                        NEW v \in DOMAIN unnotified[d],
                        unnotified[d][v] # NoId,
                        unique_vertex[d][unnotified[d][v]] # NoId
                 PROVE  <<d, v>> \in component_vertices'
                            [unique_vertex[d][unnotified[d][v]]]
        BY <1>1 DEF IdentifiedIsListed
    <2>1. unique_vertex[d][unnotified[d][v]] \in UniqueVertices
        BY DEF TypeOK
    <2>2. <<d, v>> \in component_vertices[unique_vertex[d][unnotified[d][v]]]
        BY DEF IdentifiedIsListed
    <2>3. <<d, v>>[1] # c
        OBVIOUS
    <2>4. QED
        BY <1>1, <2>1, <2>2, <2>3
<1>6. ListedOnce' /\ SizesAreNumbers'
    BY <1>1, <1>2 DEF ListedOnce, SizesAreNumbers
<1>7. PendingIsOnto'
    BY <1>1 DEF PendingIsOnto
<1>8. QED
    BY <1>3, <1>4, <1>5, <1>6, <1>7

\* create_unique_vertex(): one more list, with nothing in it.
LEMMA CreateUniqueVertexStep ==
    ASSUME IInv, CreateUniqueVertex
    PROVE  IInv'
<1> USE DEF IInv, ListsMatchAttributes
<1> DEFINE n == Size(component_vertices)
<1>1. /\ n \in Nat
      /\ UniqueVertices = IndexRange(n)
      /\ DOMAIN unique_name = IndexRange(n)
    BY DEF TypeOK, SizesAreNumbers
<1>2. /\ UniqueVertices' = IndexRange(n + 1)
      /\ IndexRange(n + 1) = UniqueVertices \cup {n}
      /\ n \notin UniqueVertices
      /\ component_vertices'[n] = {}
      /\ \A u \in UniqueVertices :
            component_vertices'[u] = component_vertices[u]
    BY <1>1, AppendedVector DEF CreateUniqueVertex
<1>3. DOMAIN unique_name' = IndexRange(n + 1)
    BY <1>1, AppendedVector DEF CreateUniqueVertex
<1>4. Size(component_vertices') = n + 1
    BY <1>1, <1>2, SizeOfVector
<1>5. UNCHANGED <<mesh, unique_vertex, unnotified>>
    BY DEF CreateUniqueVertex
<1> HIDE DEF n
<1>6. TypeOK'
    <2>1. \A c \in Registered :
            unique_vertex[c] \in [MeshVertices(c) -> UniqueVertices' \cup {NoId}]
        BY <1>2 DEF TypeOK
    <2>2. UniqueVertices' = IndexRange(Size(component_vertices'))
        BY <1>2, <1>4
    <2>3. \A u \in UniqueVertices' :
            component_vertices'[u] \subseteq Components \X Nat
        BY <1>2 DEF TypeOK
    <2>4. QED
        BY <1>2, <1>3, <1>5, <2>1, <2>2, <2>3 DEF TypeOK
<1>7. ListedIsIdentified'
    BY <1>2, <1>5 DEF ListedIsIdentified
<1>8. IdentifiedIsListed'
    BY <1>2, <1>5 DEF IdentifiedIsListed, TypeOK
<1>9. ListedOnce'
    BY <1>2 DEF ListedOnce
<1>10. SizesAreNumbers' /\ PendingIsOnto'
    BY <1>1, <1>4, <1>5 DEF SizesAreNumbers, PendingIsOnto
<1>11. QED
    BY <1>6, <1>7, <1>8, <1>9, <1>10


-----------------------------------------------------------------------------
\* set_unique_vertex(): in an up-to-date state the vertex is in no other list
\* than the one it leaves.
LEMMA SetUniqueVertexStep ==
    ASSUME IInv, NEW c \in Components, NEW v \in MeshVertices(c),
           NEW u \in UniqueVertices, SetUniqueVertex(c, v, u)
    PROVE  IInv'
<1> USE DEF IInv, ListsMatchAttributes
<1>1. /\ c \in Registered
      /\ UpToDate(c)
      /\ unnotified[c] = [w \in MeshVertices(c) |-> w]
      /\ unique_vertex' = [unique_vertex EXCEPT ![c][v] = u]
      /\ UNCHANGED <<mesh, unnotified, unique_name>>
      /\ UniqueVertices' = UniqueVertices
      /\ Registered' = Registered
    BY DEF SetUniqueVertex, UpToDate, SameIndices
<1>2. \A w \in UniqueVertices :
            component_vertices'[w] =
                IF w = u THEN component_vertices[w] \cup {<<c, v>>}
                ELSE IF w = unique_vertex[c][v]
                     THEN component_vertices[w] \ {<<c, v>>}
                     ELSE component_vertices[w]
    BY DEF SetUniqueVertex
<1>3. /\ MeshVertices(c) \subseteq Nat
      /\ unique_vertex[c] \in [MeshVertices(c) -> UniqueVertices \cup {NoId}]
      /\ u # NoId
    BY <1>1 DEF TypeOK, SizesAreNumbers, IndexRange, NoId
<1>4. /\ unique_vertex'[c] = [unique_vertex[c] EXCEPT ![v] = u]
      /\ \A d \in Registered \ {c} : unique_vertex'[d] = unique_vertex[d]
    BY <1>1
\* After the call <<c, v>> is in the list of u only, other vertices stay.
<1>5. \A w \in UniqueVertices : <<c, v>> \in component_vertices'[w] <=> w = u
    <2> SUFFICES ASSUME NEW w \in UniqueVertices, w # u,
                        <<c, v>> \in component_vertices[w]
                 PROVE  unique_vertex[c][v] = w
        BY <1>2
    <2>1. <<c, v>>[1] = c /\ <<c, v>>[2] = v
        OBVIOUS
    <2>2. QED
        BY <1>1, <2>1, ListedUpToDate
<1>6. \A w \in UniqueVertices : \A cmv :
            cmv # <<c, v>> => (cmv \in component_vertices'[w]
                                  <=> cmv \in component_vertices[w])
    BY <1>2
<1>7. TypeOK'
    <2>1. \A w \in UniqueVertices :
            component_vertices'[w] \subseteq Components \X Nat
        BY <1>3, <1>6 DEF TypeOK
    <2>2. Size(component_vertices') = Size(component_vertices)
        BY <1>1 DEF Size
    <2>3. \A d \in Registered :
            unique_vertex'[d] \in [MeshVertices(d) -> UniqueVertices \cup {NoId}]
        BY <1>3, <1>4 DEF TypeOK
    <2>4. QED
        BY <1>1, <2>1, <2>2, <2>3 DEF TypeOK
<1>8. ListedIsIdentified'
    <2> SUFFICES ASSUME NEW w \in UniqueVertices,
                        NEW cmv \in component_vertices'[w]
                 PROVE  ListedIsIdentified!(w)!(cmv)'
        BY <1>1 DEF ListedIsIdentified
    <2>1. CASE cmv = <<c, v>>
        BY <1>1, <1>3, <1>4, <1>5, <2>1
    <2>2. CASE cmv # <<c, v>>
        <3>1. cmv \in component_vertices[w]
            BY <1>6, <2>2
        <3>2. CASE cmv[1] # c
            BY <1>1, <1>4, <3>1, <3>2, ListedPair
        <3>3. CASE cmv[1] = c
            <4>1. cmv[2] # v
                BY <2>2, <3>1, <3>3, ListedPair
            <4>2. cmv[2] \in MeshVertices(c) /\ unique_vertex[c][cmv[2]] = w
                BY <1>1, <3>1, <3>3, ListedUpToDate
            <4>3. QED
                BY <1>1, <1>3, <1>4, <3>3, <4>1, <4>2
        <3>4. QED
            BY <3>2, <3>3
    <2>3. QED
        BY <2>1, <2>2
<1>9. IdentifiedIsListed'
    <2> SUFFICES ASSUME NEW d \in Registered, NEW x \in DOMAIN unnotified[d],
                        NEW w, w = unnotified[d][x], w # NoId,
                        unique_vertex'[d][w] # NoId
                 PROVE  <<d, x>> \in component_vertices'[unique_vertex'[d][w]]
        BY <1>1 DEF IdentifiedIsListed
    <2>1. w \in MeshVertices(d)
        BY DEF TypeOK
    <2>2. CASE <<d, x>> = <<c, v>>
        BY <1>1, <1>3, <1>4, <1>5, <2>2
    <2>3. CASE <<d, x>> # <<c, v>>
        <3>1. unique_vertex'[d][w] = unique_vertex[d][w]
            BY <1>1, <1>3, <1>4, <2>1, <2>3 DEF TypeOK
        <3>2. /\ unique_vertex[d][w] \in UniqueVertices
              /\ <<d, x>> \in component_vertices[unique_vertex[d][w]]
            BY <2>1, <3>1 DEF TypeOK, IdentifiedIsListed
        <3>3. QED
            BY <1>6, <2>3, <3>1, <3>2
    <2>4. QED
        BY <2>2, <2>3
<1>10. ListedOnce'
    <2> SUFFICES ASSUME NEW u1 \in UniqueVertices, NEW u2 \in UniqueVertices,
                        NEW cmv, cmv \in component_vertices'[u1],
                        cmv \in component_vertices'[u2]
                 PROVE  u1 = u2
        BY <1>1 DEF ListedOnce
    <2>1. QED
        BY <1>5, <1>6 DEF ListedOnce
<1>11. SizesAreNumbers' /\ PendingIsOnto'
    BY <1>1 DEF SizesAreNumbers, PendingIsOnto, Size
<1>12. QED
    BY <1>7, <1>8, <1>9, <1>10, <1>11

\* unset_unique_vertex(): the vertex leaves the one list that has it.
LEMMA UnsetUniqueVertexStep ==
    ASSUME IInv, NEW c \in Components, NEW v \in MeshVertices(c),
           UnsetUniqueVertex(c, v)
    PROVE  IInv'
<1> USE DEF IInv, ListsMatchAttributes
<1> DEFINE old == unique_vertex[c][v]
<1>1. /\ c \in Registered
      /\ UpToDate(c)
      /\ unnotified[c] = [w \in MeshVertices(c) |-> w]
      /\ old # NoId
      /\ unique_vertex' = [unique_vertex EXCEPT ![c][v] = NoId]
      /\ component_vertices' =
            [component_vertices EXCEPT ![old] = @ \ {<<c, v>>}]
      /\ UNCHANGED <<mesh, unnotified, unique_name>>
      /\ UniqueVertices' = UniqueVertices
      /\ Registered' = Registered
    BY DEF UnsetUniqueVertex, UpToDate, SameIndices
<1>2. /\ MeshVertices(c) \subseteq Nat
      /\ unique_vertex[c] \in [MeshVertices(c) -> UniqueVertices \cup {NoId}]
    BY <1>1 DEF TypeOK, SizesAreNumbers, IndexRange
<1>3. old \in UniqueVertices /\ <<c, v>> \in component_vertices[old]
    BY <1>1, IdentifiedUpToDate
<1>4. /\ unique_vertex'[c] = [unique_vertex[c] EXCEPT ![v] = NoId]
      /\ \A d \in Registered \ {c} : unique_vertex'[d] = unique_vertex[d]
    BY <1>1
<1> HIDE DEF old
\* <<c, v>> is in no list any more, other vertices stay.
<1>5. \A w \in UniqueVertices : <<c, v>> \notin component_vertices'[w]
    BY <1>1, <1>3 DEF ListedOnce
<1>6. \A w \in UniqueVertices : \A cmv :
            cmv # <<c, v>> => (cmv \in component_vertices'[w]
                                  <=> cmv \in component_vertices[w])
    BY <1>1, <1>3
<1>7. TypeOK'
    <2>1. \A w \in UniqueVertices :
            component_vertices'[w] \subseteq Components \X Nat
        BY <1>5, <1>6 DEF TypeOK
    <2>2. Size(component_vertices') = Size(component_vertices)
        BY <1>1 DEF Size
    <2>3. \A d \in Registered :
            unique_vertex'[d] \in [MeshVertices(d) -> UniqueVertices \cup {NoId}]
        BY <1>2, <1>4 DEF TypeOK
    <2>4. QED
        BY <1>1, <2>1, <2>2, <2>3 DEF TypeOK
<1>8. ListedIsIdentified'
    <2> SUFFICES ASSUME NEW w \in UniqueVertices,
                        NEW cmv \in component_vertices'[w]
                 PROVE  ListedIsIdentified!(w)!(cmv)'
        BY <1>1 DEF ListedIsIdentified
    <2>1. cmv # <<c, v>> /\ cmv \in component_vertices[w]
        BY <1>5, <1>6
    <2>2. CASE cmv[1] # c
        BY <1>1, <1>4, <2>1, <2>2, ListedPair
    <2>3. CASE cmv[1] = c
        <3>1. cmv[2] # v
            BY <2>1, <2>3, ListedPair
        <3>2. cmv[2] \in MeshVertices(c) /\ unique_vertex[c][cmv[2]] = w
            BY <1>1, <2>1, <2>3, ListedUpToDate
        <3>3. QED
            BY <1>1, <1>2, <1>4, <2>3, <3>1, <3>2
    <2>4. QED
        BY <2>2, <2>3
<1>9. IdentifiedIsListed'
    <2> SUFFICES ASSUME NEW d \in Registered, NEW x \in DOMAIN unnotified[d],
                        NEW w, w = unnotified[d][x], w # NoId,
                        unique_vertex'[d][w] # NoId
                 PROVE  <<d, x>> \in component_vertices'[unique_vertex'[d][w]]
        BY <1>1 DEF IdentifiedIsListed
    <2>1. w \in MeshVertices(d)
        BY DEF TypeOK
    <2>2. <<d, x>> # <<c, v>>
        BY <1>1, <1>2, <1>4
    <2>3. unique_vertex'[d][w] = unique_vertex[d][w]
        BY <1>1, <1>2, <1>4, <2>1, <2>2 DEF TypeOK
    <2>4. /\ unique_vertex[d][w] \in UniqueVertices
          /\ <<d, x>> \in component_vertices[unique_vertex[d][w]]
        BY <2>1, <2>3 DEF TypeOK, IdentifiedIsListed
    <2>5. QED
        BY <1>6, <2>2, <2>3, <2>4
<1>10. ListedOnce'
    BY <1>1, <1>5, <1>6 DEF ListedOnce
<1>11. SizesAreNumbers' /\ PendingIsOnto'
    BY <1>1 DEF SizesAreNumbers, PendingIsOnto, Size
<1>12. QED
    BY <1>7, <1>8, <1>9, <1>10, <1>11


-----------------------------------------------------------------------------
\* What the three changes of a mesh have in common.  The mesh of c has m
\* vertices afterwards, and old2new, onto them, is left for
\* update_unique_vertices(); the attribute has moved along old2new, and an
\* element that is new has NO_ID in it.
LEMMA MeshChangeStep ==
    ASSUME IInv, NEW c \in Components, UpToDate(c),
           NEW m \in Nat, NEW old2new,
           DOMAIN mesh' = Components,
           \A d \in Components \ {c} : mesh'[d] = mesh[d],
           DOMAIN mesh'[c] = IndexRange(m),
           MeshVertices(c) \subseteq DOMAIN old2new,
           \A v \in DOMAIN old2new : old2new[v] \in IndexRange(m) \cup {NoId},
           \A w \in IndexRange(m) : \E v \in DOMAIN old2new : old2new[v] = w,
           Notify(c, old2new),
           Registered' = Registered,
           \A d \in Registered \ {c} : unique_vertex'[d] = unique_vertex[d],
           c \in Registered =>
              /\ unique_vertex'[c] \in [IndexRange(m) -> UniqueVertices \cup {NoId}]
              /\ \A v \in MeshVertices(c) : old2new[v] # NoId =>
                    unique_vertex'[c][old2new[v]] = unique_vertex[c][v]
              /\ \A v \in DOMAIN old2new \ MeshVertices(c) :
                    unique_vertex'[c][old2new[v]] = NoId,
           UNCHANGED <<component_vertices, unique_name>>
    PROVE  IInv'
<1> USE DEF IInv, ListsMatchAttributes
<1>1. /\ c \in Registered => unnotified'[c] = old2new
      /\ \A d \in Registered \ {c} : unnotified'[d] = unnotified[d]
      /\ DOMAIN unnotified' = Registered
    BY DEF Notify
<1>2. /\ \A d \in Components \ {c} : Size(mesh'[d]) = Size(mesh[d])
      /\ Size(mesh'[c]) = m
    BY SizeOfVector
<1>3. TypeOK'
    <2>1. \A d \in Components : MeshVertices(d)' = IndexRange(Size(mesh'[d]))
        BY <1>2 DEF TypeOK
    <2>2. \A d \in Registered :
            /\ \A v \in DOMAIN unnotified'[d] :
                    unnotified'[d][v] \in MeshVertices(d)' \cup {NoId}
            /\ unique_vertex'[d] \in
                    [MeshVertices(d)' -> UniqueVertices \cup {NoId}]
        BY <1>1 DEF TypeOK
    <2>3. QED
        BY <1>1, <2>1, <2>2 DEF TypeOK
<1>4. ListedIsIdentified'
    <2> SUFFICES ASSUME NEW u \in UniqueVertices,
                        NEW cmv \in component_vertices[u]
                 PROVE  ListedIsIdentified!(u)!(cmv)'
        BY DEF ListedIsIdentified
    <2>1. CASE cmv[1] # c
        BY <1>1, <2>1, ListedPair
    <2>2. CASE cmv[1] = c
        <3>1. /\ c \in Registered
              /\ cmv[2] \in MeshVertices(c)
              /\ unique_vertex[c][cmv[2]] = u
            BY <2>2, ListedPair, ListedUpToDate
        <3>2. QED
            BY <1>1, <2>2, <3>1
    <2>3. QED
        BY <2>1, <2>2
<1>5. IdentifiedIsListed'
    <2> SUFFICES ASSUME NEW d \in Registered, NEW v \in DOMAIN unnotified'[d],
                        NEW w, w = unnotified'[d][v], w # NoId,
                        unique_vertex'[d][w] # NoId
                 PROVE  <<d, v>> \in component_vertices[unique_vertex'[d][w]]
        BY DEF IdentifiedIsListed
    <2>1. CASE d # c
        BY <1>1, <2>1 DEF IdentifiedIsListed
    <2>2. CASE d = c
        <3>1. v \in MeshVertices(c)
            BY <1>1, <2>2
        <3>2. unique_vertex'[c][w] = unique_vertex[c][v]
            BY <1>1, <2>2, <3>1
        <3>3. QED
            BY <2>2, <3>1, <3>2, IdentifiedUpToDate
    <2>3. QED
        BY <2>1, <2>2
<1>6. ListedOnce' /\ SizesAreNumbers'
    BY <1>2 DEF ListedOnce, SizesAreNumbers
<1>7. PendingIsOnto'
    BY <1>1, <1>2 DEF PendingIsOnto, TypeOK
<1>8. QED
    BY <1>3, <1>4, <1>5, <1>6, <1>7

\* A mesh vertex is created: old2new keeps every index and adds one.
LEMMA CreateMeshVertexStep ==
    ASSUME IInv, NEW c \in Components, CreateMeshVertex(c)
    PROVE  IInv'
<1> USE DEF IInv, ListsMatchAttributes
<1> DEFINE n == Size(mesh[c])
           old2new == AppendElement(SameIndices(c), n)
<1>1. PICK name \in FreeMeshNames(c) :
            mesh' = [mesh EXCEPT ![c] = AppendElement(@, name)]
    BY DEF CreateMeshVertex
<1>2. /\ UpToDate(c)
      /\ unique_vertex' = [d \in Registered |->
            IF d = c THEN AppendElement(unique_vertex[d], NoId)
                     ELSE unique_vertex[d]]
      /\ Notify(c, old2new)
      /\ UNCHANGED <<component_vertices, unique_name>>
    BY DEF CreateMeshVertex
<1>3. n \in Nat /\ MeshVertices(c) = IndexRange(n) /\ DOMAIN mesh = Components
    BY DEF TypeOK, SizesAreNumbers
<1>4. DOMAIN SameIndices(c) = IndexRange(n)
    BY <1>3 DEF SameIndices
<1>5. /\ DOMAIN old2new = IndexRange(n + 1)
      /\ IndexRange(n + 1) = IndexRange(n) \cup {n}
      /\ n \notin IndexRange(n)
      /\ old2new[n] = n
      /\ \A v \in IndexRange(n) : old2new[v] = v
    <2>1. \A v \in IndexRange(n) : old2new[v] = SameIndices(c)[v]
        BY <1>3, <1>4, AppendedVector
    <2>2. QED
        BY <1>3, <1>4, <2>1, AppendedVector DEF SameIndices
<1>6. DOMAIN mesh'[c] = IndexRange(n + 1)
    BY <1>1, <1>3, AppendedVector
<1>7. c \in Registered =>
        /\ DOMAIN unique_vertex[c] = IndexRange(n)
        /\ unique_vertex'[c] = AppendElement(unique_vertex[c], NoId)
    BY <1>2, <1>3 DEF TypeOK
<1>8. c \in Registered =>
        /\ DOMAIN unique_vertex'[c] = IndexRange(n + 1)
        /\ unique_vertex'[c][n] = NoId
        /\ \A v \in IndexRange(n) : unique_vertex'[c][v] = unique_vertex[c][v]
    BY <1>3, <1>7, AppendedVector
<1>9. c \in Registered =>
        unique_vertex'[c] \in [IndexRange(n + 1) -> UniqueVertices \cup {NoId}]
    <2> SUFFICES ASSUME c \in Registered
                 PROVE  unique_vertex'[c] \in
                            [IndexRange(n + 1) -> UniqueVertices \cup {NoId}]
        OBVIOUS
    <2>1. unique_vertex'[c] = [v \in IndexRange(n + 1) |-> unique_vertex'[c][v]]
        BY <1>7, <1>8 DEF AppendElement
    <2>2. \A v \in IndexRange(n + 1) :
                unique_vertex'[c][v] \in UniqueVertices \cup {NoId}
        BY <1>3, <1>5, <1>8 DEF TypeOK
    <2>3. QED
        BY <2>1, <2>2
<1> HIDE DEF n, old2new
<1>10. /\ n + 1 \in Nat
       /\ DOMAIN mesh' = Components
       /\ \A d \in Components \ {c} : mesh'[d] = mesh[d]
    BY <1>1, <1>3
<1>11. /\ MeshVertices(c) \subseteq DOMAIN old2new
       /\ \A v \in DOMAIN old2new :
                old2new[v] \in IndexRange(n + 1) \cup {NoId}
       /\ \A w \in IndexRange(n + 1) :
                \E v \in DOMAIN old2new : old2new[v] = w
    BY <1>3, <1>5
<1>12. /\ Registered' = Registered
       /\ \A d \in Registered \ {c} : unique_vertex'[d] = unique_vertex[d]
    BY <1>2
<1>13. c \in Registered =>
        /\ \A v \in MeshVertices(c) : old2new[v] # NoId =>
                unique_vertex'[c][old2new[v]] = unique_vertex[c][v]
        /\ \A v \in DOMAIN old2new \ MeshVertices(c) :
                unique_vertex'[c][old2new[v]] = NoId
    BY <1>3, <1>5, <1>8
<1>14. QED
    BY <1>2, <1>6, <1>9, <1>10, <1>11, <1>12, <1>13, MeshChangeStep


\* Mesh vertices are deleted: old2new is onto the vertices that remain.
LEMMA DeleteMeshVerticesStep ==
    ASSUME IInv, NEW c \in Components, NEW D \in SUBSET MeshVertices(c),
           DeleteMeshVertices(c, D)
    PROVE  IInv'
<1> USE DEF IInv, ListsMatchAttributes
<1> DEFINE n == Size(mesh[c])
           m == Cardinality(IndexRange(n) \ D)
           old2new == MappingAfterDeletion(n, D)
<1>1. /\ UpToDate(c)
      /\ mesh' = [mesh EXCEPT ![c] = DeleteElements(@, D)]
      /\ unique_vertex' = [d \in Registered |->
            IF d = c THEN DeleteElements(unique_vertex[d], D)
                     ELSE unique_vertex[d]]
      /\ Notify(c, old2new)
      /\ UNCHANGED <<component_vertices, unique_name>>
    BY DEF DeleteMeshVertices
<1>2. n \in Nat /\ MeshVertices(c) = IndexRange(n) /\ DOMAIN mesh = Components
    BY DEF TypeOK, SizesAreNumbers
<1>3. /\ m \in Nat
      /\ DOMAIN mesh' = Components
      /\ DOMAIN mesh'[c] = IndexRange(m)
      /\ \A d \in Components \ {c} : mesh'[d] = mesh[d]
    BY <1>1, <1>2, DeletedVectorSize
<1>4. /\ DOMAIN old2new = MeshVertices(c)
      /\ \A v \in D : old2new[v] = NoId
      /\ \A v \in MeshVertices(c) \ D : old2new[v] \in IndexRange(m)
    <2>1. \A v \in IndexRange(n) \ D : old2new[v] \in IndexRange(m)
        BY <1>2, MappingIsOneToOne
    <2>2. QED
        BY <1>2, <2>1 DEF MappingAfterDeletion
<1>5. \A w \in IndexRange(m) : \E v \in DOMAIN old2new : old2new[v] = w
    <2> SUFFICES ASSUME NEW w \in IndexRange(m)
                 PROVE  \E v \in IndexRange(n) : old2new[v] = w
        BY <1>2, <1>4
    <2>1. \E v \in IndexRange(n) \ D :
                /\ old2new[v] = w
                /\ DeleteElements(mesh[c], D)[w] = mesh[c][v]
        <3> HIDE DEF n
        <3>1. DOMAIN mesh[c] = IndexRange(n)
            BY <1>2
        <3>2. QED
            BY <1>2, <3>1, DeletedVectorComesFromKept
    <2>2. QED
        BY <2>1
<1>6. /\ Registered' = Registered
      /\ \A d \in Registered \ {c} : unique_vertex'[d] = unique_vertex[d]
      /\ c \in Registered =>
            /\ unique_vertex'[c] = DeleteElements(unique_vertex[c], D)
            /\ unique_vertex[c] \in
                    [IndexRange(n) -> UniqueVertices \cup {NoId}]
    BY <1>1, <1>2 DEF TypeOK
<1>7. c \in Registered =>
        \A v \in MeshVertices(c) : old2new[v] # NoId =>
            unique_vertex'[c][old2new[v]] = unique_vertex[c][v]
    <2> SUFFICES ASSUME c \in Registered, NEW v \in IndexRange(n) \ D
                 PROVE  unique_vertex'[c][old2new[v]] = unique_vertex[c][v]
        BY <1>2, <1>4
    <2>1. DOMAIN unique_vertex[c] = IndexRange(n)
        BY <1>6
    <2>2. QED
        BY <1>2, <1>6, <2>1, DeletedVectorFollowsMapping
<1>8. c \in Registered =>
        unique_vertex'[c] \in [IndexRange(m) -> UniqueVertices \cup {NoId}]
    <2> SUFFICES ASSUME c \in Registered
                 PROVE  unique_vertex'[c] \in
                            [IndexRange(m) -> UniqueVertices \cup {NoId}]
        OBVIOUS
    <2>1. DOMAIN unique_vertex[c] = IndexRange(n)
        BY <1>6
    <2>2. ASSUME NEW k \in IndexRange(m)
          PROVE  \E v \in IndexRange(n) :
                    unique_vertex'[c][k] = unique_vertex[c][v]
        <3> HIDE DEF n
        <3>1. \E v \in IndexRange(n) \ D :
                /\ old2new[v] = k
                /\ DeleteElements(unique_vertex[c], D)[k] = unique_vertex[c][v]
            BY <1>2, <2>1, DeletedVectorComesFromKept
        <3>2. QED
            BY <1>6, <3>1
    <2>3. \A k \in IndexRange(m) :
                unique_vertex'[c][k] \in UniqueVertices \cup {NoId}
        BY <1>6, <2>2
    <2>4. unique_vertex'[c] = [k \in IndexRange(m) |-> unique_vertex'[c][k]]
        BY <1>6, <2>1 DEF DeleteElements
    <2>5. QED
        BY <2>3, <2>4
<1> HIDE DEF n, m, old2new
<1>9. MeshVertices(c) \subseteq DOMAIN old2new
      /\ \A v \in DOMAIN old2new : old2new[v] \in IndexRange(m) \cup {NoId}
    BY <1>4
<1>10. c \in Registered =>
        \A v \in DOMAIN old2new \ MeshVertices(c) :
            unique_vertex'[c][old2new[v]] = NoId
    BY <1>4
<1>11. QED
    BY <1>1, <1>3, <1>5, <1>6, <1>7, <1>8, <1>9, <1>10, MeshChangeStep

\* Mesh vertices are permuted: old2new is the inverse of the permutation.
LEMMA PermuteMeshVerticesStep ==
    ASSUME IInv, NEW c \in Components,
           NEW permutation \in PermutationsOf(MeshVertices(c)),
           PermuteMeshVertices(c, permutation)
    PROVE  IInv'
<1> USE DEF IInv, ListsMatchAttributes
<1> DEFINE n == Size(mesh[c])
           S == IndexRange(n)
           old2new == Old2NewPermutation(permutation)
<1>1. /\ UpToDate(c)
      /\ mesh' = [mesh EXCEPT ![c] = PermuteElements(@, permutation)]
      /\ unique_vertex' = [d \in Registered |->
            IF d = c THEN PermuteElements(unique_vertex[d], permutation)
                     ELSE unique_vertex[d]]
      /\ Notify(c, old2new)
      /\ UNCHANGED <<component_vertices, unique_name>>
    BY DEF PermuteMeshVertices
<1>2. n \in Nat /\ MeshVertices(c) = S /\ DOMAIN mesh = Components
    BY DEF TypeOK, SizesAreNumbers
<1>3. permutation \in Bijection(S, S)
    <2>1. /\ permutation \in [S -> S]
          /\ \A i, j \in S : permutation[i] = permutation[j] => i = j
        BY <1>2 DEF PermutationsOf
    <2>2. IsFiniteSet(S)
        BY <1>2, SizeOfVector
    <2>3. QED
        BY <2>1, <2>2, PermutationIsBijection
<1>4. \A v \in S : /\ permutation[v] \in S
                   /\ old2new \in [S -> S]
                   /\ old2new[permutation[v]] = v
                   /\ permutation[old2new[v]] = v
    BY <1>3, Old2NewInvertsPermutation DEF Bijection, Injection
<1>5. DOMAIN old2new = S /\ \A v \in S : old2new[v] \in S
    <2>1. DOMAIN permutation = S
        BY <1>3 DEF Bijection, Injection
    <2>2. QED
        BY <1>4, <2>1 DEF Old2NewPermutation
<1>6. /\ DOMAIN mesh' = Components
      /\ DOMAIN mesh'[c] = S
      /\ \A d \in Components \ {c} : mesh'[d] = mesh[d]
    BY <1>1, <1>2 DEF PermuteElements
<1>7. \A w \in S : \E v \in DOMAIN old2new : old2new[v] = w
    BY <1>4, <1>5
<1>8. /\ Registered' = Registered
      /\ \A d \in Registered \ {c} : unique_vertex'[d] = unique_vertex[d]
      /\ c \in Registered =>
            /\ unique_vertex'[c] = [v \in S |-> unique_vertex[c][permutation[v]]]
            /\ unique_vertex[c] \in [S -> UniqueVertices \cup {NoId}]
    BY <1>1, <1>2 DEF TypeOK, PermuteElements
<1>9. c \in Registered =>
        /\ unique_vertex'[c] \in [S -> UniqueVertices \cup {NoId}]
        /\ \A v \in S : unique_vertex'[c][old2new[v]] = unique_vertex[c][v]
    BY <1>4, <1>5, <1>8
<1> HIDE DEF n, old2new
<1>10. /\ MeshVertices(c) \subseteq DOMAIN old2new
       /\ \A v \in DOMAIN old2new : old2new[v] \in S \cup {NoId}
    BY <1>2, <1>5
<1>11. c \in Registered =>
        /\ \A v \in MeshVertices(c) : old2new[v] # NoId =>
                unique_vertex'[c][old2new[v]] = unique_vertex[c][v]
        /\ \A v \in DOMAIN old2new \ MeshVertices(c) :
                unique_vertex'[c][old2new[v]] = NoId
    BY <1>2, <1>5, <1>9
<1>12. QED
    BY <1>1, <1>2, <1>6, <1>7, <1>8, <1>9, <1>10, <1>11, MeshChangeStep

-----------------------------------------------------------------------------
\* update_unique_vertices(): the lists of the component are rebuilt from the
\* mapping, and those of the others are filtered out and left as they were.
LEMMA UpdateUniqueVerticesStep ==
    ASSUME IInv, NEW c \in Components, UpdateUniqueVertices(c)
    PROVE  IInv'
<1> USE DEF IInv, ListsMatchAttributes
<1>1. c \in Registered
    BY DEF UpdateUniqueVertices, UpToDate
<1>2. /\ unnotified'[c] = [v \in MeshVertices(c) |-> v]
      /\ \A d \in Registered \ {c} : unnotified'[d] = unnotified[d]
      /\ DOMAIN unnotified' = Registered
      /\ UniqueVertices' = UniqueVertices
      /\ UNCHANGED <<mesh, unique_vertex, unique_name>>
    BY <1>1 DEF UpdateUniqueVertices, Notify, SameIndices
<1>3. \A u \in UniqueVertices : \A cmv :
        cmv \in component_vertices'[u] <=>
            \/ cmv \in component_vertices[u] /\ cmv[1] # c
            \/ \E v \in DOMAIN unnotified[c] :
                    /\ <<c, v>> \in component_vertices[u]
                    /\ unnotified[c][v] # NoId
                    /\ cmv = <<c, unnotified[c][v]>>
    BY DEF UpdateUniqueVertices
<1>4. /\ MeshVertices(c) \subseteq Nat
      /\ \A v \in DOMAIN unnotified[c] :
            unnotified[c][v] \in MeshVertices(c) \cup {NoId}
    BY <1>1 DEF TypeOK, SizesAreNumbers, IndexRange
\* Of c, a list has what its attribute says.
<1>5. \A u \in UniqueVertices : \A w :
        <<c, w>> \in component_vertices'[u] =>
            w \in MeshVertices(c) /\ unique_vertex[c][w] = u
    <2> SUFFICES ASSUME NEW u \in UniqueVertices, NEW w,
                        <<c, w>> \in component_vertices'[u]
                 PROVE  w \in MeshVertices(c) /\ unique_vertex[c][w] = u
        OBVIOUS
    <2>1. PICK v \in DOMAIN unnotified[c] :
                /\ <<c, v>> \in component_vertices[u]
                /\ unnotified[c][v] # NoId
                /\ <<c, w>> = <<c, unnotified[c][v]>>
        BY <1>3
    <2>2. w = unnotified[c][v] /\ <<c, v>>[1] = c /\ <<c, v>>[2] = v
        BY <2>1
    <2>3. unique_vertex[c][unnotified[c][v]] = u
        BY <2>1, <2>2, ListedPair
    <2>4. QED
        BY <1>4, <2>1, <2>2, <2>3
\* A vertex in a list afterwards is of another component, or one of c.
<1>6. \A u \in UniqueVertices : \A cmv :
        cmv \in component_vertices'[u] =>
            \/ cmv[1] # c /\ cmv \in component_vertices[u]
            \/ cmv = <<c, cmv[2]>>
    <2> SUFFICES ASSUME NEW u \in UniqueVertices,
                        NEW cmv, cmv \in component_vertices'[u]
                 PROVE  \/ cmv[1] # c /\ cmv \in component_vertices[u]
                        \/ cmv = <<c, cmv[2]>>
        OBVIOUS
    <2>1. CASE cmv \in component_vertices[u] /\ cmv[1] # c
        BY <2>1
    <2>2. CASE \E v \in DOMAIN unnotified[c] : cmv = <<c, unnotified[c][v]>>
        BY <2>2
    <2>3. QED
        BY <1>3, <2>1, <2>2
<1>7. TypeOK'
    <2>1. \A u \in UniqueVertices :
            component_vertices'[u] \subseteq Components \X Nat
        BY <1>4, <1>5, <1>6 DEF TypeOK
    <2>2. Size(component_vertices') = Size(component_vertices)
        BY <1>2 DEF Size
    <2>3. QED
        BY <1>2, <2>1, <2>2 DEF TypeOK
<1>8. ListedIsIdentified'
    <2> SUFFICES ASSUME NEW u \in UniqueVertices,
                        NEW cmv \in component_vertices'[u]
                 PROVE  ListedIsIdentified!(u)!(cmv)'
        BY <1>2 DEF ListedIsIdentified
    <2>1. CASE cmv[1] # c
        BY <1>2, <1>6, <2>1, ListedPair
    <2>2. CASE cmv[1] = c
        <3>1. cmv = <<c, cmv[2]>>
            BY <1>6, <2>2
        <3>2. /\ cmv[2] \in MeshVertices(c)
              /\ unique_vertex[c][cmv[2]] = u
            BY <1>5, <3>1
        <3>3. QED
            BY <1>1, <1>2, <2>2, <3>2
    <2>3. QED
        BY <2>1, <2>2
<1>9. IdentifiedIsListed'
    <2> SUFFICES ASSUME NEW d \in Registered, NEW x \in DOMAIN unnotified'[d],
                        NEW w, w = unnotified'[d][x], w # NoId,
                        unique_vertex[d][w] # NoId
                 PROVE  <<d, x>> \in component_vertices'[unique_vertex[d][w]]
        BY <1>2 DEF IdentifiedIsListed
    <2>1. CASE d # c
        <3>1. /\ unique_vertex[d][w] \in UniqueVertices
              /\ <<d, x>> \in component_vertices[unique_vertex[d][w]]
            BY <1>2, <2>1 DEF IdentifiedIsListed, TypeOK
        <3>2. <<d, x>>[1] # c
            BY <2>1
        <3>3. QED
            BY <1>3, <3>1, <3>2
    <2>2. CASE d = c
        <3>1. w = x /\ w \in MeshVertices(c)
            BY <1>2, <2>2
        <3>2. PICK v \in DOMAIN unnotified[c] : unnotified[c][v] = w
            BY <1>1, <3>1 DEF PendingIsOnto
        <3>3. /\ unique_vertex[c][w] \in UniqueVertices
              /\ <<c, v>> \in component_vertices[unique_vertex[c][w]]
            BY <1>1, <2>2, <3>1, <3>2 DEF IdentifiedIsListed, TypeOK
        <3>4. QED
            BY <1>3, <2>2, <3>1, <3>2, <3>3
    <2>3. QED
        BY <2>1, <2>2
<1>10. ListedOnce'
    <2> SUFFICES ASSUME NEW u1 \in UniqueVertices, NEW u2 \in UniqueVertices,
                        NEW cmv, cmv \in component_vertices'[u1],
                        cmv \in component_vertices'[u2]
                 PROVE  u1 = u2
        BY <1>2 DEF ListedOnce
    <2>1. CASE cmv[1] # c
        BY <1>6, <2>1 DEF ListedOnce
    <2>2. CASE cmv[1] = c
        <3>1. cmv = <<c, cmv[2]>>
            BY <1>6, <2>2
        <3>2. QED
            BY <1>5, <3>1
    <2>3. QED
        BY <2>1, <2>2
<1>11. SizesAreNumbers' /\ PendingIsOnto'
    BY <1>2 DEF SizesAreNumbers, PendingIsOnto, Size
<1>12. QED
    BY <1>7, <1>8, <1>9, <1>10, <1>11


-----------------------------------------------------------------------------
\* delete_isolated_vertices(): every identified vertex is listed, so its
\* unique vertex is kept and the attribute follows the renumbering.
LEMMA DeleteIsolatedVerticesStep ==
    ASSUME IInv, DeleteIsolatedVertices
    PROVE  IInv'
<1> USE DEF IInv, ListsMatchAttributes
<1> DEFINE n == Size(component_vertices)
           D == {u \in UniqueVertices : component_vertices[u] = {}}
           old2new == MappingAfterDeletion(n, D)
           count == Cardinality(IndexRange(n) \ D)
           Listed(c, v) ==
               \E u \in UniqueVertices : <<c, v>> \in component_vertices[u]
<1>1. /\ \A c \in Registered : UpToDate(c)
      /\ component_vertices' = DeleteElements(component_vertices, D)
      /\ unique_name' = DeleteElements(unique_name, D)
      /\ unique_vertex' = [c \in Registered |-> [v \in MeshVertices(c) |->
                IF Listed(c, v) /\ unique_vertex[c][v] # NoId
                THEN old2new[unique_vertex[c][v]]
                ELSE unique_vertex[c][v]]]
      /\ UNCHANGED <<mesh, unnotified>>
    BY DEF DeleteIsolatedVertices
<1>2. /\ n \in Nat
      /\ UniqueVertices = IndexRange(n)
      /\ DOMAIN unique_name = IndexRange(n)
    BY DEF TypeOK, SizesAreNumbers
<1>3. /\ count \in Nat
      /\ UniqueVertices' = IndexRange(count)
      /\ DOMAIN unique_name' = IndexRange(count)
      /\ Size(component_vertices') = count
      /\ NoId \notin IndexRange(count)
    <2>1. NoId \notin IndexRange(count)
        BY DEF IndexRange, NoId
    <2>2. QED
        <3> HIDE DEF n, D
        <3>1. QED
            BY <1>1, <1>2, <2>1, DeletedVectorSize
<1>4. ASSUME NEW k \in IndexRange(count)
      PROVE  \E u \in UniqueVertices :
                /\ u \notin D
                /\ old2new[u] = k
                /\ component_vertices'[k] = component_vertices[u]
    <2> HIDE DEF n, D
    <2>1. \E u \in IndexRange(n) \ D :
                /\ old2new[u] = k
                /\ DeleteElements(component_vertices, D)[k]
                       = component_vertices[u]
        BY <1>2, DeletedVectorComesFromKept
    <2>2. QED
        BY <1>1, <1>2, <2>1
<1>5. ASSUME NEW u \in UniqueVertices, u \notin D
      PROVE  /\ old2new[u] \in IndexRange(count)
             /\ component_vertices'[old2new[u]] = component_vertices[u]
    <2> HIDE DEF n, D
    <2>1. u \in IndexRange(n) \ D
        BY <1>2, <1>5
    <2>2. /\ old2new[u] \in IndexRange(count)
          /\ DeleteElements(component_vertices, D)[old2new[u]]
                 = component_vertices[u]
        BY <1>2, <2>1, MappingIsOneToOne, DeletedVectorFollowsMapping
    <2>3. QED
        BY <1>1, <2>2
\* An identified vertex is listed, and its unique vertex kept.
<1>6. ASSUME NEW c \in Registered, NEW v \in MeshVertices(c),
             unique_vertex[c][v] # NoId
      PROVE  /\ unique_vertex[c][v] \in UniqueVertices
             /\ unique_vertex[c][v] \notin D
             /\ <<c, v>> \in component_vertices[unique_vertex[c][v]]
             /\ unique_vertex'[c][v] = old2new[unique_vertex[c][v]]
    <2>1. /\ unique_vertex[c][v] \in UniqueVertices
          /\ <<c, v>> \in component_vertices[unique_vertex[c][v]]
        BY <1>1, <1>6, IdentifiedUpToDate
    <2>2. unique_vertex'[c][v] = old2new[unique_vertex[c][v]]
        <3> HIDE DEF old2new
        <3>1. QED
            BY <1>1, <1>6, <2>1
    <2>3. QED
        BY <2>1, <2>2
<1>7. ASSUME NEW c \in Registered, NEW v \in MeshVertices(c),
             unique_vertex[c][v] = NoId
      PROVE  unique_vertex'[c][v] = NoId
    <2> HIDE DEF old2new
    <2>1. QED
        BY <1>1, <1>7
<1>8. /\ Registered' = Registered
      /\ unnotified' = unnotified
      /\ \A c \in Registered : DOMAIN unique_vertex'[c] = MeshVertices(c)
    <2> HIDE DEF old2new
    <2>1. QED
        BY <1>1
<1> HIDE DEF n, D, old2new, count, Listed
<1>9. TypeOK'
    <2>1. ASSUME NEW c \in Registered
          PROVE  unique_vertex'[c] \in
                    [MeshVertices(c) -> UniqueVertices' \cup {NoId}]
        <3>1. \A v \in MeshVertices(c) :
                    unique_vertex'[c][v] \in UniqueVertices' \cup {NoId}
            <4> SUFFICES ASSUME NEW v \in MeshVertices(c)
                         PROVE  unique_vertex'[c][v] \in
                                    UniqueVertices' \cup {NoId}
                OBVIOUS
            <4>1. CASE unique_vertex[c][v] = NoId
                BY <1>7, <4>1
            <4>2. CASE unique_vertex[c][v] # NoId
                <5>1. /\ unique_vertex[c][v] \in UniqueVertices
                      /\ unique_vertex[c][v] \notin D
                      /\ unique_vertex'[c][v] = old2new[unique_vertex[c][v]]
                    BY <1>6, <4>2
                <5>2. old2new[unique_vertex[c][v]] \in IndexRange(count)
                    BY <1>5, <5>1
                <5>3. QED
                    BY <1>3, <5>1, <5>2
            <4>3. QED
                BY <4>1, <4>2
        <3>2. unique_vertex'[c] = [v \in MeshVertices(c) |-> unique_vertex'[c][v]]
            BY <1>1
        <3>3. QED
            BY <3>1, <3>2
    <2>2. \A u \in UniqueVertices' :
            component_vertices'[u] \subseteq Components \X Nat
        BY <1>3, <1>4 DEF TypeOK
    <2>3. UniqueVertices' = IndexRange(Size(component_vertices'))
        BY <1>3
    <2>4. QED
        BY <1>1, <1>3, <1>8, <2>1, <2>2, <2>3 DEF TypeOK
<1>10. ListedIsIdentified'
    <2> SUFFICES ASSUME NEW k \in UniqueVertices',
                        NEW cmv \in component_vertices'[k]
                 PROVE  ListedIsIdentified!(k)!(cmv)'
        BY DEF ListedIsIdentified
    <2>1. PICK u \in UniqueVertices :
                /\ old2new[u] = k
                /\ cmv \in component_vertices[u]
        BY <1>3, <1>4
    <2>2. cmv[1] \in Registered /\ UpToDate(cmv[1])
        BY <1>1, <2>1, ListedPair
    <2>3. /\ cmv[2] \in MeshVertices(cmv[1])
          /\ unique_vertex[cmv[1]][cmv[2]] = u
        BY <2>1, <2>2, ListedUpToDate
    <2>4. u # NoId
        BY <1>2 DEF IndexRange, NoId
    <2>5. unique_vertex'[cmv[1]][cmv[2]] = k
        BY <1>6, <2>1, <2>2, <2>3, <2>4
    <2>6. unnotified[cmv[1]] = [v \in MeshVertices(cmv[1]) |-> v]
        BY <2>2 DEF UpToDate, SameIndices
    <2>7. /\ cmv[2] \in DOMAIN unnotified[cmv[1]]
          /\ unnotified[cmv[1]][cmv[2]] = cmv[2]
        BY <2>3, <2>6
    <2>8. unnotified' = unnotified /\ cmv[1] \in Registered'
        BY <1>1, <1>8, <2>2
    <2>9. QED
        BY <2>5, <2>7, <2>8
<1>11. IdentifiedIsListed'
    <2> SUFFICES ASSUME NEW c \in Registered, NEW v \in DOMAIN unnotified[c],
                        NEW w, w = unnotified[c][v], w # NoId,
                        unique_vertex'[c][w] # NoId
                 PROVE  <<c, v>> \in component_vertices'[unique_vertex'[c][w]]
        BY <1>8 DEF IdentifiedIsListed
    <2>1. unnotified[c] = [x \in MeshVertices(c) |-> x]
        <3>1. UpToDate(c)
            BY <1>1
        <3>2. QED
            BY <3>1 DEF UpToDate, SameIndices
    <2>2. w = v /\ w \in MeshVertices(c)
        BY <2>1
    <2>3. unique_vertex[c][w] # NoId
        BY <1>7, <2>2
    <2>4. /\ unique_vertex[c][w] \in UniqueVertices
          /\ unique_vertex[c][w] \notin D
          /\ <<c, w>> \in component_vertices[unique_vertex[c][w]]
          /\ unique_vertex'[c][w] = old2new[unique_vertex[c][w]]
        BY <1>6, <2>2, <2>3
    <2>5. component_vertices'[old2new[unique_vertex[c][w]]]
              = component_vertices[unique_vertex[c][w]]
        BY <1>5, <2>4
    <2>6. QED
        BY <2>2, <2>4, <2>5
<1>12. ListedOnce'
    <2> SUFFICES ASSUME NEW k1 \in UniqueVertices', NEW k2 \in UniqueVertices',
                        NEW cmv, cmv \in component_vertices'[k1],
                        cmv \in component_vertices'[k2]
                 PROVE  k1 = k2
        BY DEF ListedOnce
    <2>1. PICK u1 \in UniqueVertices :
                old2new[u1] = k1 /\ cmv \in component_vertices[u1]
        BY <1>3, <1>4
    <2>2. PICK u2 \in UniqueVertices :
                old2new[u2] = k2 /\ cmv \in component_vertices[u2]
        BY <1>3, <1>4
    <2>3. u1 = u2
        BY <2>1, <2>2 DEF ListedOnce
    <2>4. QED
        BY <2>1, <2>2, <2>3
<1>13. SizesAreNumbers' /\ PendingIsOnto'
    BY <1>1, <1>3, <1>8 DEF SizesAreNumbers, PendingIsOnto
<1>14. QED
    BY <1>9, <1>10, <1>11, <1>12, <1>13

-----------------------------------------------------------------------------
\* Every operation of the identifier and every change of a mesh keeps IInv.
LEMMA StepKeepsInvariant == IInv /\ [Next]_vars => IInv'
<1> SUFFICES ASSUME IInv, [Next]_vars
             PROVE  IInv'
    OBVIOUS
<1>1. ASSUME NEW c \in Components,
             \/ RegisterComponent(c)
             \/ UnregisterComponent(c)
             \/ CreateMeshVertex(c)
             \/ UpdateUniqueVertices(c)
      PROVE  IInv'
    BY <1>1, RegisterComponentStep, UnregisterComponentStep,
       CreateMeshVertexStep, UpdateUniqueVerticesStep
<1>2. ASSUME NEW c \in Components, NEW v \in MeshVertices(c),
             \/ \E u \in UniqueVertices : SetUniqueVertex(c, v, u)
             \/ UnsetUniqueVertex(c, v)
      PROVE  IInv'
    BY <1>2, SetUniqueVertexStep, UnsetUniqueVertexStep
<1>3. ASSUME NEW c \in Components, NEW D \in SUBSET MeshVertices(c),
             DeleteMeshVertices(c, D)
      PROVE  IInv'
    BY <1>3, DeleteMeshVerticesStep
<1>4. ASSUME NEW c \in Components,
             NEW permutation \in PermutationsOf(MeshVertices(c)),
             PermuteMeshVertices(c, permutation)
      PROVE  IInv'
    BY <1>4, PermuteMeshVerticesStep
<1>5. CASE CreateUniqueVertex
    BY <1>5, CreateUniqueVertexStep
<1>6. CASE DeleteIsolatedVertices
    BY <1>6, DeleteIsolatedVerticesStep
<1>7. CASE UNCHANGED vars
    BY <1>7 DEF vars, IInv, ListsMatchAttributes, TypeOK, ListedIsIdentified,
                IdentifiedIsListed, ListedOnce, SizesAreNumbers, PendingIsOnto
<1>8. QED
    BY <1>1, <1>2, <1>3, <1>4, <1>5, <1>6, <1>7 DEF Next

\* Whatever the components of the model, the sizes of their meshes and the
\* order of the calls: the lists of the unique vertices and the attributes of
\* the meshes say the same, through the mapping that is pending if one is.
THEOREM ListsAndAttributesAgree == Spec => []ListsMatchAttributes
<1>1. IInv => ListsMatchAttributes
    BY DEF IInv
<1>2. QED
    BY InitIsConsistent, StepKeepsInvariant, <1>1, PTL DEF Spec


-----------------------------------------------------------------------------
(***************************************************************************)
(* The identifier implements Identification: by name, a mesh vertex stays  *)
(* with its unique vertex.  Names are one-to-one with indices on both      *)
(* sides, so what an index means is what its name means at every moment.   *)
(***************************************************************************)
NamesAreOneToOne ==
    /\ \A c \in Components : mesh[c] \in Injection(MeshVertices(c), MeshNames)
    /\ unique_name \in Injection(UniqueVertices, UniqueNames)

RInv == IInv /\ NamesAreOneToOne

LEMMA InitNames == Init => NamesAreOneToOne
<1> SUFFICES ASSUME Init PROVE NamesAreOneToOne
    OBVIOUS
<1>1. DOMAIN <<>> = {}
    OBVIOUS
<1>2. \A S : <<>> \in Injection({}, S)
    <2>1. \A S : <<>> \in [{} -> S]
        OBVIOUS
    <2>2. QED
        BY <2>1 DEF Injection, IsInjective
<1>3. QED
    BY <1>1, <1>2 DEF Init, NamesAreOneToOne


\* A created element gets a free name; a deletion or a permutation on either
\* side keeps the names of the elements that stay different.
LEMMA StepKeepsNames == RInv /\ [Next]_vars => NamesAreOneToOne'
<1> SUFFICES ASSUME RInv, [Next]_vars
             PROVE  NamesAreOneToOne'
    OBVIOUS
<1> USE DEF RInv, IInv, ListsMatchAttributes
<1>1. /\ DOMAIN mesh = Components
      /\ \A c \in Components :
            /\ Size(mesh[c]) \in Nat
            /\ MeshVertices(c) = IndexRange(Size(mesh[c]))
            /\ mesh[c] \in Injection(MeshVertices(c), MeshNames)
      /\ Size(component_vertices) \in Nat
      /\ UniqueVertices = IndexRange(Size(component_vertices))
      /\ unique_name \in Injection(UniqueVertices, UniqueNames)
    BY DEF TypeOK, SizesAreNumbers, NamesAreOneToOne
\* A step changes the mesh of one component only, or none.
<1>2. ASSUME NEW c \in Components, NEW g,
             mesh' = [mesh EXCEPT ![c] = g],
             g \in Injection(DOMAIN g, MeshNames),
             UNCHANGED <<component_vertices, unique_name>>
      PROVE  NamesAreOneToOne'
    <2>1. mesh'[c] = g /\ \A d \in Components \ {c} : mesh'[d] = mesh[d]
        BY <1>1, <1>2
    <2>2. \A d \in Components : mesh'[d] \in Injection(DOMAIN mesh'[d], MeshNames)
        BY <1>1, <1>2, <2>1
    <2>3. QED
        BY <1>1, <1>2, <2>2 DEF NamesAreOneToOne
<1>3. ASSUME UNCHANGED <<mesh, unique_name>>, UniqueVertices' = UniqueVertices
      PROVE  NamesAreOneToOne'
    BY <1>3 DEF NamesAreOneToOne
<1>4. ASSUME NEW c \in Components,
             \/ RegisterComponent(c)
             \/ UnregisterComponent(c)
             \/ UpdateUniqueVertices(c)
             \/ \E v \in MeshVertices(c) :
                    \/ \E u \in UniqueVertices : SetUniqueVertex(c, v, u)
                    \/ UnsetUniqueVertex(c, v)
      PROVE  NamesAreOneToOne'
    BY <1>3, <1>4
    DEF RegisterComponent, UnregisterComponent, UpdateUniqueVertices,
        SetUniqueVertex, UnsetUniqueVertex
<1>5. ASSUME NEW c \in Components, CreateMeshVertex(c)
      PROVE  NamesAreOneToOne'
    <2> DEFINE n == Size(mesh[c])
    <2>1. PICK name \in FreeMeshNames(c) :
                mesh' = [mesh EXCEPT ![c] = AppendElement(@, name)]
        BY <1>5 DEF CreateMeshVertex
    <2> DEFINE g == AppendElement(mesh[c], name)
    <2>2. name \in MeshNames /\ \A i \in IndexRange(n) : mesh[c][i] # name
        BY <1>1 DEF FreeMeshNames, NamesOf
    <2>3. g \in Injection(IndexRange(n + 1), MeshNames)
        <3> HIDE DEF n, g
        <3>1. n \in Nat /\ mesh[c] \in Injection(IndexRange(n), MeshNames)
            BY <1>1 DEF n
        <3>2. QED
            BY <2>2, <3>1, AppendedNames DEF g
    <2>4. DOMAIN g = IndexRange(n + 1)
        BY <2>3 DEF Injection
    <2>5. mesh' = [mesh EXCEPT ![c] = g]
        BY <2>1
    <2>6. UNCHANGED <<component_vertices, unique_name>>
        BY <1>5 DEF CreateMeshVertex
    <2> HIDE DEF g
    <2>7. QED
        BY <1>2, <2>3, <2>4, <2>5, <2>6
<1>6. ASSUME NEW c \in Components, NEW D \in SUBSET MeshVertices(c),
             DeleteMeshVertices(c, D)
      PROVE  NamesAreOneToOne'
    <2> DEFINE n == Size(mesh[c])
               g == DeleteElements(mesh[c], D)
               indices == IndexRange(Cardinality(IndexRange(n) \ D))
    <2>1. g \in Injection(indices, MeshNames)
        <3> HIDE DEF n
        <3>1. n \in Nat /\ mesh[c] \in Injection(IndexRange(n), MeshNames)
            BY <1>1 DEF n
        <3>2. QED
            BY <3>1, DeletedNames
    <2>2. DOMAIN g = indices
        BY <2>1 DEF Injection
    <2>3. mesh' = [mesh EXCEPT ![c] = g]
          /\ UNCHANGED <<component_vertices, unique_name>>
        BY <1>6 DEF DeleteMeshVertices
    <2> HIDE DEF g, indices
    <2>4. QED
        BY <1>2, <2>1, <2>2, <2>3
<1>7. ASSUME NEW c \in Components,
             NEW permutation \in PermutationsOf(MeshVertices(c)),
             PermuteMeshVertices(c, permutation)
      PROVE  NamesAreOneToOne'
    <2> DEFINE g == PermuteElements(mesh[c], permutation)
               S == MeshVertices(c)
    <2>1. permutation \in Bijection(S, S)
        <3>1. IsFiniteSet(S)
            BY <1>1, SizeOfVector
        <3>2. /\ permutation \in [S -> S]
              /\ \A i, j \in S : permutation[i] = permutation[j] => i = j
            BY DEF PermutationsOf
        <3>3. QED
            BY <3>1, <3>2, PermutationIsBijection
    <2>2. g \in Injection(S, MeshNames)
        BY <1>1, <2>1, PermutedNames
    <2>3. DOMAIN g = S
        BY <2>2 DEF Injection
    <2>4. mesh' = [mesh EXCEPT ![c] = g]
          /\ UNCHANGED <<component_vertices, unique_name>>
        BY <1>7 DEF PermuteMeshVertices
    <2> HIDE DEF g
    <2>5. QED
        BY <1>2, <2>2, <2>3, <2>4
<1>8. CASE CreateUniqueVertex
    <2> DEFINE n == Size(component_vertices)
    <2>1. PICK name \in FreeUniqueNames :
                unique_name' = AppendElement(unique_name, name)
        BY <1>8 DEF CreateUniqueVertex
    <2>2. name \in UniqueNames /\ \A i \in IndexRange(n) : unique_name[i] # name
        BY <1>1 DEF FreeUniqueNames
    <2>3. /\ unique_name' \in Injection(IndexRange(n + 1), UniqueNames)
          /\ UniqueVertices' = IndexRange(n + 1)
        <3> HIDE DEF n
        <3>1. /\ n \in Nat
              /\ unique_name \in Injection(IndexRange(n), UniqueNames)
              /\ UniqueVertices = IndexRange(n)
            BY <1>1 DEF n
        <3>2. component_vertices' = AppendElement(component_vertices, {})
            BY <1>8 DEF CreateUniqueVertex
        <3>3. QED
            BY <2>1, <2>2, <3>1, <3>2, AppendedNames, AppendedVector
    <2>4. mesh' = mesh
        BY <1>8 DEF CreateUniqueVertex
    <2>5. QED
        BY <1>1, <2>3, <2>4 DEF NamesAreOneToOne
<1>9. CASE DeleteIsolatedVertices
    <2> DEFINE n == Size(component_vertices)
               D == {u \in UniqueVertices : component_vertices[u] = {}}
               indices == IndexRange(Cardinality(IndexRange(n) \ D))
    <2>1. /\ unique_name' = DeleteElements(unique_name, D)
          /\ component_vertices' = DeleteElements(component_vertices, D)
          /\ mesh' = mesh
        BY <1>9 DEF DeleteIsolatedVertices
    <2>2. /\ n \in Nat
          /\ unique_name \in Injection(IndexRange(n), UniqueNames)
          /\ UniqueVertices = IndexRange(n)
        BY <1>1
    <2>3. /\ unique_name' \in Injection(indices, UniqueNames)
          /\ UniqueVertices' = indices
        <3> HIDE DEF n, D
        <3>1. QED
            BY <2>1, <2>2, DeletedNames, DeletedVectorSize
    <2> HIDE DEF indices
    <2>4. QED
        BY <1>1, <2>1, <2>3 DEF NamesAreOneToOne
<1>10. CASE UNCHANGED vars
    BY <1>3, <1>10 DEF vars
<1>11. QED
    BY <1>4, <1>5, <1>6, <1>7, <1>8, <1>9, <1>10 DEF Next


-----------------------------------------------------------------------------
\* g is the function that Identification keeps, of these meshes, attributes
\* and names.
Identifies(meshes, attributes, names, g) ==
    /\ g = [x \in DOMAIN g |-> g[x]]
    /\ \A x \in DOMAIN g :
          \E c \in DOMAIN attributes : \E v \in DOMAIN meshes[c] :
              attributes[c][v] # NoId /\ x = <<c, meshes[c][v]>>
    /\ \A c \in DOMAIN attributes : \A v \in DOMAIN meshes[c] :
          attributes[c][v] # NoId =>
              /\ <<c, meshes[c][v]>> \in DOMAIN g
              /\ g[<<c, meshes[c][v]>>] = names[attributes[c][v]]

IdentifiedNow == Identifies(mesh, unique_vertex, unique_name, Identified)

\* There is one such function: to find Identified after a step is to show of
\* the function that Identification gives that it is one.
LEMMA OneIdentification ==
    ASSUME NEW meshes, NEW attributes, NEW names, NEW g, NEW h,
           Identifies(meshes, attributes, names, g),
           Identifies(meshes, attributes, names, h)
    PROVE  g = h
<1>1. ASSUME NEW x \in DOMAIN g
      PROVE  x \in DOMAIN h /\ g[x] = h[x]
    <2>1. PICK c \in DOMAIN attributes : \E v \in DOMAIN meshes[c] :
                attributes[c][v] # NoId /\ x = <<c, meshes[c][v]>>
        BY DEF Identifies
    <2>2. PICK v \in DOMAIN meshes[c] :
                attributes[c][v] # NoId /\ x = <<c, meshes[c][v]>>
        BY <2>1
    <2>3. QED
        BY <2>2 DEF Identifies
<1>2. ASSUME NEW x \in DOMAIN h
      PROVE  x \in DOMAIN g
    <2>1. PICK c \in DOMAIN attributes : \E v \in DOMAIN meshes[c] :
                attributes[c][v] # NoId /\ x = <<c, meshes[c][v]>>
        BY DEF Identifies
    <2>2. QED
        BY <2>1 DEF Identifies
<1>3. DOMAIN g = DOMAIN h
    BY <1>1, <1>2
<1>4. g = [x \in DOMAIN g |-> g[x]] /\ h = [x \in DOMAIN h |-> h[x]]
    BY DEF Identifies
<1>5. [x \in DOMAIN g |-> g[x]] = [x \in DOMAIN h |-> h[x]]
    BY <1>1, <1>3
<1>6. QED
    BY <1>4, <1>5

LEMMA IdentifiedByIndex == RInv => IdentifiedNow
<1> SUFFICES ASSUME RInv PROVE IdentifiedNow
    OBVIOUS
<1> USE DEF RInv, IInv, ListsMatchAttributes
<1>1. \A c \in Registered :
        /\ c \in Components
        /\ mesh[c] \in [MeshVertices(c) -> MeshNames]
        /\ \A v, w \in MeshVertices(c) : mesh[c][v] = mesh[c][w] => v = w
    BY DEF TypeOK, NamesAreOneToOne, Injection, IsInjective
<1>2. ASSUME NEW c \in Registered, NEW v \in MeshVertices(c)
      PROVE  VertexNamed(c, mesh[c][v]) = v
    BY <1>1 DEF VertexNamed
<1>3. DOMAIN Identified = IdentifiedNames
      /\ Identified = [x \in DOMAIN Identified |-> Identified[x]]
    BY DEF Identified
<1>4. ASSUME NEW x \in IdentifiedNames
      PROVE  \E c \in Registered : \E v \in MeshVertices(c) :
                unique_vertex[c][v] # NoId /\ x = <<c, mesh[c][v]>>
    <2>1. /\ x = <<x[1], x[2]>>
          /\ x[1] \in Registered
          /\ \E v \in MeshVertices(x[1]) :
                mesh[x[1]][v] = x[2] /\ unique_vertex[x[1]][v] # NoId
        BY DEF IdentifiedNames
    <2>2. QED
        BY <2>1
<1>5. ASSUME NEW c \in Registered, NEW v \in MeshVertices(c),
             unique_vertex[c][v] # NoId
      PROVE  /\ <<c, mesh[c][v]>> \in IdentifiedNames
             /\ Identified[<<c, mesh[c][v]>>] = unique_name[unique_vertex[c][v]]
    <2> DEFINE x == <<c, mesh[c][v]>>
    <2>1. x[1] = c /\ x[2] = mesh[c][v] /\ x \in Registered \X MeshNames
        BY <1>1
    <2> HIDE DEF x
    <2>2. x \in IdentifiedNames
        BY <1>5, <2>1 DEF IdentifiedNames
    <2>3. Identified[x] = unique_name[unique_vertex[x[1]][VertexNamed(x[1], x[2])]]
        BY <2>2 DEF Identified
    <2>4. Identified[x] = unique_name[unique_vertex[c][v]]
        BY <1>2, <2>1, <2>3
    <2>5. QED
        BY <2>2, <2>4 DEF x
<1>6. QED
    BY <1>3, <1>4, <1>5 DEF IdentifiedNow, Identifies

USE DEF Abstract!Keep, Abstract!identificationVars

LEMMA InitImplementsInit == Init => Abstract!Init
<1> SUFFICES ASSUME Init PROVE Abstract!Init
    OBVIOUS
<1>1. DOMAIN <<>> = {}
    OBVIOUS
<1>2. Registered = {} /\ UniqueVertices = {}
    BY <1>1 DEF Init
<1>3. \A c \in Components : NamesOf(c) = {}
    BY <1>1 DEF Init, NamesOf
<1>4. IdentifiedNames = {}
    BY <1>2 DEF IdentifiedNames
<1>5. Identified = <<>>
    BY <1>4 DEF Identified
<1>6. QED
    BY <1>2, <1>3, <1>5 DEF Abstract!Init

\* register_component(): an attribute of NO_ID identifies nothing.
LEMMA RegisterImplements ==
    ASSUME IdentifiedNow, IdentifiedNow',
           NEW c \in Components, RegisterComponent(c)
    PROVE  Abstract!Register(c)
<1>1. /\ c \notin Registered
      /\ Registered' = Registered \cup {c}
      /\ unique_vertex'[c] = [v \in MeshVertices(c) |-> NoId]
      /\ \A d \in Registered : unique_vertex'[d] = unique_vertex[d]
      /\ UniqueVertices' = UniqueVertices
      /\ UNCHANGED <<mesh, unique_name>>
    BY DEF RegisterComponent
<1>2. Identifies(mesh', unique_vertex', unique_name', Identified)
    <2>1. ASSUME NEW x \in DOMAIN Identified
          PROVE  \E d \in Registered' : \E v \in DOMAIN mesh'[d] :
                    unique_vertex'[d][v] # NoId /\ x = <<d, mesh'[d][v]>>
        BY <1>1 DEF IdentifiedNow, Identifies
    <2>2. ASSUME NEW d \in Registered', NEW v \in DOMAIN mesh'[d],
                 unique_vertex'[d][v] # NoId
          PROVE  /\ <<d, mesh'[d][v]>> \in DOMAIN Identified
                 /\ Identified[<<d, mesh'[d][v]>>]
                        = unique_name'[unique_vertex'[d][v]]
        <3>1. d \in Registered /\ unique_vertex[d][v] # NoId
            BY <1>1, <2>2
        <3>2. QED
            BY <1>1, <3>1 DEF IdentifiedNow, Identifies
    <2>3. Identified = [x \in DOMAIN Identified |-> Identified[x]]
        BY DEF IdentifiedNow, Identifies
    <2>4. QED
        BY <2>1, <2>2, <2>3 DEF Identifies
<1>3. Identified' = Identified
    BY <1>2, OneIdentification DEF IdentifiedNow
<1>4. \A d \in Components : NamesOf(d)' = NamesOf(d)
    BY <1>1 DEF NamesOf
<1>5. QED
    BY <1>1, <1>3, <1>4 DEF Abstract!Register, NamesOf

\* unregister_component(): the vertices of the component are not identified
\* any more.
LEMMA UnregisterImplements ==
    ASSUME IdentifiedNow, IdentifiedNow',
           NEW c \in Components, UnregisterComponent(c)
    PROVE  Abstract!Unregister(c)
<1>1. /\ Registered' = Registered \ {c}
      /\ \A d \in Registered' : unique_vertex'[d] = unique_vertex[d]
      /\ UniqueVertices' = UniqueVertices
      /\ UNCHANGED <<mesh, unique_name>>
    BY DEF UnregisterComponent
<1> DEFINE S == DOMAIN Identified \cap {x \in DOMAIN Identified : x[1] # c}
           g == [x \in S |-> Identified[x]]
<1>2. Identifies(mesh', unique_vertex', unique_name', g)
    <2>1. ASSUME NEW x \in S
          PROVE  \E d \in Registered' : \E v \in DOMAIN mesh'[d] :
                    unique_vertex'[d][v] # NoId /\ x = <<d, mesh'[d][v]>>
        <3>1. PICK d \in Registered : \E v \in MeshVertices(d) :
                    unique_vertex[d][v] # NoId /\ x = <<d, mesh[d][v]>>
            BY DEF IdentifiedNow, Identifies
        <3>2. d # c
            BY <3>1
        <3>3. QED
            BY <1>1, <3>1, <3>2
    <2>2. ASSUME NEW d \in Registered', NEW v \in DOMAIN mesh'[d],
                 unique_vertex'[d][v] # NoId
          PROVE  /\ <<d, mesh'[d][v]>> \in S
                 /\ g[<<d, mesh'[d][v]>>] = unique_name'[unique_vertex'[d][v]]
        <3>1. /\ <<d, mesh[d][v]>> \in DOMAIN Identified
              /\ Identified[<<d, mesh[d][v]>>] = unique_name[unique_vertex[d][v]]
            <4>1. d \in Registered /\ v \in MeshVertices(d)
                  /\ unique_vertex[d][v] # NoId
                BY <1>1, <2>2
            <4>2. QED
                BY <4>1 DEF IdentifiedNow, Identifies
        <3>2. <<d, mesh[d][v]>>[1] # c
            BY <1>1
        <3>3. QED
            BY <1>1, <3>1, <3>2
    <2>3. g = [x \in DOMAIN g |-> g[x]] /\ DOMAIN g = S
        OBVIOUS
    <2> HIDE DEF S, g
    <2>4. QED
        BY <2>1, <2>2, <2>3 DEF Identifies
<1>3. Identified' = g
    <2> HIDE DEF g
    <2>1. QED
        BY <1>2, OneIdentification DEF IdentifiedNow
<1>4. \A d \in Components : NamesOf(d)' = NamesOf(d)
    BY <1>1 DEF NamesOf
<1>5. QED
    BY <1>1, <1>3, <1>4 DEF Abstract!Unregister, NamesOf


\* What the invariant says of the vectors of a component, in one place.
LEMMA VectorsOf ==
    ASSUME RInv, NEW c \in Components
    PROVE  /\ Size(mesh[c]) \in Nat
           /\ DOMAIN mesh = Components
           /\ MeshVertices(c) = IndexRange(Size(mesh[c]))
           /\ mesh[c] \in Injection(MeshVertices(c), MeshNames)
           /\ mesh[c] \in [MeshVertices(c) -> MeshNames]
           /\ \A v, w \in MeshVertices(c) : mesh[c][v] = mesh[c][w] => v = w
           /\ c \in Registered =>
                 unique_vertex[c] \in [MeshVertices(c) -> UniqueVertices \cup {NoId}]
    BY DEF RInv, IInv, ListsMatchAttributes, TypeOK, SizesAreNumbers,
           NamesAreOneToOne, Injection, IsInjective

\* A mesh vertex is created: it is not identified.
LEMMA CreateMeshVertexImplements ==
    ASSUME RInv, IdentifiedNow, IdentifiedNow',
           NEW c \in Components, CreateMeshVertex(c)
    PROVE  \E name \in MeshNames \ NamesOf(c) : Abstract!AddMeshVertex(c, name)
<1> DEFINE n == Size(mesh[c])
<1>1. PICK name \in MeshNames \ NamesOf(c) :
            mesh' = [mesh EXCEPT ![c] = AppendElement(@, name)]
    BY DEF CreateMeshVertex, FreeMeshNames
<1>2. /\ n \in Nat
      /\ DOMAIN mesh = Components
      /\ MeshVertices(c) = IndexRange(n)
    BY VectorsOf
<1>3. /\ DOMAIN mesh'[c] = IndexRange(n + 1)
      /\ IndexRange(n + 1) = IndexRange(n) \cup {n}
      /\ mesh'[c][n] = name
      /\ \A v \in IndexRange(n) : mesh'[c][v] = mesh[c][v]
      /\ \A d \in Components \ {c} : mesh'[d] = mesh[d]
    <2>1. mesh'[c] = AppendElement(mesh[c], name)
          /\ \A d \in Components \ {c} : mesh'[d] = mesh[d]
        BY <1>1, <1>2
    <2> HIDE DEF n
    <2>2. QED
        BY <1>2, <2>1, AppendedVector
<1>4. /\ Registered' = Registered
      /\ \A d \in Registered \ {c} : unique_vertex'[d] = unique_vertex[d]
      /\ c \in Registered =>
            unique_vertex'[c] = AppendElement(unique_vertex[c], NoId)
      /\ UNCHANGED <<component_vertices, unique_name>>
    BY DEF CreateMeshVertex
<1>5. c \in Registered =>
        /\ unique_vertex'[c][n] = NoId
        /\ \A v \in IndexRange(n) : unique_vertex'[c][v] = unique_vertex[c][v]
    <2> SUFFICES ASSUME c \in Registered
                 PROVE  /\ unique_vertex'[c][n] = NoId
                        /\ \A v \in IndexRange(n) :
                                unique_vertex'[c][v] = unique_vertex[c][v]
        OBVIOUS
    <2>1. DOMAIN unique_vertex[c] = IndexRange(n)
        BY <1>2, VectorsOf
    <2> HIDE DEF n
    <2>2. QED
        BY <1>2, <1>4, <2>1, AppendedVector
<1> HIDE DEF n
<1>6. Registered \subseteq Components
    BY DEF RInv, IInv, ListsMatchAttributes, TypeOK
<1>7. Identifies(mesh', unique_vertex', unique_name', Identified)
    <2>1. ASSUME NEW x \in DOMAIN Identified
          PROVE  \E d \in Registered' : \E v \in DOMAIN mesh'[d] :
                    unique_vertex'[d][v] # NoId /\ x = <<d, mesh'[d][v]>>
        <3>1. PICK d \in Registered : \E v \in MeshVertices(d) :
                    unique_vertex[d][v] # NoId /\ x = <<d, mesh[d][v]>>
            BY DEF IdentifiedNow, Identifies
        <3>2. CASE d = c
            BY <1>2, <1>3, <1>4, <1>5, <3>1, <3>2
        <3>3. CASE d # c
            BY <1>3, <1>4, <1>6, <3>1, <3>3
        <3>4. QED
            BY <3>2, <3>3
    <2>2. ASSUME NEW d \in Registered', NEW v \in DOMAIN mesh'[d],
                 unique_vertex'[d][v] # NoId
          PROVE  /\ <<d, mesh'[d][v]>> \in DOMAIN Identified
                 /\ Identified[<<d, mesh'[d][v]>>]
                        = unique_name'[unique_vertex'[d][v]]
        <3>1. /\ d \in Registered
              /\ v \in MeshVertices(d)
              /\ unique_vertex'[d][v] = unique_vertex[d][v]
              /\ mesh'[d][v] = mesh[d][v]
            BY <1>2, <1>3, <1>4, <1>5, <1>6, <2>2
        <3>2. QED
            BY <1>4, <2>2, <3>1 DEF IdentifiedNow, Identifies
    <2>3. Identified = [x \in DOMAIN Identified |-> Identified[x]]
        BY DEF IdentifiedNow, Identifies
    <2>4. QED
        BY <2>1, <2>2, <2>3 DEF Identifies
<1>8. Identified' = Identified
    BY <1>7, OneIdentification DEF IdentifiedNow
<1>9. /\ NamesOf(c)' = NamesOf(c) \cup {name}
      /\ \A d \in Components \ {c} : NamesOf(d)' = NamesOf(d)
    BY <1>2, <1>3 DEF NamesOf
<1>10. [d \in Components |-> NamesOf(d)]'
           = [[d \in Components |-> NamesOf(d)] EXCEPT ![c] = @ \cup {name}]
    BY <1>9
<1>11. UNCHANGED <<Registered, Identified,
                   {unique_name[u] : u \in UniqueVertices}>>
    BY <1>4, <1>8
<1>12. Abstract!AddMeshVertex(c, name)
    BY <1>10, <1>11 DEF Abstract!AddMeshVertex
<1>13. QED
    BY <1>12

\* set_unique_vertex(): the vertex is identified with the unique vertex.
LEMMA SetUniqueVertexImplements ==
    ASSUME RInv, IdentifiedNow, IdentifiedNow',
           NEW c \in Components, NEW v \in MeshVertices(c),
           NEW u \in UniqueVertices, SetUniqueVertex(c, v, u)
    PROVE  /\ c \in Registered
           /\ Abstract!Identify(c, mesh[c][v], unique_name[u])
<1>1. /\ c \in Registered
      /\ unique_vertex' = [unique_vertex EXCEPT ![c][v] = u]
      /\ UniqueVertices' = UniqueVertices
      /\ Registered' = Registered
      /\ UNCHANGED <<mesh, unique_name>>
    BY DEF SetUniqueVertex
<1>2. /\ \A w, x \in MeshVertices(c) : mesh[c][w] = mesh[c][x] => w = x
      /\ DOMAIN unique_vertex[c] = MeshVertices(c)
      /\ u # NoId
    BY <1>1, VectorsOf
    DEF RInv, IInv, ListsMatchAttributes, TypeOK, SizesAreNumbers, IndexRange, NoId
<1>3. /\ unique_vertex'[c][v] = u
      /\ \A w \in MeshVertices(c) \ {v} : unique_vertex'[c][w] = unique_vertex[c][w]
      /\ \A d \in Registered \ {c} : unique_vertex'[d] = unique_vertex[d]
    BY <1>1, <1>2
<1> DEFINE p == <<c, mesh[c][v]>>
           S == DOMAIN Identified \cup {p}
           g == [x \in S |-> IF x = p THEN unique_name[u] ELSE Identified[x]]
<1>4. Identifies(mesh', unique_vertex', unique_name', g)
    <2>1. ASSUME NEW x \in S
          PROVE  \E d \in Registered' : \E w \in DOMAIN mesh'[d] :
                    unique_vertex'[d][w] # NoId /\ x = <<d, mesh'[d][w]>>
        <3>1. CASE x = p
            BY <1>1, <1>2, <1>3, <3>1
        <3>2. CASE x # p
            <4>1. PICK d \in Registered : \E w \in MeshVertices(d) :
                        unique_vertex[d][w] # NoId /\ x = <<d, mesh[d][w]>>
                BY <3>2 DEF IdentifiedNow, Identifies
            <4>2. PICK w \in MeshVertices(d) :
                        unique_vertex[d][w] # NoId /\ x = <<d, mesh[d][w]>>
                BY <4>1
            <4>3. unique_vertex'[d][w] = unique_vertex[d][w]
                BY <1>3, <3>2, <4>2
            <4>4. QED
                BY <1>1, <4>2, <4>3
        <3>3. QED
            BY <3>1, <3>2
    <2>2. ASSUME NEW d \in Registered', NEW w \in DOMAIN mesh'[d],
                 unique_vertex'[d][w] # NoId
          PROVE  /\ <<d, mesh'[d][w]>> \in S
                 /\ g[<<d, mesh'[d][w]>>] = unique_name'[unique_vertex'[d][w]]
        <3>1. CASE d = c /\ w = v
            BY <1>1, <1>3, <3>1
        <3>2. CASE ~ (d = c /\ w = v)
            <4>1. <<d, mesh[d][w]>> # p
                BY <1>1, <1>2, <3>2
            <4>2. unique_vertex'[d][w] = unique_vertex[d][w]
                BY <1>1, <1>3, <3>2
            <4>3. /\ <<d, mesh[d][w]>> \in DOMAIN Identified
                  /\ Identified[<<d, mesh[d][w]>>]
                         = unique_name[unique_vertex[d][w]]
                <5>1. d \in Registered /\ w \in MeshVertices(d)
                      /\ unique_vertex[d][w] # NoId
                    BY <1>1, <2>2, <4>2
                <5>2. QED
                    BY <5>1 DEF IdentifiedNow, Identifies
            <4>4. QED
                BY <1>1, <4>1, <4>2, <4>3
        <3>3. QED
            BY <3>1, <3>2
    <2>3. g = [x \in DOMAIN g |-> g[x]] /\ DOMAIN g = S
        OBVIOUS
    <2> HIDE DEF S, g
    <2>4. QED
        BY <2>1, <2>2, <2>3 DEF Identifies
<1>5. Identified' = g
    <2> HIDE DEF g
    <2>1. QED
        BY <1>4, OneIdentification DEF IdentifiedNow
<1>6. UNCHANGED <<Registered, [d \in Components |-> NamesOf(d)],
                  {unique_name[w] : w \in UniqueVertices}>>
    BY <1>1 DEF NamesOf
<1>7. QED
    BY <1>1, <1>5, <1>6 DEF Abstract!Identify

\* unset_unique_vertex(): the vertex is not identified any more.
LEMMA UnsetUniqueVertexImplements ==
    ASSUME RInv, IdentifiedNow, IdentifiedNow',
           NEW c \in Components, NEW v \in MeshVertices(c),
           UnsetUniqueVertex(c, v)
    PROVE  /\ c \in Registered
           /\ Abstract!Separate(c, mesh[c][v])
<1>1. /\ c \in Registered
      /\ unique_vertex' = [unique_vertex EXCEPT ![c][v] = NoId]
      /\ UniqueVertices' = UniqueVertices
      /\ Registered' = Registered
      /\ UNCHANGED <<mesh, unique_name>>
    BY DEF UnsetUniqueVertex
<1>2. /\ \A w, x \in MeshVertices(c) : mesh[c][w] = mesh[c][x] => w = x
      /\ DOMAIN unique_vertex[c] = MeshVertices(c)
    BY <1>1, VectorsOf
<1>3. /\ unique_vertex'[c][v] = NoId
      /\ \A w \in MeshVertices(c) \ {v} : unique_vertex'[c][w] = unique_vertex[c][w]
      /\ \A d \in Registered \ {c} : unique_vertex'[d] = unique_vertex[d]
    BY <1>1, <1>2
<1> DEFINE p == <<c, mesh[c][v]>>
           S == DOMAIN Identified \cap (DOMAIN Identified \ {p})
           g == [x \in S |-> Identified[x]]
<1>4. Identifies(mesh', unique_vertex', unique_name', g)
    <2>1. ASSUME NEW x \in S
          PROVE  \E d \in Registered' : \E w \in DOMAIN mesh'[d] :
                    unique_vertex'[d][w] # NoId /\ x = <<d, mesh'[d][w]>>
        <3>1. PICK d \in Registered : \E w \in MeshVertices(d) :
                    unique_vertex[d][w] # NoId /\ x = <<d, mesh[d][w]>>
            BY DEF IdentifiedNow, Identifies
        <3>2. PICK w \in MeshVertices(d) :
                    unique_vertex[d][w] # NoId /\ x = <<d, mesh[d][w]>>
            BY <3>1
        <3>3. unique_vertex'[d][w] = unique_vertex[d][w]
            BY <1>3, <3>2
        <3>4. QED
            BY <1>1, <3>2, <3>3
    <2>2. ASSUME NEW d \in Registered', NEW w \in DOMAIN mesh'[d],
                 unique_vertex'[d][w] # NoId
          PROVE  /\ <<d, mesh'[d][w]>> \in S
                 /\ g[<<d, mesh'[d][w]>>] = unique_name'[unique_vertex'[d][w]]
        <3>1. <<d, mesh[d][w]>> # p
            BY <1>1, <1>2, <1>3, <2>2
        <3>2. unique_vertex'[d][w] = unique_vertex[d][w]
            BY <1>1, <1>3, <2>2
        <3>3. /\ <<d, mesh[d][w]>> \in DOMAIN Identified
              /\ Identified[<<d, mesh[d][w]>>] = unique_name[unique_vertex[d][w]]
            <4>1. d \in Registered /\ w \in MeshVertices(d)
                  /\ unique_vertex[d][w] # NoId
                BY <1>1, <2>2, <3>2
            <4>2. QED
                BY <4>1 DEF IdentifiedNow, Identifies
        <3>4. QED
            BY <1>1, <3>1, <3>2, <3>3
    <2>3. g = [x \in DOMAIN g |-> g[x]] /\ DOMAIN g = S
        OBVIOUS
    <2> HIDE DEF S, g
    <2>4. QED
        BY <2>1, <2>2, <2>3 DEF Identifies
<1>5. Identified' = g
    <2> HIDE DEF g
    <2>1. QED
        BY <1>4, OneIdentification DEF IdentifiedNow
<1>6. UNCHANGED <<Registered, [d \in Components |-> NamesOf(d)],
                  {unique_name[w] : w \in UniqueVertices}>>
    BY <1>1 DEF NamesOf
<1>7. QED
    BY <1>1, <1>5, <1>6 DEF Abstract!Separate


\* Mesh vertices are deleted: those that remain stay identified as they were,
\* whatever their new indices.
LEMMA DeleteMeshVerticesImplements ==
    ASSUME RInv, IdentifiedNow, IdentifiedNow',
           NEW c \in Components, NEW D \in SUBSET MeshVertices(c),
           DeleteMeshVertices(c, D)
    PROVE  \E names \in SUBSET NamesOf(c) : Abstract!DeleteMeshVertices(c, names)
<1> DEFINE n == Size(mesh[c])
           kept == IndexRange(n) \ D
           indices == IndexRange(Cardinality(kept))
           old2new == MappingAfterDeletion(n, D)
           names == {mesh[c][v] : v \in D}
<1>1. /\ mesh' = [mesh EXCEPT ![c] = DeleteElements(@, D)]
      /\ Registered' = Registered
      /\ \A d \in Registered \ {c} : unique_vertex'[d] = unique_vertex[d]
      /\ c \in Registered =>
            unique_vertex'[c] = DeleteElements(unique_vertex[c], D)
      /\ UniqueVertices' = UniqueVertices
      /\ unique_name' = unique_name
    BY DEF DeleteMeshVertices
<1>2. /\ n \in Nat
      /\ DOMAIN mesh = Components
      /\ MeshVertices(c) = IndexRange(n)
      /\ mesh[c] \in Injection(IndexRange(n), MeshNames)
      /\ \A v, w \in MeshVertices(c) : mesh[c][v] = mesh[c][w] => v = w
      /\ c \in Registered => DOMAIN unique_vertex[c] = IndexRange(n)
    BY VectorsOf
<1>3. /\ mesh'[c] = DeleteElements(mesh[c], D)
      /\ \A d \in Components \ {c} : mesh'[d] = mesh[d]
      /\ Registered \subseteq Components
    BY <1>1, <1>2 DEF RInv, IInv, ListsMatchAttributes, TypeOK
<1>4. DOMAIN mesh'[c] = indices
    <2> HIDE DEF n
    <2>1. DOMAIN mesh[c] = IndexRange(n)
        BY <1>2
    <2>2. QED
        BY <1>2, <1>3, <2>1, DeletedVectorSize
<1>5. ASSUME NEW i \in kept
      PROVE  /\ old2new[i] \in indices
             /\ mesh'[c][old2new[i]] = mesh[c][i]
             /\ c \in Registered =>
                    unique_vertex'[c][old2new[i]] = unique_vertex[c][i]
    <2> HIDE DEF n
    <2>1. old2new[i] \in indices
        BY <1>2, MappingIsOneToOne
    <2>2. mesh'[c][old2new[i]] = mesh[c][i]
        BY <1>2, <1>3, DeletedVectorFollowsMapping
    <2>3. c \in Registered =>
            unique_vertex'[c][old2new[i]] = unique_vertex[c][i]
        BY <1>1, <1>2, DeletedVectorFollowsMapping
    <2>4. QED
        BY <2>1, <2>2, <2>3
<1>6. ASSUME NEW k \in indices
      PROVE  \E i \in kept : old2new[i] = k
    <2> HIDE DEF n
    <2>1. DOMAIN mesh[c] = IndexRange(n)
        BY <1>2
    <2>2. \E i \in kept : /\ old2new[i] = k
                          /\ DeleteElements(mesh[c], D)[k] = mesh[c][i]
        BY <1>2, <2>1, DeletedVectorComesFromKept
    <2>3. QED
        BY <2>2
<1>7. kept = MeshVertices(c) \ D
    BY <1>2
<1> HIDE DEF n, kept, indices, old2new
<1> DEFINE S == DOMAIN Identified \cap (DOMAIN Identified \ ({c} \X names))
           g == [x \in S |-> Identified[x]]
<1>8. Identifies(mesh', unique_vertex', unique_name', g)
    <2>1. ASSUME NEW x \in S
          PROVE  \E d \in Registered' : \E w \in DOMAIN mesh'[d] :
                    unique_vertex'[d][w] # NoId /\ x = <<d, mesh'[d][w]>>
        <3>1. PICK d \in Registered : \E w \in MeshVertices(d) :
                    unique_vertex[d][w] # NoId /\ x = <<d, mesh[d][w]>>
            BY DEF IdentifiedNow, Identifies
        <3>2. PICK w \in MeshVertices(d) :
                    unique_vertex[d][w] # NoId /\ x = <<d, mesh[d][w]>>
            BY <3>1
        <3>3. CASE d # c
            BY <1>1, <1>3, <3>2, <3>3
        <3>4. CASE d = c
            <4>1. w \in kept
                BY <1>7, <3>2, <3>4
            <4>2. /\ old2new[w] \in DOMAIN mesh'[c]
                  /\ mesh'[c][old2new[w]] = mesh[c][w]
                  /\ unique_vertex'[c][old2new[w]] = unique_vertex[c][w]
                BY <1>4, <1>5, <3>4, <4>1
            <4>3. QED
                BY <1>1, <3>2, <3>4, <4>2
        <3>5. QED
            BY <3>3, <3>4
    <2>2. ASSUME NEW d \in Registered', NEW k \in DOMAIN mesh'[d],
                 unique_vertex'[d][k] # NoId
          PROVE  /\ <<d, mesh'[d][k]>> \in S
                 /\ g[<<d, mesh'[d][k]>>] = unique_name'[unique_vertex'[d][k]]
        <3>1. ASSUME NEW w \in MeshVertices(d),
                     mesh'[d][k] = mesh[d][w],
                     unique_vertex'[d][k] = unique_vertex[d][w]
              PROVE  /\ <<d, mesh'[d][k]>> \in DOMAIN Identified
                     /\ Identified[<<d, mesh'[d][k]>>]
                            = unique_name'[unique_vertex'[d][k]]
            <4>1. d \in Registered /\ unique_vertex[d][w] # NoId
                BY <1>1, <2>2, <3>1
            <4>2. /\ <<d, mesh[d][w]>> \in DOMAIN Identified
                  /\ Identified[<<d, mesh[d][w]>>]
                         = unique_name[unique_vertex[d][w]]
                BY <4>1 DEF IdentifiedNow, Identifies
            <4>3. QED
                BY <1>1, <3>1, <4>2
        <3>2. CASE d # c
            <4>1. /\ k \in MeshVertices(d)
                  /\ mesh'[d][k] = mesh[d][k]
                  /\ unique_vertex'[d][k] = unique_vertex[d][k]
                BY <1>1, <1>3, <3>2
            <4>2. <<d, mesh'[d][k]>> \notin {c} \X names
                BY <3>2
            <4>3. QED
                BY <3>1, <4>1, <4>2
        <3>3. CASE d = c
            <4>1. PICK i \in kept : old2new[i] = k
                BY <1>4, <1>6, <3>3
            <4>2. /\ i \in MeshVertices(d)
                  /\ mesh'[d][k] = mesh[d][i]
                  /\ unique_vertex'[d][k] = unique_vertex[d][i]
                BY <1>1, <1>5, <1>7, <3>3, <4>1
            <4>3. <<d, mesh'[d][k]>> \notin {c} \X names
                BY <1>2, <1>7, <3>3, <4>1, <4>2
            <4>4. QED
                BY <3>1, <4>2, <4>3
        <3>4. QED
            BY <3>2, <3>3
    <2>3. g = [x \in DOMAIN g |-> g[x]] /\ DOMAIN g = S
        OBVIOUS
    <2> HIDE DEF S, g
    <2>4. QED
        BY <2>1, <2>2, <2>3 DEF Identifies
<1>9. Identified' = g
    <2> HIDE DEF g
    <2>1. QED
        BY <1>8, OneIdentification DEF IdentifiedNow
<1>10. names \in SUBSET NamesOf(c)
    BY DEF NamesOf
<1>11. /\ NamesOf(c)' = NamesOf(c) \ names
       /\ \A d \in Components \ {c} : NamesOf(d)' = NamesOf(d)
    <2>1. NamesOf(c)' = {mesh[c][i] : i \in MeshVertices(c) \ D}
        <3>1. \A k \in indices : \E i \in kept : mesh'[c][k] = mesh[c][i]
            BY <1>5, <1>6
        <3>2. \A i \in kept : \E k \in indices : mesh'[c][k] = mesh[c][i]
            BY <1>5
        <3>3. QED
            BY <1>4, <1>7, <3>1, <3>2 DEF NamesOf
    <2>2. {mesh[c][i] : i \in MeshVertices(c) \ D} = NamesOf(c) \ names
        BY <1>2 DEF NamesOf
    <2>3. QED
        BY <1>3, <2>1, <2>2 DEF NamesOf
<1> HIDE DEF names
<1>12. [d \in Components |-> NamesOf(d)]'
           = [[d \in Components |-> NamesOf(d)] EXCEPT ![c] = @ \ names]
    BY <1>11
<1>13. UNCHANGED <<Registered, {unique_name[u] : u \in UniqueVertices}>>
    BY <1>1
<1>14. Abstract!DeleteMeshVertices(c, names)
    BY <1>9, <1>12, <1>13 DEF Abstract!DeleteMeshVertices
<1>15. QED
    BY <1>10, <1>14

\* Mesh vertices are permuted: by name nothing happens.
LEMMA PermuteMeshVerticesImplements ==
    ASSUME RInv, IdentifiedNow, IdentifiedNow',
           NEW c \in Components,
           NEW permutation \in PermutationsOf(MeshVertices(c)),
           PermuteMeshVertices(c, permutation)
    PROVE  UNCHANGED Abstract!identificationVars
<1> DEFINE A == MeshVertices(c)
           old2new == Old2NewPermutation(permutation)
<1>1. /\ mesh' = [mesh EXCEPT ![c] = PermuteElements(@, permutation)]
      /\ Registered' = Registered
      /\ \A d \in Registered \ {c} : unique_vertex'[d] = unique_vertex[d]
      /\ c \in Registered =>
            unique_vertex'[c] = PermuteElements(unique_vertex[c], permutation)
      /\ UniqueVertices' = UniqueVertices
      /\ unique_name' = unique_name
    BY DEF PermuteMeshVertices
<1>2. /\ DOMAIN mesh = Components
      /\ IsFiniteSet(A)
      /\ mesh[c] \in Injection(A, MeshNames)
      /\ c \in Registered => DOMAIN unique_vertex[c] = A
    BY VectorsOf, SizeOfVector
<1>3. permutation \in Bijection(A, A)
    BY <1>2, PermutationIsBijection DEF PermutationsOf
<1>4. ASSUME NEW i \in A
      PROVE  permutation[i] \in A /\ \E k \in A : permutation[k] = i
    BY <1>3 DEF Bijection, Injection, Surjection
<1>5. /\ mesh'[c] = PermuteElements(mesh[c], permutation)
      /\ DOMAIN mesh'[c] = A
      /\ \A k \in A : mesh'[c][k] = mesh[c][permutation[k]]
      /\ \A d \in Components \ {c} : mesh'[d] = mesh[d]
      /\ c \in Registered =>
            \A k \in A : unique_vertex'[c][k] = unique_vertex[c][permutation[k]]
      /\ Registered \subseteq Components
    BY <1>1, <1>2
    DEF PermuteElements, RInv, IInv, ListsMatchAttributes, TypeOK
<1>6. Identifies(mesh', unique_vertex', unique_name', Identified)
    <2>1. ASSUME NEW x \in DOMAIN Identified
          PROVE  \E d \in Registered' : \E v \in DOMAIN mesh'[d] :
                    unique_vertex'[d][v] # NoId /\ x = <<d, mesh'[d][v]>>
        <3>1. PICK d \in Registered : \E v \in MeshVertices(d) :
                    unique_vertex[d][v] # NoId /\ x = <<d, mesh[d][v]>>
            BY DEF IdentifiedNow, Identifies
        <3>2. PICK v \in MeshVertices(d) :
                    unique_vertex[d][v] # NoId /\ x = <<d, mesh[d][v]>>
            BY <3>1
        <3>3. CASE d = c
            <4>1. PICK k \in A : permutation[k] = v
                BY <1>4, <3>2, <3>3
            <4>2. QED
                BY <1>1, <1>5, <3>2, <3>3, <4>1
        <3>4. CASE d # c
            BY <1>1, <1>5, <3>2, <3>4
        <3>5. QED
            BY <3>3, <3>4
    <2>2. ASSUME NEW d \in Registered', NEW k \in DOMAIN mesh'[d],
                 unique_vertex'[d][k] # NoId
          PROVE  /\ <<d, mesh'[d][k]>> \in DOMAIN Identified
                 /\ Identified[<<d, mesh'[d][k]>>]
                        = unique_name'[unique_vertex'[d][k]]
        <3>1. \E v \in MeshVertices(d) : /\ mesh'[d][k] = mesh[d][v]
                                         /\ unique_vertex'[d][k] = unique_vertex[d][v]
            <4>1. CASE d = c
                BY <1>1, <1>4, <1>5, <4>1
            <4>2. CASE d # c
                BY <1>1, <1>5, <4>2
            <4>3. QED
                BY <4>1, <4>2
        <3>2. PICK v \in MeshVertices(d) :
                    /\ mesh'[d][k] = mesh[d][v]
                    /\ unique_vertex'[d][k] = unique_vertex[d][v]
            BY <3>1
        <3>3. d \in Registered /\ unique_vertex[d][v] # NoId
            BY <1>1, <2>2, <3>2
        <3>4. /\ <<d, mesh[d][v]>> \in DOMAIN Identified
              /\ Identified[<<d, mesh[d][v]>>] = unique_name[unique_vertex[d][v]]
            BY <3>3 DEF IdentifiedNow, Identifies
        <3>5. QED
            BY <1>1, <3>2, <3>4
    <2>3. Identified = [x \in DOMAIN Identified |-> Identified[x]]
        BY DEF IdentifiedNow, Identifies
    <2>4. QED
        BY <2>1, <2>2, <2>3 DEF Identifies
<1>7. Identified' = Identified
    BY <1>6, OneIdentification DEF IdentifiedNow
<1>8. \A d \in Components : NamesOf(d)' = NamesOf(d)
    <2>1. NamesOf(c)' = NamesOf(c)
        <3>1. \A k \in A : \E i \in A : mesh'[c][k] = mesh[c][i]
            BY <1>4, <1>5
        <3>2. \A i \in A : \E k \in A : mesh'[c][k] = mesh[c][i]
            BY <1>4, <1>5
        <3>3. QED
            BY <1>5, <3>1, <3>2 DEF NamesOf
    <2>2. \A d \in Components \ {c} : NamesOf(d)' = NamesOf(d)
        BY <1>5 DEF NamesOf
    <2>3. QED
        BY <2>1, <2>2
<1>9. [d \in Components |-> NamesOf(d)]' = [d \in Components |-> NamesOf(d)]
    BY <1>8
<1>10. QED
    BY <1>1, <1>7, <1>9


\* update_unique_vertices() brings the lists up to date: by name nothing
\* happens.
LEMMA UpdateUniqueVerticesImplements ==
    ASSUME NEW c \in Components, UpdateUniqueVertices(c)
    PROVE  UNCHANGED Abstract!identificationVars
<1>1. UNCHANGED <<mesh, unique_vertex, unique_name>>
      /\ UniqueVertices' = UniqueVertices
    BY DEF UpdateUniqueVertices
<1>2. Registered' = Registered /\ (\A d : MeshVertices(d)' = MeshVertices(d))
    BY <1>1 DEF Registered, MeshVertices
<1>3. \A d : NamesOf(d)' = NamesOf(d)
    BY <1>1, <1>2 DEF NamesOf
<1>4. [d \in Components |-> NamesOf(d)]' = [d \in Components |-> NamesOf(d)]
    BY <1>3
<1>5. {unique_name[u] : u \in UniqueVertices}'
      = {unique_name[u] : u \in UniqueVertices}
    BY <1>1
<1>6. IdentifiedNames' = IdentifiedNames
    BY <1>1, <1>2 DEF IdentifiedNames
<1>7. \A d, name : VertexNamed(d, name)' = VertexNamed(d, name)
    BY <1>1, <1>2 DEF VertexNamed
<1>8. Identified' = Identified
    BY <1>1, <1>6, <1>7 DEF Identified
<1>9. QED
    BY <1>2, <1>4, <1>5, <1>8

\* create_unique_vertex(): nothing is identified with it yet, and the others
\* keep their indices.
LEMMA CreateUniqueVertexImplements ==
    ASSUME RInv, IdentifiedNow, IdentifiedNow', CreateUniqueVertex
    PROVE  \E name \in UniqueNames : Abstract!AddUnique(name)
<1> DEFINE n == Size(component_vertices)
<1>1. PICK name \in UniqueNames :
            /\ name \notin {unique_name[u] : u \in UniqueVertices}
            /\ unique_name' = AppendElement(unique_name, name)
    BY DEF CreateUniqueVertex, FreeUniqueNames
<1>2. /\ n \in Nat
      /\ UniqueVertices = IndexRange(n)
      /\ DOMAIN unique_name = IndexRange(n)
    BY DEF RInv, IInv, ListsMatchAttributes, TypeOK, SizesAreNumbers
<1>3. /\ component_vertices' = AppendElement(component_vertices, {})
      /\ UNCHANGED <<mesh, unique_vertex, unnotified>>
    BY DEF CreateUniqueVertex
<1> HIDE DEF n
<1>4. /\ UniqueVertices' = UniqueVertices \cup {n}
      /\ n \notin UniqueVertices
      /\ unique_name'[n] = name
      /\ \A u \in UniqueVertices : unique_name'[u] = unique_name[u]
    <2>1. DOMAIN component_vertices = IndexRange(n)
        BY <1>2
    <2>2. /\ DOMAIN AppendElement(component_vertices, {})
             = UniqueVertices \cup {n}
          /\ n \notin UniqueVertices
        BY <1>2, <2>1, AppendedVector
    <2>3. /\ AppendElement(unique_name, name)[n] = name
          /\ \A u \in UniqueVertices :
                AppendElement(unique_name, name)[u] = unique_name[u]
        BY <1>2, AppendedVector
    <2>4. QED
        BY <1>1, <1>3, <2>2, <2>3
<1>5. \A c \in Registered : \A v \in MeshVertices(c) :
            unique_vertex[c][v] \in UniqueVertices \cup {NoId}
    BY VectorsOf DEF RInv, IInv, ListsMatchAttributes, TypeOK
<1>6. Identifies(mesh', unique_vertex', unique_name', Identified)
    <2>1. ASSUME NEW x \in DOMAIN Identified
          PROVE  \E c \in Registered' : \E v \in DOMAIN mesh'[c] :
                    unique_vertex'[c][v] # NoId /\ x = <<c, mesh'[c][v]>>
        BY <1>3 DEF IdentifiedNow, Identifies
    <2>2. ASSUME NEW c \in Registered', NEW v \in DOMAIN mesh'[c],
                 unique_vertex'[c][v] # NoId
          PROVE  /\ <<c, mesh'[c][v]>> \in DOMAIN Identified
                 /\ Identified[<<c, mesh'[c][v]>>]
                        = unique_name'[unique_vertex'[c][v]]
        <3>1. /\ c \in Registered
              /\ v \in MeshVertices(c)
              /\ unique_vertex[c][v] # NoId
            BY <1>3, <2>2
        <3>2. unique_name'[unique_vertex[c][v]] = unique_name[unique_vertex[c][v]]
            BY <1>4, <1>5, <3>1
        <3>3. QED
            BY <1>3, <3>1, <3>2 DEF IdentifiedNow, Identifies
    <2>3. Identified = [x \in DOMAIN Identified |-> Identified[x]]
        BY DEF IdentifiedNow, Identifies
    <2>4. QED
        BY <2>1, <2>2, <2>3 DEF Identifies
<1>7. Identified' = Identified
    BY <1>6, OneIdentification DEF IdentifiedNow
<1>8. {unique_name[u] : u \in UniqueVertices}'
          = {unique_name[u] : u \in UniqueVertices} \cup {name}
    <2>1. {unique_name[u] : u \in UniqueVertices}'
              = {unique_name'[u] : u \in UniqueVertices'}
        OBVIOUS
    <2>2. QED
        BY <1>4, <2>1
<1>9. UNCHANGED <<Registered, [c \in Components |-> NamesOf(c)]>>
    BY <1>3 DEF NamesOf
<1>10. Abstract!AddUnique(name)
    BY <1>1, <1>7, <1>8, <1>9 DEF Abstract!AddUnique
<1>11. QED
    BY <1>10

\* delete_isolated_vertices(): the unique vertices that remain are those that
\* some mesh vertex is identified with, and each keeps its mesh vertices.
LEMMA DeleteIsolatedVerticesImplements ==
    ASSUME RInv, IdentifiedNow, IdentifiedNow', DeleteIsolatedVertices
    PROVE  Abstract!DropIsolated
<1> USE DEF RInv, IInv, ListsMatchAttributes
<1> DEFINE n == Size(component_vertices)
           D == {u \in UniqueVertices : component_vertices[u] = {}}
           old2new == MappingAfterDeletion(n, D)
           kept == IndexRange(n) \ D
           indices == IndexRange(Cardinality(kept))
           Listed(c, v) ==
               \E u \in UniqueVertices : <<c, v>> \in component_vertices[u]
<1>1. /\ \A c \in Registered : UpToDate(c)
      /\ component_vertices' = DeleteElements(component_vertices, D)
      /\ unique_name' = DeleteElements(unique_name, D)
      /\ unique_vertex' = [c \in Registered |-> [v \in MeshVertices(c) |->
                IF Listed(c, v) /\ unique_vertex[c][v] # NoId
                THEN old2new[unique_vertex[c][v]]
                ELSE unique_vertex[c][v]]]
      /\ UNCHANGED <<mesh, unnotified>>
    BY DEF DeleteIsolatedVertices
<1>2. /\ n \in Nat
      /\ UniqueVertices = IndexRange(n)
      /\ DOMAIN unique_name = IndexRange(n)
    BY DEF TypeOK, SizesAreNumbers
<1>3. UniqueVertices' = indices
    <2> HIDE DEF n, D
    <2>1. QED
        BY <1>1, <1>2, DeletedVectorSize
<1>4. ASSUME NEW u \in kept
      PROVE  /\ old2new[u] \in indices
             /\ old2new[u] # NoId
             /\ unique_name'[old2new[u]] = unique_name[u]
    <2>1. old2new[u] \in indices /\ unique_name'[old2new[u]] = unique_name[u]
        <3> HIDE DEF n, D
        <3>1. old2new[u] \in indices
            BY <1>2, MappingIsOneToOne
        <3>2. DeleteElements(unique_name, D)[old2new[u]] = unique_name[u]
            BY <1>2, DeletedVectorFollowsMapping
        <3>3. QED
            BY <1>1, <3>1, <3>2
    <2>2. NoId \notin indices
        BY DEF IndexRange, NoId
    <2>3. QED
        BY <2>1, <2>2
<1>5. ASSUME NEW k \in indices
      PROVE  \E u \in kept : old2new[u] = k
    <2> HIDE DEF n, D
    <2>1. \E u \in kept : /\ old2new[u] = k
                          /\ DeleteElements(unique_name, D)[k] = unique_name[u]
        BY <1>2, DeletedVectorComesFromKept
    <2>2. QED
        BY <2>1
<1>6. kept = {u \in UniqueVertices : component_vertices[u] # {}}
    BY <1>2
\* The attributes follow the renumbering.
<1>7. ASSUME NEW c \in Registered, NEW v \in MeshVertices(c)
      PROVE  IF unique_vertex[c][v] = NoId
             THEN unique_vertex'[c][v] = NoId
             ELSE /\ unique_vertex[c][v] \in kept
                  /\ unique_vertex'[c][v] = old2new[unique_vertex[c][v]]
    <2> HIDE DEF old2new, kept
    <2>1. CASE unique_vertex[c][v] = NoId
        BY <1>1, <2>1
    <2>2. CASE unique_vertex[c][v] # NoId
        <3>1. /\ unique_vertex[c][v] \in UniqueVertices
              /\ <<c, v>> \in component_vertices[unique_vertex[c][v]]
            BY <1>1, <2>2, IdentifiedUpToDate
        <3>2. unique_vertex[c][v] \in kept
            BY <1>6, <3>1
        <3>3. Listed(c, v)
            BY <3>1
        <3> HIDE DEF Listed
        <3>4. QED
            BY <1>1, <2>2, <3>2, <3>3
    <2>3. QED
        BY <2>1, <2>2
<1>8. Registered' = Registered /\ mesh' = mesh
    BY <1>1
<1> HIDE DEF n, D, old2new, kept, indices, Listed
<1>9. Identifies(mesh', unique_vertex', unique_name', Identified)
    <2>1. ASSUME NEW x \in DOMAIN Identified
          PROVE  \E c \in Registered' : \E v \in DOMAIN mesh'[c] :
                    unique_vertex'[c][v] # NoId /\ x = <<c, mesh'[c][v]>>
        <3>1. PICK c \in Registered : \E v \in MeshVertices(c) :
                    unique_vertex[c][v] # NoId /\ x = <<c, mesh[c][v]>>
            BY DEF IdentifiedNow, Identifies
        <3>2. PICK v \in MeshVertices(c) :
                    unique_vertex[c][v] # NoId /\ x = <<c, mesh[c][v]>>
            BY <3>1
        <3>3. unique_vertex'[c][v] # NoId
            BY <1>4, <1>7, <3>2
        <3>4. QED
            BY <1>8, <3>2, <3>3
    <2>2. ASSUME NEW c \in Registered', NEW v \in DOMAIN mesh'[c],
                 unique_vertex'[c][v] # NoId
          PROVE  /\ <<c, mesh'[c][v]>> \in DOMAIN Identified
                 /\ Identified[<<c, mesh'[c][v]>>]
                        = unique_name'[unique_vertex'[c][v]]
        <3>1. c \in Registered /\ v \in MeshVertices(c)
            BY <1>8
        <3>2. /\ unique_vertex[c][v] # NoId
              /\ unique_name'[unique_vertex'[c][v]]
                     = unique_name[unique_vertex[c][v]]
            BY <1>4, <1>7, <2>2, <3>1
        <3>3. /\ <<c, mesh[c][v]>> \in DOMAIN Identified
              /\ Identified[<<c, mesh[c][v]>>] = unique_name[unique_vertex[c][v]]
            BY <3>1, <3>2 DEF IdentifiedNow, Identifies
        <3>4. QED
            BY <1>8, <3>2, <3>3
    <2>3. Identified = [x \in DOMAIN Identified |-> Identified[x]]
        BY DEF IdentifiedNow, Identifies
    <2>4. QED
        BY <2>1, <2>2, <2>3 DEF Identifies
<1>10. Identified' = Identified
    BY <1>9, OneIdentification DEF IdentifiedNow
\* A kept unique vertex is the one of the vertices in its list.
<1>11. ASSUME NEW u \in kept
       PROVE  \E x \in DOMAIN Identified : Identified[x] = unique_name[u]
    <2>1. u \in UniqueVertices /\ u # NoId /\ component_vertices[u] # {}
        BY <1>2, <1>6 DEF IndexRange, NoId
    <2>2. PICK cmv \in component_vertices[u] : TRUE
        BY <2>1
    <2>3. /\ cmv[1] \in Registered
          /\ cmv[2] \in MeshVertices(cmv[1])
          /\ unique_vertex[cmv[1]][cmv[2]] = u
        <3>1. cmv[1] \in Registered
            BY <2>1, ListedPair
        <3>2. UpToDate(cmv[1])
            BY <1>1, <3>1
        <3>3. QED
            BY <2>1, <3>1, <3>2, ListedUpToDate
    <2>4. QED
        BY <2>1, <2>3 DEF IdentifiedNow, Identifies
<1>12. ASSUME NEW x \in DOMAIN Identified
       PROVE  \E u \in kept : Identified[x] = unique_name[u]
    <2>1. PICK c \in Registered : \E v \in MeshVertices(c) :
                unique_vertex[c][v] # NoId /\ x = <<c, mesh[c][v]>>
        BY DEF IdentifiedNow, Identifies
    <2>2. PICK v \in MeshVertices(c) :
                unique_vertex[c][v] # NoId /\ x = <<c, mesh[c][v]>>
        BY <2>1
    <2>3. unique_vertex[c][v] \in kept
        BY <1>7, <2>2
    <2>4. Identified[x] = unique_name[unique_vertex[c][v]]
        BY <2>2 DEF IdentifiedNow, Identifies
    <2>5. QED
        BY <2>3, <2>4
<1>13. {unique_name[u] : u \in UniqueVertices}'
           = {Identified[x] : x \in DOMAIN Identified}
    <2>1. {unique_name[u] : u \in UniqueVertices}'
              = {unique_name'[k] : k \in indices}
        BY <1>3
    <2>2. \A k \in indices : \E u \in kept : unique_name'[k] = unique_name[u]
        BY <1>4, <1>5
    <2>3. \A k \in indices :
                \E x \in DOMAIN Identified : unique_name'[k] = Identified[x]
        BY <1>11, <2>2
    <2>4. \A x \in DOMAIN Identified :
                \E k \in indices : unique_name'[k] = Identified[x]
        BY <1>4, <1>12
    <2>5. QED
        BY <2>1, <2>3, <2>4
<1>14. UNCHANGED <<Registered, [c \in Components |-> NamesOf(c)]>>
    BY <1>8 DEF NamesOf
<1>15. QED
    BY <1>10, <1>13, <1>14 DEF Abstract!DropIsolated

-----------------------------------------------------------------------------
\* Every step of the identifier is one of Identification or changes nothing
\* of it.
LEMMA StepImplementsStep ==
    ASSUME RInv, IdentifiedNow, IdentifiedNow', [Next]_vars
    PROVE  [Abstract!Next]_(Abstract!identificationVars)
<1>1. ASSUME NEW c \in Components, RegisterComponent(c)
      PROVE  Abstract!Next
    BY <1>1, RegisterImplements DEF Abstract!Next
<1>2. ASSUME NEW c \in Components, UnregisterComponent(c)
      PROVE  Abstract!Next
    BY <1>2, UnregisterImplements DEF Abstract!Next
<1>3. ASSUME NEW c \in Components, CreateMeshVertex(c)
      PROVE  Abstract!Next
    <2>1. \E name \in MeshNames \ NamesOf(c) : Abstract!AddMeshVertex(c, name)
        BY <1>3, CreateMeshVertexImplements
    <2>2. QED
        BY <2>1 DEF Abstract!Next
<1>4. ASSUME NEW c \in Components, NEW v \in MeshVertices(c),
             NEW u \in UniqueVertices, SetUniqueVertex(c, v, u)
      PROVE  Abstract!Next
    <2>1. /\ c \in Registered
          /\ Abstract!Identify(c, mesh[c][v], unique_name[u])
        BY <1>4, SetUniqueVertexImplements
    <2>2. mesh[c][v] \in NamesOf(c)
          /\ unique_name[u] \in {unique_name[w] : w \in UniqueVertices}
        BY DEF NamesOf
    <2>3. QED
        BY <2>1, <2>2 DEF Abstract!Next
<1>5. ASSUME NEW c \in Components, NEW v \in MeshVertices(c),
             UnsetUniqueVertex(c, v)
      PROVE  Abstract!Next
    <2>1. c \in Registered /\ Abstract!Separate(c, mesh[c][v])
        BY <1>5, UnsetUniqueVertexImplements
    <2>2. mesh[c][v] \in NamesOf(c)
        BY DEF NamesOf
    <2>3. QED
        BY <2>1, <2>2 DEF Abstract!Next
<1>6. ASSUME NEW c \in Components, NEW D \in SUBSET MeshVertices(c),
             DeleteMeshVertices(c, D)
      PROVE  Abstract!Next
    <2>1. \E names \in SUBSET NamesOf(c) : Abstract!DeleteMeshVertices(c, names)
        BY <1>6, DeleteMeshVerticesImplements
    <2>2. QED
        BY <2>1 DEF Abstract!Next
<1>7. ASSUME NEW c \in Components,
             \/ UpdateUniqueVertices(c)
             \/ \E permutation \in PermutationsOf(MeshVertices(c)) :
                    PermuteMeshVertices(c, permutation)
      PROVE  UNCHANGED Abstract!identificationVars
    BY <1>7, UpdateUniqueVerticesImplements, PermuteMeshVerticesImplements
<1>8. CASE CreateUniqueVertex
    BY <1>8, CreateUniqueVertexImplements DEF Abstract!Next
<1>9. CASE DeleteIsolatedVertices
    BY <1>9, DeleteIsolatedVerticesImplements DEF Abstract!Next
<1>10. CASE UNCHANGED vars
    BY <1>10 DEF vars, NamesOf, Identified, IdentifiedNames, VertexNamed
<1>11. QED
    BY <1>1, <1>2, <1>3, <1>4, <1>5, <1>6, <1>7, <1>8, <1>9, <1>10 DEF Next

\* For somebody who follows the vertices by name: a mesh vertex stays with the
\* unique vertex it was given until it is given another, taken away or deleted,
\* for any number of components, mesh vertices and unique vertices.
THEOREM IdentificationIsImplemented == Spec => ImplementsIdentification
<1>1. Init => RInv
    BY InitIsConsistent, InitNames DEF RInv
<1>2. RInv /\ [Next]_vars => RInv'
    BY StepKeepsInvariant, StepKeepsNames DEF RInv
<1>3. RInv /\ IdentifiedNow /\ IdentifiedNow' /\ [Next]_vars
          => [Abstract!Next]_(Abstract!identificationVars)
    BY StepImplementsStep
<1>4. QED
    BY <1>1, <1>2, <1>3, IdentifiedByIndex, InitImplementsInit, PTL
    DEF Spec, ImplementsIdentification, Abstract!Spec

-----------------------------------------------------------------------------
(* Points that are colocated: ColocatedMapping. *)

Holding == {"recheck", "take", "unlock"}

\* The neighbors that a task carries are those of its point, and in the loop
\* the ones it looked at have a representative.
NeighborsOfPoint ==
    \A p \in Points :
        /\ pc[p] \in {"lock", "recheck"} => neighbors[p] = Near(p)
        /\ pc[p] = "take" =>
            /\ neighbors[p] \subseteq Near(p)
            /\ \A q \in Near(p) \ neighbors[p] : mapping[q] # NoId

\* A task that takes is about a point that nobody else represents, and that
\* is near no representative.
TakesForItself ==
    \A p \in Points : pc[p] = "take" =>
        /\ mapping[p] \in {NoId, p}
        /\ \A q \in Unique(mapping) : q # p => <<q, p>> \notin near

\* Points are near their representative, which represents itself unless it
\* is in its loop.
RepresentedNear ==
    \A p, q \in Points : mapping[q] = p =>
        /\ <<p, q>> \in near
        /\ mapping[p] = p \/ pc[p] = "take"

\* Everything near a representative that is not in its loop is represented.
Settled ==
    \A p, q \in Points : mapping[p] = p /\ <<p, q>> \in near =>
        mapping[q] # NoId \/ pc[p] = "take"

Apart ==
    \A p, q \in Points :
        mapping[p] = p /\ mapping[q] = q /\ p # q => <<p, q>> \notin near

\* A task that is done leaves a point that has a representative, or that is
\* not near itself.
DoneIsRepresented ==
    \A p \in Points : pc[p] \in {"unlock", "done"} =>
        mapping[p] # NoId \/ <<p, p>> \notin near

\* The strengthening of RepresentativesStandApart that is inductive.
Inv ==
    /\ MappingTypeOK
    /\ near \in Colocated!Proximities
    /\ \A p \in Points : pc[p] \in Holding <=> mutex = p
    /\ NeighborsOfPoint
    /\ TakesForItself
    /\ RepresentedNear
    /\ Settled
    /\ Apart
    /\ DoneIsRepresented

-----------------------------------------------------------------------------
\* NO_ID is no point.
LEMMA NoIdIsNoPoint == NoId \notin Points
BY NbPointsAssumption DEF NoId, Points

\* The call starts in the invariant.
LEMMA InitInv == MappingInit => Inv
<1> SUFFICES ASSUME MappingInit PROVE Inv
    OBVIOUS
<1> USE NoIdIsNoPoint
<1>1. MappingTypeOK
    BY DEF MappingInit, MappingTypeOK, Colocated!Proximities, NoResult
<1>2. /\ \A p \in Points : pc[p] = "test" /\ mapping[p] = NoId
      /\ mutex = NoId
    BY DEF MappingInit
<1>3. QED
    BY <1>1, <1>2 DEF MappingInit, Inv, Holding, NeighborsOfPoint, TakesForItself,
                      RepresentedNear, Settled, Apart, DoneIsRepresented,
                      Unique

\* Only one task holds the mutex.
LEMMA OneHolds ==
    ASSUME Inv, NEW p \in Points, NEW q \in Points,
           pc[p] \in Holding, pc[q] \in Holding
    PROVE  p = q
BY DEF Inv

\* The proximity is the same both ways.
LEMMA NearBothWays ==
    ASSUME Inv, NEW p \in Points, NEW q \in Points, <<p, q>> \in near
    PROVE  <<q, p>> \in near /\ <<p, p>> \in near
BY DEF Inv, Colocated!Proximities

\* A turn of the loop keeps the invariant.
LEMMA TakeInv ==
    ASSUME Inv, NEW p \in Points, Take(p)
    PROVE  Inv'
<1> USE NoIdIsNoPoint
<1>0. MappingTypeOK
    BY DEF Inv
<1>1. /\ pc[p] = "take"
      /\ pc[p] \in Holding
      /\ UNCHANGED <<near, mutex, pc, result>>
    BY DEF Take, Holding
<1>2. PICK q \in neighbors[p] :
        /\ mapping' = [mapping EXCEPT ![q] = IF @ = NoId THEN p ELSE @]
        /\ neighbors' = [neighbors EXCEPT ![p] = @ \ {q}]
    BY DEF Take
<1>3. q \in Points /\ <<p, q>> \in near
    BY <1>0, <1>1 DEF Inv, NeighborsOfPoint, MappingTypeOK, Near
<1>4. \A r \in Points : mapping'[r] = IF r = q /\ mapping[q] = NoId
                                      THEN p ELSE mapping[r]
    BY <1>0, <1>2, <1>3 DEF MappingTypeOK
<1>5. \A r \in Points : r # p => pc[r] # "take"
    BY <1>1, OneHolds DEF Holding
<1>6. MappingTypeOK'
    BY <1>0, <1>1, <1>2, <1>3 DEF MappingTypeOK
<1>7. NeighborsOfPoint'
    <2>1. \A r \in Points : Near(r)' = Near(r)
        BY <1>1 DEF Near
    <2>2. neighbors'[p] = neighbors[p] \ {q}
        BY <1>0, <1>2 DEF MappingTypeOK
    <2>3. \A r \in Points : r # p => neighbors'[r] = neighbors[r]
        BY <1>0, <1>2 DEF MappingTypeOK
    <2>4. \A r \in Near(p) \ neighbors'[p] : mapping'[r] # NoId
        BY <1>1, <1>4, <2>2 DEF Inv, NeighborsOfPoint, Near
    <2>5. QED
        BY <1>1, <1>5, <2>1, <2>2, <2>3, <2>4 DEF Inv, NeighborsOfPoint
<1>8. \A r \in Points : mapping'[r] = r =>
        mapping[r] = r \/ (r = p /\ \A s \in Unique(mapping) :
                                s # p => <<s, p>> \notin near)
    BY <1>1, <1>4 DEF Inv, TakesForItself
<1>9. TakesForItself'
    <2> SUFFICES ASSUME NEW r \in Points, pc[r]' = "take"
                 PROVE  /\ mapping'[r] \in {NoId, r}
                        /\ \A s \in Unique(mapping)' :
                              s # r => <<s, r>> \notin near
        BY <1>1 DEF TakesForItself
    <2>1. r = p
        BY <1>1, <1>5
    <2>2. mapping'[p] \in {NoId, p}
        BY <1>1, <1>4 DEF Inv, TakesForItself
    <2>3. \A s \in Unique(mapping)' : s # p => s \in Unique(mapping)
        BY <1>8 DEF Unique
    <2>4. QED
        BY <1>1, <2>1, <2>2, <2>3 DEF Inv, TakesForItself
<1>10. RepresentedNear'
    BY <1>1, <1>3, <1>4 DEF Inv, RepresentedNear
<1>11. Settled'
    BY <1>1, <1>4, <1>8 DEF Inv, Settled
<1>12. Apart'
    <2> SUFFICES ASSUME NEW r \in Points, NEW s \in Points,
                        mapping'[r] = r, mapping'[s] = s, r # s
                 PROVE  <<r, s>> \notin near
        BY <1>1 DEF Apart
    <2>1. CASE mapping[r] = r /\ mapping[s] = s
        BY <2>1 DEF Inv, Apart
    <2>2. CASE mapping[r] # r
        <3>1. r = p /\ s \in Unique(mapping)
            BY <1>8, <2>2 DEF Unique
        <3>2. <<s, p>> \notin near
            BY <1>8, <2>2, <3>1
        <3>3. QED
            BY <3>1, <3>2, NearBothWays
    <2>3. CASE mapping[s] # s
        <3>1. s = p /\ r \in Unique(mapping)
            BY <1>8, <2>3 DEF Unique
        <3>2. QED
            BY <1>8, <2>3, <3>1
    <2>4. QED
        BY <2>1, <2>2, <2>3
<1>13. DoneIsRepresented'
    BY <1>1, <1>4 DEF Inv, DoneIsRepresented
<1>14. /\ (near \in Colocated!Proximities)'
       /\ (\A r \in Points : pc[r] \in Holding <=> mutex = r)'
    BY <1>1 DEF Inv, Colocated!Proximities
<1>15. QED
    BY <1>6, <1>7, <1>9, <1>10, <1>11, <1>12, <1>13, <1>14 DEF Inv

\* The steps that leave the mapping alone move one task.
LEMMA MoveInv ==
    ASSUME Inv, NEW p \in Points,
           Skip(p) \/ Search(p) \/ Lock(p) \/ Recheck(p) \/ Taken(p)
               \/ Unlock(p)
    PROVE  Inv'
<1> USE NoIdIsNoPoint
<1>0. MappingTypeOK /\ UNCHANGED <<near, mapping, result>>
    BY DEF Inv, Skip, Search, Lock, Recheck, Taken, Unlock
<1>1. /\ near \in Colocated!Proximities
      /\ \A r \in Points : pc[r] \in Holding <=> mutex = r
    BY DEF Inv
<1>2. PICK label : Goto(p, label)
    BY DEF Skip, Search, Lock, Recheck, Taken, Unlock
<1>3. \A r \in Points : pc'[r] = IF r = p THEN label ELSE pc[r]
    BY <1>0, <1>2 DEF Goto, MappingTypeOK
<1>4. MappingTypeOK'
    <2>1. pc' \in [Points -> {"test", "lock", "recheck", "take", "unlock",
                              "done"}]
        BY <1>0
        DEF MappingTypeOK, Skip, Search, Lock, Recheck, Taken, Unlock, Goto
    <2>2. neighbors' \in [Points -> SUBSET Points]
        <3>1. Near(p) \subseteq Points
            BY DEF Near
        <3>2. QED
            BY <1>0, <3>1
            DEF MappingTypeOK, Skip, Search, Lock, Recheck, Taken, Unlock
    <2>3. mutex' \in Points \cup {NoId}
        BY <1>0 DEF MappingTypeOK, Skip, Search, Lock, Recheck, Taken, Unlock
    <2>4. QED
        BY <1>0, <2>1, <2>2, <2>3 DEF MappingTypeOK
<1>5. \A r \in Points : Near(r)' = Near(r)
    BY <1>0 DEF Near
<1>6. (\A r \in Points : pc[r] \in Holding <=> mutex = r)'
    <2>1. CASE Skip(p) \/ Search(p)
        BY <1>0, <1>1, <2>1 DEF Skip, Search, Goto, Holding, MappingTypeOK
    <2>2. CASE Lock(p)
        BY <1>0, <1>1, <2>2 DEF Lock, Goto, Holding, MappingTypeOK
    <2>3. CASE Recheck(p)
        BY <1>0, <1>1, <2>3 DEF Recheck, Goto, Holding, MappingTypeOK
    <2>4. CASE Taken(p)
        BY <1>0, <1>1, <2>4 DEF Taken, Goto, Holding, MappingTypeOK
    <2>5. CASE Unlock(p)
        BY <1>0, <1>1, <2>5 DEF Unlock, Goto, Holding, MappingTypeOK
    <2>6. QED
        BY <2>1, <2>2, <2>3, <2>4, <2>5
<1>7. NeighborsOfPoint'
    <2>1. CASE Search(p)
        BY <1>0, <1>5, <2>1 DEF Search, Goto, Inv, NeighborsOfPoint, MappingTypeOK
    <2>2. CASE Recheck(p)
        BY <1>0, <1>5, <2>2 DEF Recheck, Goto, Inv, NeighborsOfPoint, MappingTypeOK
    <2>3. CASE Lock(p)
        BY <1>0, <1>5, <2>3 DEF Lock, Goto, Inv, NeighborsOfPoint, MappingTypeOK
    <2>4. CASE Skip(p) \/ Taken(p) \/ Unlock(p)
        BY <1>0, <1>5, <2>4
        DEF Skip, Taken, Unlock, Goto, Inv, NeighborsOfPoint, MappingTypeOK
    <2>5. QED
        BY <2>1, <2>2, <2>3, <2>4
\* Whoever enters the loop found its point without a representative: if one
\* were near, it would have taken the point before it let the mutex go.
<1>8. ASSUME Recheck(p), mapping[p] = NoId, NEW q \in Unique(mapping), q # p
      PROVE  <<q, p>> \notin near
    <2>1. q \in Points /\ mapping[q] = q
        BY DEF Unique
    <2>2. pc[p] \in Holding
        BY <1>8 DEF Recheck, Holding
    <2>3. pc[q] # "take"
        BY <1>8, <2>1, <2>2, OneHolds DEF Holding
    <2>4. QED
        BY <1>8, <2>1, <2>3 DEF Inv, Settled
<1>9. TakesForItself'
    <2> SUFFICES ASSUME NEW r \in Points, pc'[r] = "take"
                 PROVE  /\ mapping[r] \in {NoId, r}
                        /\ \A s \in Unique(mapping) :
                              s # r => <<s, r>> \notin near
        BY <1>0 DEF TakesForItself, Unique
    <2>1. CASE pc[r] = "take"
        BY <2>1 DEF Inv, TakesForItself
    <2>2. CASE pc[r] # "take"
        <3>1. r = p /\ Recheck(p) /\ mapping[p] = NoId
            BY <1>0, <1>3, <2>2
            DEF Skip, Search, Lock, Recheck, Taken, Unlock, Goto, MappingTypeOK
        <3>2. QED
            BY <1>8, <3>1
    <2>3. QED
        BY <2>1, <2>2
\* Whoever leaves the loop has taken every neighbor of its point.
<1>10. ASSUME NEW r \in Points, pc[r] = "take", pc'[r] # "take"
       PROVE  \A q \in Near(r) : mapping[q] # NoId
    <2>1. r = p /\ Taken(p)
        BY <1>3, <1>10 DEF Skip, Search, Lock, Recheck, Taken, Unlock
    <2>2. QED
        BY <2>1 DEF Taken, Inv, NeighborsOfPoint
<1>11. RepresentedNear'
    <2> SUFFICES ASSUME NEW r \in Points, NEW q \in Points, mapping[q] = r
                 PROVE  <<r, q>> \in near /\ (mapping[r] = r \/ pc'[r] = "take")
        BY <1>0 DEF RepresentedNear
    <2>1. <<r, q>> \in near /\ (mapping[r] = r \/ pc[r] = "take")
        BY DEF Inv, RepresentedNear
    <2>2. CASE pc[r] = "take" /\ pc'[r] # "take"
        <3>1. r \in Near(r)
            BY <2>1, NearBothWays DEF Near
        <3>2. mapping[r] # NoId
            BY <1>10, <2>2, <3>1
        <3>3. QED
            BY <2>1, <2>2, <3>2 DEF Inv, TakesForItself
    <2>3. QED
        BY <2>1, <2>2
<1>12. Settled'
    BY <1>0, <1>10 DEF Inv, Settled, Near
<1>13. Apart'
    BY <1>0 DEF Inv, Apart
<1>14. DoneIsRepresented'
    <2> SUFFICES ASSUME NEW r \in Points, pc'[r] \in {"unlock", "done"}
                 PROVE  mapping[r] # NoId \/ <<r, r>> \notin near
        BY <1>0 DEF DoneIsRepresented
    <2>1. CASE pc[r] \in {"unlock", "done"}
        BY <2>1 DEF Inv, DoneIsRepresented
    <2>2. CASE pc[r] = "take"
        BY <1>10, <2>2 DEF Near
    <2>3. CASE pc[r] \notin {"unlock", "done", "take"}
        <3>1. r = p /\ (Skip(p) \/ Recheck(p))
            BY <1>0, <1>3, <2>3
            DEF Skip, Search, Lock, Recheck, Taken, Unlock, Goto, MappingTypeOK
        <3>2. mapping[p] # NoId
            BY <1>0, <3>1 DEF Skip, Recheck, Goto, MappingTypeOK
        <3>3. QED
            BY <3>1, <3>2
    <2>4. QED
        BY <2>1, <2>2, <2>3
<1>15. QED
    BY <1>0, <1>1, <1>4, <1>6, <1>7, <1>9, <1>11, <1>12, <1>13, <1>14 DEF Inv

\* The caller leaves the mapping as it is.
LEMMA CollectInv ==
    ASSUME Inv, Collect
    PROVE  Inv'
<1>1. UNCHANGED <<near, mapping, mutex, pc, neighbors>>
    BY DEF Collect
<1>2. MappingTypeOK'
    <2>1. result'.outcome \in {"thrown", "computed"}
        BY DEF Collect, Thrown, Info
    <2>2. QED
        BY <1>1, <2>1 DEF Inv, MappingTypeOK
<1>3. QED
    BY <1>1, <1>2
    DEF Inv, NeighborsOfPoint, TakesForItself, RepresentedNear, Settled,
        Apart, DoneIsRepresented, Unique, Near, Colocated!Proximities

\* Every step keeps the invariant.
LEMMA NextInv == Inv /\ [MappingNext]_mappingVars => Inv'
<1> SUFFICES ASSUME Inv, [MappingNext]_mappingVars PROVE Inv'
    OBVIOUS
<1>1. CASE Collect
    BY <1>1, CollectInv
<1>2. ASSUME NEW p \in Points, Task(p) PROVE Inv'
    BY <1>2, TakeInv, MoveInv DEF Task
<1>3. CASE UNCHANGED mappingVars
    BY <1>3 DEF mappingVars, Inv, MappingTypeOK, NeighborsOfPoint, TakesForItself,
                RepresentedNear, Settled, Apart, DoneIsRepresented, Unique,
                Near, Colocated!Proximities
<1>4. QED
    BY <1>1, <1>2, <1>3 DEF MappingNext

-----------------------------------------------------------------------------
\* The invariant holds in every reachable state.
THEOREM Invariance == MappingSpec => []Inv
BY InitInv, NextInv, PTL DEF MappingSpec

\* Types: every representative is a point.
THEOREM TypeCorrect == MappingSpec => []MappingTypeOK
<1>1. Inv => MappingTypeOK
    BY DEF Inv
<1>2. QED
    BY <1>1, Invariance, PTL

\* Whenever no task is in its critical section, representatives represent
\* themselves, are near what they represent and are never near each other.
THEOREM StandApart == MappingSpec => []RepresentativesStandApart
<1>1. Inv => RepresentativesStandApart
    <2> SUFFICES ASSUME Inv, mutex = NoId PROVE RepresentativesStandApart
        BY DEF RepresentativesStandApart
    <2>1. \A p \in Points : pc[p] # "take"
        BY NoIdIsNoPoint DEF Inv, Holding
    <2>2. \A p \in Points : mapping[p] # NoId => mapping[p] \in Points
        BY DEF Inv, MappingTypeOK
    <2>3. QED
        BY <2>1, <2>2
        DEF Inv, RepresentedNear, Apart, RepresentativesStandApart, Unique
<1>2. QED
    BY <1>1, Invariance, PTL

-----------------------------------------------------------------------------
\* What the caller found when the tasks were done.
ResultInv ==
    \/ result = NoResult
    \/ /\ \A p \in Points : pc[p] = "done"
       /\ \/ /\ result = Thrown
             /\ \E p \in Points : mapping[p] = NoId
          \/ /\ result = Info(mapping)
             /\ \A p \in Points : mapping[p] # NoId

\* The three results differ.
LEMMA ResultsDiffer ==
    /\ NoResult.outcome = "none"
    /\ Thrown.outcome = "thrown"
    /\ \A f : Info(f).outcome = "computed"
BY DEF NoResult, Thrown, Info

LEMMA ResultInvariant == Inv /\ ResultInv /\ [MappingNext]_mappingVars => ResultInv'
<1> SUFFICES ASSUME Inv, ResultInv, [MappingNext]_mappingVars PROVE ResultInv'
    OBVIOUS
<1>1. CASE Collect
    BY <1>1 DEF Collect, ResultInv
<1>2. ASSUME NEW p \in Points, Task(p) PROVE ResultInv'
    <2>1. pc[p] # "done" /\ UNCHANGED result
        BY <1>2 DEF Task, Skip, Search, Lock, Recheck, Take, Taken, Unlock
    <2>2. QED
        BY <2>1 DEF ResultInv
<1>3. CASE UNCHANGED mappingVars
    BY <1>3 DEF mappingVars, ResultInv, Thrown, NoResult
<1>4. QED
    BY <1>1, <1>2, <1>3 DEF MappingNext

\* The renumbering of the unique points keeps every point with its
\* representative.
LEMMA InfoFollowsMapping ==
    ASSUME NEW p \in Points, NEW f \in [Points -> Points], f[f[p]] = f[p]
    PROVE  LET index == Info(f).colocated_mapping[p]
           IN  /\ index \in DOMAIN Info(f).unique_points
               /\ Info(f).unique_points[index] = f[p]
<1> DEFINE deleted == Points \ Unique(f)
           identity == [q \in Points |-> q]
           index == MappingAfterDeletion(NbPoints, deleted)[f[p]]
<1>1. /\ f[p] \in IndexRange(NbPoints) \ deleted
      /\ DOMAIN identity = IndexRange(NbPoints)
    BY DEF Unique, IndexRange, Points
<1>2. /\ index \in DOMAIN DeleteElements(identity, deleted)
      /\ DeleteElements(identity, deleted)[index] = identity[f[p]]
    <2> HIDE DEF deleted, identity
    <2>1. QED
        BY <1>1, NbPointsAssumption, DeletedVectorFollowsMapping
<1>3. /\ Info(f).colocated_mapping[p] = index
      /\ Info(f).unique_points = DeleteElements(identity, deleted)
    BY DEF Info
<1>4. QED
    BY <1>1, <1>2, <1>3

\* The result that the caller gets sends every point to a unique point near
\* it; without a result a point was not near itself.
THEOREM SoundResult == MappingSpec => []ResultIsSound
<1>1. MappingInit => ResultInv
    BY DEF MappingInit, ResultInv
<1>2. Inv /\ ResultInv => ResultIsSound
    <2> SUFFICES ASSUME Inv, ResultInv PROVE ResultIsSound
        OBVIOUS
    <2>1. CASE result = NoResult
        BY <2>1, ResultsDiffer DEF ResultIsSound
    <2>2. CASE /\ result = Thrown
               /\ \A p \in Points : pc[p] = "done"
               /\ \E p \in Points : mapping[p] = NoId
        BY <2>2, ResultsDiffer DEF ResultIsSound, Inv, DoneIsRepresented
    <2>3. CASE /\ result = Info(mapping)
               /\ \A p \in Points : pc[p] = "done"
               /\ \A p \in Points : mapping[p] # NoId
        <3>1. mapping \in [Points -> Points]
            BY <2>3 DEF Inv, MappingTypeOK
        <3>2. ASSUME NEW p \in Points
              PROVE  mapping[mapping[p]] = mapping[p]
                     /\ <<mapping[p], p>> \in near
            BY <2>3, <3>1 DEF Inv, RepresentedNear
        <3>3. result.colocated_input_points = mapping
            BY <2>3 DEF Info
        <3>4. result.outcome = "computed"
            BY <2>3, ResultsDiffer
        <3>5. ASSUME NEW p \in Points
              PROVE  LET index == result.colocated_mapping[p]
                     IN  /\ index \in DOMAIN result.unique_points
                         /\ result.unique_points[index] = mapping[p]
            BY <2>3, <3>1, <3>2, InfoFollowsMapping
        <3>6. QED
            BY <3>2, <3>3, <3>4, <3>5 DEF ResultIsSound
    <2>4. QED
        BY <2>1, <2>2, <2>3 DEF ResultInv
<1>3. QED
    BY <1>1, <1>2, InitInv, NextInv, ResultInvariant, PTL DEF MappingSpec

-----------------------------------------------------------------------------
\* What a task takes is published when it leaves its loop, and nothing else
\* changes what is published.
LEMMA TaskImplements ==
    ASSUME Inv, result = NoResult, NEW p \in Points, Task(p)
    PROVE  Colocated!Represent(p) \/ UNCHANGED Published
<1> USE NoIdIsNoPoint
<1>0. MappingTypeOK /\ UNCHANGED <<near, result>>
    BY DEF Inv, Task, Skip, Search, Lock, Recheck, Take, Taken, Unlock
<1>1. CASE Skip(p) \/ Search(p)
    <2>1. mutex # p
        BY <1>1 DEF Inv, Holding, Skip, Search
    <2>2. /\ UNCHANGED <<mapping, mutex>>
          /\ \A q \in Points : q # p => pc'[q] = pc[q]
        BY <1>0, <1>1 DEF Skip, Search, Goto, MappingTypeOK
    <2>3. QED
        BY <1>0, <2>1, <2>2 DEF Published, MappingTypeOK
<1>2. CASE Lock(p)
    <2>1. mutex = NoId /\ mutex' = p /\ pc'[p] = "recheck" /\ mapping' = mapping
        BY <1>0, <1>2 DEF Lock, Goto, MappingTypeOK
    <2>2. QED
        BY <2>1 DEF Published
<1>3. CASE Recheck(p)
    <2>1. mutex = p /\ mutex' = p /\ mapping' = mapping /\ pc[p] = "recheck"
        BY <1>3 DEF Recheck, Inv, Holding
    <2>2. pc'[p] = "take" => mapping[p] = NoId
        BY <1>0, <1>3 DEF Recheck, Goto, MappingTypeOK
    <2>3. pc'[p] = "take" => \A q \in Points : mapping[q] # p
        BY <2>1, <2>2 DEF Inv, RepresentedNear
    <2>4. QED
        BY <2>1, <2>3 DEF Published
<1>4. CASE Take(p)
    <2>1. mutex = p /\ mutex' = p /\ pc[p] = "take" /\ pc'[p] = "take"
        BY <1>4 DEF Take, Inv, Holding
    <2>2. \A q \in Points :
            mapping'[q] = mapping[q] \/ (mapping[q] = NoId /\ mapping'[q] = p)
        BY <1>0, <1>4 DEF Take, MappingTypeOK
    <2>3. QED
        BY <2>1, <2>2 DEF Published
<1>5. CASE Taken(p)
    <2>1. mutex = p /\ mutex' = p /\ pc[p] = "take" /\ pc'[p] = "unlock"
          /\ mapping' = mapping
        BY <1>0, <1>5 DEF Taken, Inv, Holding, Goto, MappingTypeOK
    <2>2. \A q \in Points : <<p, q>> \in near => mapping[q] # NoId
        BY <1>5, <2>1 DEF Taken, Inv, NeighborsOfPoint, Near
    <2>3. \A q \in Points : mapping[q] = p => <<p, q>> \in near
        BY DEF Inv, RepresentedNear
    <2>4. Published[p] = NoId
        BY <2>1 DEF Published, Inv, TakesForItself
    <2>5. Published' = mapping
        BY <1>0, <2>1 DEF Published, MappingTypeOK
    <2>6. mapping = [q \in Points |->
                        IF Published[q] = NoId /\ <<p, q>> \in near
                        THEN p ELSE Published[q]]
        BY <1>0, <2>1, <2>2, <2>3 DEF Published, MappingTypeOK
    <2>7. QED
        BY <1>0, <2>4, <2>5, <2>6
        DEF Colocated!Represent, Colocated!NoPoint, NoId
<1>6. CASE Unlock(p)
    <2>1. mutex = p /\ mutex' = NoId /\ pc[p] = "unlock" /\ mapping' = mapping
        BY <1>6 DEF Unlock, Inv, Holding
    <2>2. QED
        BY <2>1 DEF Published
<1>7. QED
    BY <1>1, <1>2, <1>3, <1>4, <1>5, <1>6 DEF Task

\* The tasks implement the sequential algorithm: each represents its point
\* and the free points near it at once, or does nothing.
THEOREM Implementation == MappingSpec => ImplementsColocatedPoints
<1> USE NoIdIsNoPoint
<1>1. MappingInit => Colocated!Init
    BY DEF MappingInit, Colocated!Init, Colocated!NoPoint, NoId, Published
<1>2. Inv /\ ResultInv /\ [MappingNext]_mappingVars => [Colocated!Next]_(Colocated!vars)
    <2> SUFFICES ASSUME Inv, ResultInv, [MappingNext]_mappingVars
                 PROVE  Colocated!Next \/ UNCHANGED Colocated!vars
        OBVIOUS
    <2>1. CASE Collect
        <3>1. result = NoResult /\ result' # NoResult
            BY <2>1, ResultsDiffer DEF Collect
        <3>2. UNCHANGED <<near, Published>>
            BY <2>1 DEF Collect, Published
        <3>3. \A p \in Points : pc[p] = "done"
            BY <2>1 DEF Collect
        <3>4. \A p \in Points : <<p, p>> \in near => mapping[p] # NoId
            BY <3>3 DEF Inv, DoneIsRepresented
        <3>5. \A p \in Points : Published[p] = mapping[p]
            BY <3>3 DEF Published, Inv, MappingTypeOK
        <3>6. Colocated!Finish
            BY <3>1, <3>2, <3>4, <3>5
            DEF Colocated!Finish, Colocated!NoPoint, NoId
        <3>7. QED
            BY <3>6 DEF Colocated!Next
    <2>2. ASSUME NEW p \in Points, Task(p)
          PROVE  Colocated!Next \/ UNCHANGED Colocated!vars
        <3>1. pc[p] # "done" /\ UNCHANGED <<near, result>>
            BY <2>2 DEF Task, Skip, Search, Lock, Recheck, Take, Taken, Unlock
        <3>2. result = NoResult
            BY <3>1 DEF ResultInv
        <3>3. Colocated!Represent(p) \/ UNCHANGED Published
            BY <2>2, <3>2, TaskImplements
        <3>4. QED
            BY <3>1, <3>3 DEF Colocated!Next, Colocated!vars
    <2>3. CASE UNCHANGED mappingVars
        BY <2>3 DEF mappingVars, Colocated!vars, Published
    <2>4. QED
        BY <2>1, <2>2, <2>3 DEF MappingNext
<1>3. MappingInit => ResultInv
    BY DEF MappingInit, ResultInv
<1>4. QED
    BY <1>1, <1>2, <1>3, InitInv, NextInv, ResultInvariant, PTL
    DEF MappingSpec, Colocated!Spec, ImplementsColocatedPoints
=============================================================================
