------------------------ MODULE Relationships_proof ------------------------
(***************************************************************************)
(* Proofs about Relationships: the index of the components follows their   *)
(* vertices, a pair of components has one edge, and the graph implements a *)
(* set of relations.                                                       *)
(***************************************************************************)
EXTENDS Relationships, Graph_proof

\* The edge joins the two vertices, in any direction.
JoinsVertices(g, e, v0, v1) == Range(g.edges[e]) = {v0, v1}

\* edge_from_vertices() finds an edge that joins the two vertices, in any
\* direction, when there is one.
LEMMA EdgeFound ==
    ASSUME NEW ne \in Nat, NEW nv \in Nat, NEW EL, NEW VL,
           NEW g \in DualGraphs(ne, nv, EL, VL),
           NEW v0 \in IndexRange(nv), NEW v1 \in IndexRange(nv)
    PROVE  LET found == EdgeFromVertices(g, v0, v1)
           IN  /\ found # NoId => /\ found \in IndexRange(ne)
                                  /\ JoinsVertices(g, found, v0, v1)
               /\ found = NoId => \A e \in IndexRange(ne) :
                                    ~ JoinsVertices(g, e, v0, v1)
<1> DEFINE S == IndexRange(ne) \X Sides
           list == g.around[v0]
           I == {i \in 1 .. Len(list) : VertexAt(g, Opposite(list[i])) = v1}
           first == IF I # {} THEN Min(I) ELSE 0
           found == EdgeFromVertices(g, v0, v1)
<1>1. /\ g.edges \in [IndexRange(ne) -> [Sides -> Ends(nv)]]
      /\ list \in Seq(S)
      /\ \A x : x \in ToSet(list) <=> x \in S /\ VertexAt(g, x) = v0
    BY DEF DualGraphs, GraphsOf, ListsFollowEdges
<1>2. \A i \in 1 .. Len(list) : list[i] \in S /\ list[i] \in ToSet(list)
    <2> HIDE DEF list, S
    <2>1. QED
        BY <1>1, ElementOfSeq DEF ToSet
<1>3. \A x \in S : /\ Opposite(x) = <<x[1], 1 - x[2]>>
                   /\ VertexAt(g, Opposite(x)) = g.edges[x[1]][1 - x[2]]
                   /\ VertexAt(g, x) = g.edges[x[1]][x[2]]
                   /\ Range(g.edges[x[1]])
                        = {g.edges[x[1]][x[2]], g.edges[x[1]][1 - x[2]]}
    <2> SUFFICES ASSUME NEW x \in S
                 PROVE  /\ Opposite(x) = <<x[1], 1 - x[2]>>
                        /\ VertexAt(g, Opposite(x)) = g.edges[x[1]][1 - x[2]]
                        /\ VertexAt(g, x) = g.edges[x[1]][x[2]]
                        /\ Range(g.edges[x[1]])
                            = {g.edges[x[1]][x[2]], g.edges[x[1]][1 - x[2]]}
        OBVIOUS
    <2>1. Opposite(x) = <<x[1], 1 - x[2]>>
        BY DEF Opposite
    <2>2. /\ VertexAt(g, Opposite(x)) = g.edges[x[1]][1 - x[2]]
          /\ VertexAt(g, x) = g.edges[x[1]][x[2]]
        BY <2>1 DEF VertexAt
    <2> DEFINE edge == g.edges[x[1]]
    <2>3. DOMAIN edge = {0, 1} /\ x[2] \in {0, 1}
        BY <1>1 DEF Sides
    <2> HIDE DEF edge
    <2>4. Range(edge) = {edge[x[2]], edge[1 - x[2]]}
        BY <2>3 DEF Range
    <2>5. QED
        BY <2>1, <2>2, <2>4 DEF edge
<1>4. found = IF first = 0 THEN NoId ELSE list[first][1]
    <2>1. SelectInSeq(list, LAMBDA ev : VertexAt(g, Opposite(ev)) = v1) = first
        BY Zenon DEF SelectInSeq
    <2>2. QED
        BY <2>1, Zenon DEF EdgeFromVertices
<1>5. CASE I = {}
    <2>1. found = NoId
        BY <1>4, <1>5
    <2>2. ASSUME NEW e \in IndexRange(ne), Range(g.edges[e]) = {v0, v1}
          PROVE  FALSE
        <3>1. PICK x \in S : x[1] = e /\ VertexAt(g, x) = v0
            <4>1. PICK s \in Sides : g.edges[e][s] = v0
                <5>1. DOMAIN g.edges[e] = Sides
                    BY <1>1
                <5>2. QED
                    BY <2>2, <5>1 DEF Range
            <4>2. <<e, s>> \in S /\ VertexAt(g, <<e, s>>) = v0
                BY <4>1 DEF VertexAt
            <4>3. QED
                BY <4>2
        <3>2. VertexAt(g, Opposite(x)) = v1
            <4>1. {v0, v1} = {v0, g.edges[x[1]][1 - x[2]]}
                BY <1>3, <2>2, <3>1
            <4>2. QED
                BY <1>3, <4>1
        <3>3. PICK i \in 1 .. Len(list) : list[i] = x
            BY <1>1, <3>1 DEF ToSet
        <3>4. QED
            BY <1>5, <3>2, <3>3
    <2>3. QED
        BY <2>1, <2>2 DEF JoinsVertices
<1>6. CASE I # {}
    <2>1. first \in I
        <3>1. \E m \in I : \A n \in I : m <= n
            <4>1. I \subseteq Nat
                OBVIOUS
            <4> HIDE DEF I
            <4>2. QED
                BY <1>6, <4>1, LeastElement
        <3>2. Min(I) \in I
            BY <3>1 DEF Min
        <3>3. QED
            BY <1>6, <3>2
    <2> HIDE DEF first
    <2> DEFINE x == list[first]
    <2>2. /\ first \in 1 .. Len(list)
          /\ VertexAt(g, Opposite(x)) = v1
        BY <2>1
    <2>3. x \in S /\ VertexAt(g, x) = v0
        BY <1>1, <1>2, <2>2
    <2>4. found = x[1]
        BY <1>4, <2>2
    <2> HIDE DEF x, found
    <2>5. /\ found \in IndexRange(ne)
          /\ Range(g.edges[found]) = {v0, v1}
        BY <1>3, <2>2, <2>3, <2>4
    <2>6. found # NoId
        BY <2>5 DEF IndexRange, NoId
    <2>7. QED
        BY <2>5, <2>6 DEF found, JoinsVertices
<1>7. QED
    BY <1>5, <1>6

-----------------------------------------------------------------------------
\* A pair of vertices has one edge at most.
OneEdgePerPair(g, ne) ==
    \A e, f \in IndexRange(ne) : Range(g.edges[e]) = Range(g.edges[f]) => e = f

\* An end of the edge is in D.
EndsIn(g, e, D) == \E side \in Sides : g.edges[e][side] \in D

\* Each edge of g that does not end in D is in h, once, between the new indices
\* of its vertices, and h has no others.
KeepsEdges(g, h, ne, me, D, newEdge, newVertex) ==
    /\ \A e \in IndexRange(ne) : ~ EndsIn(g, e, D) =>
            /\ newEdge[e] \in IndexRange(me)
            /\ h.elabel[newEdge[e]] = g.elabel[e]
            /\ \A side \in Sides :
                 h.edges[newEdge[e]][side] = newVertex[g.edges[e][side]]
    /\ \A k \in IndexRange(me) : \E e \in IndexRange(ne) :
            ~ EndsIn(g, e, D) /\ newEdge[e] = k

\* The edges around D are those that end there.
LEMMA EdgesAroundAre ==
    ASSUME NEW ne \in Nat, NEW nv \in Nat, NEW EL, NEW VL,
           NEW g \in DualGraphs(ne, nv, EL, VL),
           NEW D, D \subseteq IndexRange(nv)
    PROVE  \A e \in IndexRange(ne) : e \in EdgesAround(g, D) <=> EndsIn(g, e, D)
<1> DEFINE S == IndexRange(ne) \X Sides
<1>1. \A w \in IndexRange(nv) : \A x : x \in ToSet(g.around[w]) <=>
            x \in S /\ VertexAt(g, x) = w
    BY DEF DualGraphs, ListsFollowEdges
<1>2. ASSUME NEW e \in IndexRange(ne), e \in EdgesAround(g, D)
      PROVE  EndsIn(g, e, D)
    <2>1. PICK v \in D : \E x \in ToSet(g.around[v]) : e = x[1]
        BY <1>2 DEF EdgesAround
    <2>2. PICK x \in S : VertexAt(g, x) = v /\ e = x[1]
        BY <1>1, <2>1
    <2>3. x[2] \in Sides /\ g.edges[e][x[2]] = v
        BY <2>1, <2>2 DEF VertexAt
    <2>4. QED
        BY <2>1, <2>3 DEF EndsIn
<1>3. ASSUME NEW e \in IndexRange(ne), EndsIn(g, e, D)
      PROVE  e \in EdgesAround(g, D)
    <2>1. PICK side \in Sides : g.edges[e][side] \in D
        BY <1>3 DEF EndsIn
    <2> DEFINE x == <<e, side>>
               v == g.edges[e][side]
    <2>2. x \in S /\ VertexAt(g, x) = v /\ x[1] = e
        BY DEF VertexAt
    <2> HIDE DEF x, v
    <2>3. x \in ToSet(g.around[v]) /\ v \in D
        BY <1>1, <2>1, <2>2 DEF v
    <2>4. QED
        BY <2>2, <2>3 DEF EdgesAround
<1>4. QED
    BY <1>2, <1>3

\* Removing vertices and the edges that end there leaves the rest as it was,
\* under new indices.
LEMMA RestOfGraph ==
    ASSUME NEW ne \in Nat, NEW nv \in Nat, NEW EL, NEW VL,
           NEW g \in DualGraphs(ne, nv, EL, VL), EndsSet(g, ne),
           NEW D, D \subseteq IndexRange(nv)
    PROVE  LET h == WithoutVertices(g, D)
               cut == EdgesAround(g, D)
               me == NbKept(ne, cut)
               mv == NbKept(nv, D)
           IN  /\ me \in Nat /\ mv \in Nat
               /\ h \in DualGraphs(me, mv, EL, VL)
               /\ EndsSet(h, me)
               /\ h.vlabel = DeleteElements(g.vlabel, D)
               /\ KeepsEdges(g, h, ne, me, D, MappingAfterDeletion(ne, cut),
                             MappingAfterDeletion(nv, D))
<1> DEFINE cut == EdgesAround(g, D)
           me == NbKept(ne, cut)
           mv == NbKept(nv, D)
           newEdge == MappingAfterDeletion(ne, cut)
           newVertex == MappingAfterDeletion(nv, D)
           f == DeleteEdges(g, cut)
           h == DeleteVertices(f, D)
<1>1. /\ g.edges \in [IndexRange(ne) -> [Sides -> Ends(nv)]]
      /\ g.elabel \in [IndexRange(ne) -> EL]
      /\ DOMAIN g.edges = IndexRange(ne)
      /\ DOMAIN g.elabel = IndexRange(ne)
    BY DEF DualGraphs, GraphsOf
<1>2. \A e \in IndexRange(ne) : e \in cut <=> EndsIn(g, e, D)
    BY EdgesAroundAre
<1>3. /\ me \in Nat
      /\ f \in DualGraphs(me, nv, EL, VL)
      /\ f.edges = DeleteElements(g.edges, cut)
      /\ f.elabel = DeleteElements(g.elabel, cut)
      /\ f.vlabel = g.vlabel
    BY DeletedEdges
<1>4. \A e \in IndexRange(ne) : ~ EndsIn(g, e, D) =>
            /\ newEdge[e] \in IndexRange(me)
            /\ DeleteElements(g.edges, cut)[newEdge[e]] = g.edges[e]
            /\ DeleteElements(g.elabel, cut)[newEdge[e]] = g.elabel[e]
    <2> SUFFICES ASSUME NEW e \in IndexRange(ne), ~ EndsIn(g, e, D)
                 PROVE  /\ newEdge[e] \in IndexRange(me)
                        /\ DeleteElements(g.edges, cut)[newEdge[e]]
                             = g.edges[e]
                        /\ DeleteElements(g.elabel, cut)[newEdge[e]]
                             = g.elabel[e]
        OBVIOUS
    <2>1. e \in IndexRange(ne) \ cut
        BY <1>2
    <2>2. newEdge[e] \in IndexRange(me)
        <3> HIDE DEF cut
        <3>1. newEdge[e] \in IndexRange(Cardinality(IndexRange(ne) \ cut))
            BY <2>1, MappingIsOneToOne
        <3>2. QED
            BY <3>1 DEF NbKept
    <2>3. DeleteElements(g.edges, cut)[newEdge[e]] = g.edges[e]
        BY <1>1, <2>1, DeletedVectorFollowsMapping
    <2>4. DeleteElements(g.elabel, cut)[newEdge[e]] = g.elabel[e]
        BY <1>1, <2>1, DeletedVectorFollowsMapping
    <2>5. QED
        BY <2>2, <2>3, <2>4
<1>5. \A k \in IndexRange(me) : \E e \in IndexRange(ne) :
            ~ EndsIn(g, e, D) /\ newEdge[e] = k
    <2> SUFFICES ASSUME NEW k \in IndexRange(me)
                 PROVE  \E e \in IndexRange(ne) :
                            ~ EndsIn(g, e, D) /\ newEdge[e] = k
        OBVIOUS
    <2>1. k \in IndexRange(Cardinality(IndexRange(ne) \ cut))
        BY DEF NbKept
    <2>2. PICK e \in IndexRange(ne) \ cut : newEdge[e] = k
        <3> HIDE DEF cut
        <3> DEFINE edges == g.edges
        <3>1. DOMAIN edges = IndexRange(ne)
            BY <1>1
        <3> HIDE DEF edges
        <3>2. QED
            BY <2>1, <3>1, DeletedVectorComesFromKept
    <2>3. QED
        BY <1>2, <2>2
<1> HIDE DEF f, me, newEdge, cut
<1>6. \A k \in IndexRange(me) : \E e \in IndexRange(ne) :
            /\ ~ EndsIn(g, e, D)
            /\ newEdge[e] = k
            /\ f.edges[k] = g.edges[e]
    BY <1>3, <1>4, <1>5
<1>7. \A e \in IndexRange(ne), side \in Sides :
            /\ g.edges[e][side] \in IndexRange(nv)
            /\ ~ EndsIn(g, e, D) => g.edges[e][side] \in IndexRange(nv) \ D
    <2> SUFFICES ASSUME NEW e \in IndexRange(ne), NEW side \in Sides
                 PROVE  /\ g.edges[e][side] \in IndexRange(nv)
                        /\ ~ EndsIn(g, e, D) => g.edges[e][side] \notin D
        OBVIOUS
    <2>1. /\ <<e, side>> \in IndexRange(ne) \X Sides
          /\ VertexAt(g, <<e, side>>) = g.edges[e][side]
        BY DEF VertexAt
    <2>2. g.edges[e][side] # NoId
        BY <2>1 DEF EndsSet
    <2>3. QED
        BY <1>1, <2>2 DEF Ends, EndsIn
<1>8. \A k \in IndexRange(me), side \in Sides :
            f.edges[k][side] \in IndexRange(nv) \ D
    BY <1>6, <1>7
<1>9. EndsSet(f, me)
    <2> SUFFICES ASSUME NEW x \in IndexRange(me) \X Sides
                 PROVE  VertexAt(f, x) # NoId
        BY DEF EndsSet
    <2>1. VertexAt(f, x) \in IndexRange(nv)
        BY <1>8 DEF VertexAt
    <2>2. QED
        BY <2>1 DEF IndexRange, NoId
<1>10. D \subseteq IsolatedVertices(f)
    <2> SUFFICES ASSUME NEW v \in D
                 PROVE  v \in IsolatedVertices(f)
        OBVIOUS
    <2>1. /\ f.around \in [IndexRange(nv) -> Seq(IndexRange(me) \X Sides)]
          /\ \A x : x \in ToSet(f.around[v]) =>
                x \in IndexRange(me) \X Sides /\ VertexAt(f, x) = v
        BY <1>3 DEF DualGraphs, GraphsOf, ListsFollowEdges
    <2>2. \A x \in IndexRange(me) \X Sides : VertexAt(f, x) # v
        BY <1>8 DEF VertexAt
    <2>3. ToSet(f.around[v]) = {}
        BY <2>1, <2>2
    <2> DEFINE list == f.around[v]
    <2>4. list \in Seq(IndexRange(me) \X Sides) /\ ToSet(list) = {}
        BY <2>1, <2>3
    <2> HIDE DEF list
    <2>5. Len(list) = 0
        BY <2>4, ElementOfSeq DEF ToSet
    <2>6. list = <<>>
        BY <2>4, <2>5, EmptySeq
    <2>7. QED
        BY <2>1, <2>6 DEF IsolatedVertices, GraphVertices, list
<1>11. /\ mv \in Nat
       /\ h \in DualGraphs(me, mv, EL, VL)
       /\ h.edges = NewEnds(f.edges, newVertex)
       /\ h.elabel = f.elabel
       /\ h.vlabel = DeleteElements(f.vlabel, D)
    BY <1>3, <1>9, <1>10, DeletedVertices
<1> HIDE DEF h
<1>12. \A k \in IndexRange(me), side \in Sides :
            h.edges[k][side] = newVertex[f.edges[k][side]]
    <2>1. DOMAIN f.edges = IndexRange(me)
        BY <1>3 DEF DualGraphs, GraphsOf
    <2> DEFINE edges == f.edges
    <2> HIDE DEF newVertex
    <2>2. \A k \in DOMAIN edges, side \in Sides :
            NewEnds(edges, newVertex)[k][side] = newVertex[edges[k][side]]
        <3> HIDE DEF edges
        <3>1. QED
            BY DEF NewEnds
    <2>3. QED
        BY <1>11, <2>1, <2>2
<1>13. \A v \in IndexRange(nv) \ D : newVertex[v] \in IndexRange(mv)
    BY MappingIsOneToOne DEF NbKept
<1> HIDE DEF mv, newVertex
<1>14. EndsSet(h, me)
    <2> SUFFICES ASSUME NEW x \in IndexRange(me) \X Sides
                 PROVE  VertexAt(h, x) # NoId
        BY DEF EndsSet
    <2>1. VertexAt(h, x) \in IndexRange(mv)
        BY <1>8, <1>12, <1>13 DEF VertexAt
    <2>2. QED
        BY <2>1 DEF IndexRange, NoId
<1>15. KeepsEdges(g, h, ne, me, D, newEdge, newVertex)
    <2>1. ASSUME NEW e \in IndexRange(ne), ~ EndsIn(g, e, D)
          PROVE  /\ newEdge[e] \in IndexRange(me)
                 /\ h.elabel[newEdge[e]] = g.elabel[e]
                 /\ \A side \in Sides :
                      h.edges[newEdge[e]][side] = newVertex[g.edges[e][side]]
        <3>1. /\ newEdge[e] \in IndexRange(me)
              /\ f.edges[newEdge[e]] = g.edges[e]
              /\ f.elabel[newEdge[e]] = g.elabel[e]
            BY <1>3, <1>4, <2>1
        <3>2. QED
            BY <1>11, <1>12, <3>1
    <2>2. QED
        BY <1>5, <2>1 DEF KeepsEdges
<1>16. h = WithoutVertices(g, D)
    BY DEF WithoutVertices, h, f, cut
<1>17. h.vlabel = DeleteElements(g.vlabel, D)
    BY <1>3, <1>11
<1>18. QED
    BY <1>3, <1>11, <1>14, <1>15, <1>16, <1>17
    DEF me, mv, cut, newEdge, newVertex

-----------------------------------------------------------------------------
\* The graph of a model, with the index of its components: vertices have
\* components of their own, edges have their ends, two vertices one edge.
IsModel(g, index, ne, nv) ==
    /\ g \in DualGraphs(ne, nv, RelationTypes, Components)
    /\ EndsSet(g, ne)
    /\ OneEdgePerPair(g, ne)
    /\ g.vlabel \in Injection(IndexRange(nv), Components)
    /\ DOMAIN index = Range(g.vlabel)
    /\ \A v \in IndexRange(nv) : index[g.vlabel[v]] = v

IsModelOfSomeSize(g, index) ==
    /\ NbEdges(g) \in Nat
    /\ NbVertices(g) \in Nat
    /\ IsModel(g, index, NbEdges(g), NbVertices(g))

\* The inductive invariant.
IInv == IsModelOfSomeSize(graph, uuid2index)

\* What an edge says of the components at its ends.
TripleOf(g, e) ==
    <<g.vlabel[g.edges[e][0]], g.vlabel[g.edges[e][1]], g.elabel[e]>>

TriplesOf(g) == {TripleOf(g, e) : e \in GraphEdges(g)}

\* The vertices at the two ends of an edge.
EndsOf(edge) == {edge[0], edge[1]}

\* The numbers of edges and vertices of such a graph, and what it consists of.
LEMMA PartsOfModel ==
    ASSUME NEW ne \in Nat, NEW nv \in Nat, NEW g, NEW index,
           IsModel(g, index, ne, nv)
    PROVE  /\ g \in DualGraphs(ne, nv, RelationTypes, Components)
           /\ EndsSet(g, ne)
           /\ OneEdgePerPair(g, ne)
           /\ g.vlabel \in Injection(IndexRange(nv), Components)
           /\ \A e \in IndexRange(ne), side \in Sides :
                g.edges[e][side] \in IndexRange(nv)
           /\ \A e \in IndexRange(ne) : Range(g.edges[e]) = EndsOf(g.edges[e])
           /\ g.elabel \in [IndexRange(ne) -> RelationTypes]
           /\ g.vlabel \in [IndexRange(nv) -> Components]
           /\ GraphEdges(g) = IndexRange(ne)
           /\ GraphVertices(g) = IndexRange(nv)
           /\ NbEdges(g) = ne
           /\ NbVertices(g) = nv
<1>1. /\ g \in DualGraphs(ne, nv, RelationTypes, Components)
      /\ EndsSet(g, ne)
      /\ OneEdgePerPair(g, ne)
      /\ g.vlabel \in Injection(IndexRange(nv), Components)
    BY DEF IsModel
<1>2. /\ g.edges \in [IndexRange(ne) -> [Sides -> Ends(nv)]]
      /\ g.elabel \in [IndexRange(ne) -> RelationTypes]
      /\ g.around \in [IndexRange(nv) -> Seq(IndexRange(ne) \X Sides)]
      /\ g.vlabel \in [IndexRange(nv) -> Components]
    BY <1>1 DEF DualGraphs, GraphsOf
<1>3. NbEdges(g) = ne /\ NbVertices(g) = nv
    BY <1>2, SizeOfVector DEF NbEdges, NbVertices
<1>4. GraphEdges(g) = IndexRange(ne) /\ GraphVertices(g) = IndexRange(nv)
    BY <1>2 DEF GraphEdges, GraphVertices
<1>5. ASSUME NEW e \in IndexRange(ne), NEW side \in Sides
      PROVE  g.edges[e][side] \in IndexRange(nv)
    <2>1. /\ <<e, side>> \in IndexRange(ne) \X Sides
          /\ VertexAt(g, <<e, side>>) = g.edges[e][side]
        BY DEF VertexAt
    <2>2. g.edges[e][side] # NoId
        BY <1>1, <2>1 DEF EndsSet
    <2>3. QED
        BY <1>2, <2>2 DEF Ends
<1>6. ASSUME NEW e \in IndexRange(ne)
      PROVE  Range(g.edges[e]) = EndsOf(g.edges[e])
    <2> DEFINE edge == g.edges[e]
    <2>1. DOMAIN edge = {0, 1} /\ Sides = {0, 1}
        BY <1>2 DEF Sides
    <2> HIDE DEF edge
    <2>2. Range(edge) = EndsOf(edge)
        BY <2>1 DEF Range, EndsOf
    <2>3. QED
        BY <2>2 DEF edge
<1>7. QED
    BY <1>1, <1>2, <1>3, <1>4, <1>5, <1>6

\* In whatever number of elements.
LEMMA ModelOfSize ==
    ASSUME NEW ne \in Nat, NEW nv \in Nat, NEW g, NEW index,
           IsModel(g, index, ne, nv)
    PROVE  IsModelOfSomeSize(g, index)
<1>1. NbEdges(g) = ne /\ NbVertices(g) = nv
    BY PartsOfModel
<1>2. QED
    BY <1>1 DEF IsModelOfSomeSize

\* The values of f that are not at D are in h, once, each at its new index.
KeepsValues(f, h, n, m, D, S, old2new) ==
    /\ h \in Injection(IndexRange(m), S)
    /\ \A i \in IndexRange(n) \ D :
            old2new[i] \in IndexRange(m) /\ h[old2new[i]] = f[i]
    /\ \A i, j \in IndexRange(n) \ D : old2new[i] = old2new[j] => i = j
    /\ \A k \in IndexRange(m) : \E i \in IndexRange(n) \ D :
            old2new[i] = k /\ h[k] = f[i]

\* What is left of a vector when D is deleted.
LEMMA KeptValues ==
    ASSUME NEW n \in Nat, NEW D, NEW S, NEW f \in [IndexRange(n) -> S],
           \A i, j \in IndexRange(n) \ D : f[i] = f[j] => i = j
    PROVE  KeepsValues(f, DeleteElements(f, D), n, NbKept(n, D), D, S,
                       MappingAfterDeletion(n, D))
<1> DEFINE kept == IndexRange(n) \ D
           h == DeleteElements(f, D)
           old2new == MappingAfterDeletion(n, D)
           m == Cardinality(kept)
<1>1. DOMAIN f = IndexRange(n)
    OBVIOUS
<1>2. \A i \in kept : old2new[i] \in IndexRange(m) /\ h[old2new[i]] = f[i]
    BY <1>1, MappingIsOneToOne, DeletedVectorFollowsMapping
<1>3. \A i, j \in kept : old2new[i] = old2new[j] => i = j
    BY MappingIsOneToOne
<1>4. \A k \in IndexRange(m) : \E i \in kept : old2new[i] = k /\ h[k] = f[i]
    BY <1>1, DeletedVectorComesFromKept
<1>5. h \in [IndexRange(m) -> S]
    BY DeletedVectorType
<1> HIDE DEF h, old2new, m
<1>6. \A k, l \in IndexRange(m) : h[k] = h[l] => k = l
    <2> SUFFICES ASSUME NEW k \in IndexRange(m), NEW l \in IndexRange(m),
                        h[k] = h[l]
                 PROVE  k = l
        OBVIOUS
    <2>1. PICK i \in kept : old2new[i] = k /\ h[k] = f[i]
        BY <1>4
    <2>2. PICK j \in kept : old2new[j] = l /\ h[l] = f[j]
        BY <1>4
    <2>3. i = j
        BY <2>1, <2>2
    <2>4. QED
        BY <2>1, <2>2, <2>3
<1>7. h \in Injection(IndexRange(m), S)
    BY <1>5, <1>6 DEF Injection, IsInjective
<1>8. QED
    <2>1. KeepsValues(f, h, n, m, D, S, old2new)
        BY <1>2, <1>3, <1>4, <1>7 DEF KeepsValues
    <2>2. QED
        BY <2>1 DEF h, old2new, m, NbKept

\* The triples of the edges of g that do not end in D.
TriplesWithout(g, ne, D) ==
    {TripleOf(g, e) : e \in {f \in IndexRange(ne) : ~ EndsIn(g, f, D)}}

\* Removing vertices and the edges that end there leaves a model, if the index
\* is updated and the components that are left are all different.
LEMMA RestOfModel ==
    ASSUME NEW ne \in Nat, NEW nv \in Nat,
           NEW g \in DualGraphs(ne, nv, RelationTypes, Components),
           EndsSet(g, ne), OneEdgePerPair(g, ne),
           NEW D, D \subseteq IndexRange(nv),
           \A v, w \in IndexRange(nv) \ D : g.vlabel[v] = g.vlabel[w] => v = w,
           NEW index,
           DOMAIN index = {g.vlabel[v] : v \in IndexRange(nv) \ D},
           \A v \in IndexRange(nv) \ D :
                index[g.vlabel[v]] = MappingAfterDeletion(nv, D)[v]
    PROVE  LET h == WithoutVertices(g, D)
           IN  /\ IsModelOfSomeSize(h, index)
               /\ TriplesOf(h) = TriplesWithout(g, ne, D)
<1> DEFINE h == WithoutVertices(g, D)
           cut == EdgesAround(g, D)
           me == NbKept(ne, cut)
           mv == NbKept(nv, D)
           newEdge == MappingAfterDeletion(ne, cut)
           newVertex == MappingAfterDeletion(nv, D)
           rest == IndexRange(nv) \ D
<1>1. /\ me \in Nat /\ mv \in Nat
      /\ h \in DualGraphs(me, mv, RelationTypes, Components)
      /\ EndsSet(h, me)
      /\ h.vlabel = DeleteElements(g.vlabel, D)
      /\ KeepsEdges(g, h, ne, me, D, newEdge, newVertex)
    BY RestOfGraph
<1>2. /\ g.edges \in [IndexRange(ne) -> [Sides -> Ends(nv)]]
      /\ g.vlabel \in [IndexRange(nv) -> Components]
    BY DEF DualGraphs, GraphsOf
<1>3. /\ h.vlabel \in Injection(IndexRange(mv), Components)
      /\ \A v \in rest : /\ newVertex[v] \in IndexRange(mv)
                         /\ h.vlabel[newVertex[v]] = g.vlabel[v]
      /\ \A v, w \in rest : newVertex[v] = newVertex[w] => v = w
      /\ \A k \in IndexRange(mv) : \E v \in rest :
            newVertex[v] = k /\ h.vlabel[k] = g.vlabel[v]
    <2> DEFINE f == g.vlabel
    <2>1. /\ f \in [IndexRange(nv) -> Components]
          /\ \A v, w \in rest : f[v] = f[w] => v = w
        BY <1>2
    <2> HIDE DEF f
    <2>2. KeepsValues(f, DeleteElements(f, D), nv, mv, D, Components, newVertex)
        BY <2>1, KeptValues
    <2> HIDE DEF h, newVertex, mv
    <2>3. KeepsValues(f, h.vlabel, nv, mv, D, Components, newVertex)
        BY <1>1, <2>2 DEF f
    <2>4. QED
        BY <2>3 DEF KeepsValues, f
<1> HIDE DEF h, me, mv, newEdge, newVertex, cut
<1>4. /\ \A e \in IndexRange(ne) : ~ EndsIn(g, e, D) =>
            /\ newEdge[e] \in IndexRange(me)
            /\ h.elabel[newEdge[e]] = g.elabel[e]
            /\ \A side \in Sides :
                 /\ g.edges[e][side] \in rest
                 /\ h.edges[newEdge[e]][side] = newVertex[g.edges[e][side]]
      /\ \A k \in IndexRange(me) : \E e \in IndexRange(ne) :
            ~ EndsIn(g, e, D) /\ newEdge[e] = k
    <2>1. \A e \in IndexRange(ne) : ~ EndsIn(g, e, D) =>
                \A side \in Sides : g.edges[e][side] \in rest
        <3> SUFFICES ASSUME NEW e \in IndexRange(ne), ~ EndsIn(g, e, D),
                            NEW side \in Sides
                     PROVE  g.edges[e][side] \in rest
            OBVIOUS
        <3>1. /\ <<e, side>> \in IndexRange(ne) \X Sides
              /\ VertexAt(g, <<e, side>>) = g.edges[e][side]
            BY DEF VertexAt
        <3>2. g.edges[e][side] # NoId /\ g.edges[e][side] \notin D
            BY <3>1 DEF EndsSet, EndsIn
        <3>3. QED
            BY <1>2, <3>2 DEF Ends
    <2>2. QED
        BY <1>1, <2>1 DEF KeepsEdges
<1>5. Sides = {0, 1}
    BY DEF Sides
<1>6. \A e \in IndexRange(ne) : ~ EndsIn(g, e, D) =>
            /\ Range(g.edges[e]) = {g.edges[e][0], g.edges[e][1]}
            /\ Range(h.edges[newEdge[e]]) =
                    {newVertex[g.edges[e][0]], newVertex[g.edges[e][1]]}
    <2> SUFFICES ASSUME NEW e \in IndexRange(ne), ~ EndsIn(g, e, D)
                 PROVE  /\ Range(g.edges[e]) = {g.edges[e][0], g.edges[e][1]}
                        /\ Range(h.edges[newEdge[e]]) =
                            {newVertex[g.edges[e][0]], newVertex[g.edges[e][1]]}
        OBVIOUS
    <2> DEFINE old == g.edges[e]
               new == h.edges[newEdge[e]]
    <2>1. h.edges \in [IndexRange(me) -> [Sides -> Ends(mv)]]
        BY <1>1 DEF DualGraphs, GraphsOf
    <2>2. DOMAIN old = Sides /\ DOMAIN new = Sides
        BY <1>2, <1>4, <2>1
    <2>3. new[0] = newVertex[old[0]] /\ new[1] = newVertex[old[1]]
        BY <1>4, <1>5
    <2> HIDE DEF old, new
    <2>4. Range(old) = {old[0], old[1]} /\ Range(new) = {new[0], new[1]}
        BY <1>5, <2>2 DEF Range
    <2>5. QED
        BY <2>3, <2>4 DEF old, new
<1>7. OneEdgePerPair(h, me)
    <2> SUFFICES ASSUME NEW k \in IndexRange(me), NEW l \in IndexRange(me),
                        Range(h.edges[k]) = Range(h.edges[l])
                 PROVE  k = l
        BY DEF OneEdgePerPair
    <2>1. PICK e \in IndexRange(ne) : ~ EndsIn(g, e, D) /\ newEdge[e] = k
        BY <1>4
    <2>2. PICK f \in IndexRange(ne) : ~ EndsIn(g, f, D) /\ newEdge[f] = l
        BY <1>4
    <2> DEFINE a == g.edges[e][0]
               b == g.edges[e][1]
               c == g.edges[f][0]
               d == g.edges[f][1]
    <2>3. a \in rest /\ b \in rest /\ c \in rest /\ d \in rest
        BY <1>4, <1>5, <2>1, <2>2
    <2>4. /\ {newVertex[a], newVertex[b]} = {newVertex[c], newVertex[d]}
          /\ Range(g.edges[e]) = {a, b}
          /\ Range(g.edges[f]) = {c, d}
        BY <1>6, <2>1, <2>2
    <2> HIDE DEF a, b, c, d, rest
    <2>5. {a, b} = {c, d}
        <3>1. /\ newVertex[a] = newVertex[c] => a = c
              /\ newVertex[a] = newVertex[d] => a = d
              /\ newVertex[b] = newVertex[c] => b = c
              /\ newVertex[b] = newVertex[d] => b = d
            BY <1>3, <2>3, Zenon
        <3>2. /\ newVertex[a] = newVertex[c] \/ newVertex[a] = newVertex[d]
              /\ newVertex[b] = newVertex[c] \/ newVertex[b] = newVertex[d]
              /\ newVertex[c] = newVertex[a] \/ newVertex[c] = newVertex[b]
              /\ newVertex[d] = newVertex[a] \/ newVertex[d] = newVertex[b]
            BY <2>4
        <3>3. QED
            BY <3>1, <3>2
    <2>6. e = f
        BY <2>4, <2>5 DEF OneEdgePerPair
    <2>7. QED
        BY <2>1, <2>2, <2>6
<1>8. DOMAIN index = Range(h.vlabel)
    <2>1. DOMAIN h.vlabel = IndexRange(mv)
        BY <1>3 DEF Injection
    <2>2. Range(h.vlabel) = {g.vlabel[v] : v \in rest}
        BY <1>3, <2>1 DEF Range
    <2>3. QED
        BY <2>2
<1>9. \A k \in IndexRange(mv) : index[h.vlabel[k]] = k
    BY <1>3 DEF newVertex
<1>10. IsModel(h, index, me, mv)
    BY <1>1, <1>3, <1>7, <1>8, <1>9 DEF IsModel
<1>11. IsModelOfSomeSize(h, index)
    BY <1>1, <1>10, ModelOfSize
<1>12. \A e \in IndexRange(ne) : ~ EndsIn(g, e, D) =>
            TripleOf(h, newEdge[e]) = TripleOf(g, e)
    <2> SUFFICES ASSUME NEW e \in IndexRange(ne), ~ EndsIn(g, e, D)
                 PROVE  TripleOf(h, newEdge[e]) = TripleOf(g, e)
        OBVIOUS
    <2>1. /\ h.elabel[newEdge[e]] = g.elabel[e]
          /\ h.vlabel[h.edges[newEdge[e]][0]] = g.vlabel[g.edges[e][0]]
          /\ h.vlabel[h.edges[newEdge[e]][1]] = g.vlabel[g.edges[e][1]]
        <3> DEFINE x == g.edges[e][0]
                   y == g.edges[e][1]
        <3>1. /\ h.elabel[newEdge[e]] = g.elabel[e]
              /\ x \in rest /\ h.edges[newEdge[e]][0] = newVertex[x]
              /\ y \in rest /\ h.edges[newEdge[e]][1] = newVertex[y]
            BY <1>4, <1>5
        <3> HIDE DEF x, y, rest
        <3>2. /\ h.vlabel[newVertex[x]] = g.vlabel[x]
              /\ h.vlabel[newVertex[y]] = g.vlabel[y]
            BY <1>3, <3>1
        <3>3. QED
            BY <3>1, <3>2 DEF x, y
    <2>2. QED
        BY <2>1 DEF TripleOf
<1>13. TriplesOf(h) = TriplesWithout(g, ne, D)
    <2>1. GraphEdges(h) = IndexRange(me)
        BY <1>1, <1>10, PartsOfModel
    <2>2. ASSUME NEW e \in IndexRange(ne), ~ EndsIn(g, e, D)
          PROVE  TripleOf(g, e) \in TriplesOf(h)
        BY <1>4, <1>12, <2>1, <2>2 DEF TriplesOf
    <2>3. ASSUME NEW k \in IndexRange(me)
          PROVE  TripleOf(h, k) \in TriplesWithout(g, ne, D)
        <3>1. PICK e \in IndexRange(ne) : ~ EndsIn(g, e, D) /\ newEdge[e] = k
            BY <1>4
        <3>2. TripleOf(h, k) = TripleOf(g, e)
            BY <1>12, <3>1
        <3>3. QED
            BY <3>1, <3>2 DEF TriplesWithout
    <2>4. QED
        BY <2>1, <2>2, <2>3 DEF TriplesOf, TriplesWithout
<1>14. QED
    BY <1>11, <1>13 DEF h

-----------------------------------------------------------------------------
\* The state t has the edges of s, the vertices of s, and those of C besides.
AddsComponents(s, t, nv, mv, C) ==
    /\ mv \in Nat
    /\ IndexRange(nv) \subseteq IndexRange(mv)
    /\ t.g.edges = s.g.edges
    /\ TriplesOf(t.g) = TriplesOf(s.g)
    /\ DOMAIN t.index = DOMAIN s.index \cup C
    /\ \A v \in IndexRange(nv) : t.g.vlabel[v] = s.g.vlabel[v]

\* find_or_create_vertex_id() registers a component and leaves the rest.
LEMMA FoundOrCreated ==
    ASSUME NEW ne \in Nat, NEW nv \in Nat, NEW s, IsModel(s.g, s.index, ne, nv),
           NEW c \in Components
    PROVE  LET t == FindOrCreate(s, c)
           IN  \E mv : /\ AddsComponents(s, t, nv, mv, {c})
                       /\ IsModel(t.g, t.index, ne, mv)
<1> DEFINE t == FindOrCreate(s, c)
           g == s.g
           index == s.index
           h == CreateVertex(g, c)
           new == [d \in DOMAIN index \cup {c} |->
                        IF d = c THEN NbVertices(g) ELSE index[d]]
<1>1. CASE c \in DOMAIN index
    <2>1. t = s
        BY <1>1 DEF FindOrCreate
    <2>2. DOMAIN index = DOMAIN index \cup {c}
        BY <1>1
    <2>3. AddsComponents(s, s, nv, nv, {c})
        BY <2>2 DEF AddsComponents
    <2> HIDE DEF t
    <2>4. QED
        BY <2>1, <2>3 DEF t
<1>2. CASE c \notin DOMAIN index
    <2>1. t = [g |-> h, index |-> new]
        BY <1>2 DEF FindOrCreate
    <2>2. t.g = h /\ t.index = new
        BY <2>1
    <2>3. /\ g \in DualGraphs(ne, nv, RelationTypes, Components)
          /\ EndsSet(g, ne)
          /\ OneEdgePerPair(g, ne)
          /\ g.vlabel \in Injection(IndexRange(nv), Components)
          /\ DOMAIN g.vlabel = IndexRange(nv)
          /\ \A e \in IndexRange(ne), side \in Sides :
                g.edges[e][side] \in IndexRange(nv)
          /\ NbVertices(g) = nv
          /\ GraphEdges(g) = IndexRange(ne)
        <3> HIDE DEF g
        <3>1. QED
            BY PartsOfModel DEF g
    <2>4. DOMAIN index = Range(g.vlabel)
          /\ \A v \in IndexRange(nv) : index[g.vlabel[v]] = v
        BY DEF IsModel
    <2> HIDE DEF g, index
    <2>5. /\ h \in DualGraphs(ne, nv + 1, RelationTypes, Components)
          /\ h.edges = g.edges
          /\ h.elabel = g.elabel
          /\ h.vlabel = AppendElement(g.vlabel, c)
        BY <2>3, CreatedVertex
    <2> HIDE DEF h
    <2>6. /\ DOMAIN h.vlabel = IndexRange(nv + 1)
          /\ h.vlabel[nv] = c
          /\ \A v \in IndexRange(nv) : h.vlabel[v] = g.vlabel[v]
          /\ IndexRange(nv + 1) = IndexRange(nv) \cup {nv}
        BY <2>3, <2>5, AppendedVector
    <2>7. \A v \in IndexRange(nv) : g.vlabel[v] \in DOMAIN index
                                    /\ g.vlabel[v] # c
        BY <1>2, <2>3, <2>4 DEF Range
    <2>8. h.vlabel \in Injection(IndexRange(nv + 1), Components)
        BY <2>3, <2>5, <2>7, AppendedNames
    <2>9. EndsSet(h, ne) /\ OneEdgePerPair(h, ne)
        BY <2>3, <2>5 DEF EndsSet, OneEdgePerPair, VertexAt
    <2>10. DOMAIN new = Range(h.vlabel)
        <3>1. Range(h.vlabel) = Range(g.vlabel) \cup {c}
            BY <2>3, <2>6 DEF Range
        <3>2. QED
            BY <2>4, <3>1
    <2>11. ASSUME NEW v \in IndexRange(nv + 1)
           PROVE  new[h.vlabel[v]] = v
        <3>1. CASE v \in IndexRange(nv)
            BY <2>4, <2>6, <2>7, <3>1
        <3>2. CASE v = nv
            BY <2>3, <2>6, <3>2
        <3>3. QED
            BY <2>6, <3>1, <3>2
    <2>12. DOMAIN new = DOMAIN index \cup {c}
        OBVIOUS
    <2> HIDE DEF new
    <2>13. IsModel(h, new, ne, nv + 1)
        BY <2>5, <2>8, <2>9, <2>10, <2>11 DEF IsModel
    <2>14. TriplesOf(h) = TriplesOf(g)
        <3>1. GraphEdges(h) = IndexRange(ne)
            BY <2>13, PartsOfModel
        <3>2. \A e \in IndexRange(ne) : TripleOf(h, e) = TripleOf(g, e)
            BY <2>3, <2>5, <2>6 DEF TripleOf, Sides
        <3>3. QED
            BY <2>3, <3>1, <3>2 DEF TriplesOf
    <2>15. AddsComponents(s, t, nv, nv + 1, {c})
        BY <2>2, <2>5, <2>6, <2>12, <2>14 DEF AddsComponents, g, index
    <2>16. IsModel(t.g, t.index, ne, nv + 1)
        BY <2>2, <2>13
    <2> HIDE DEF t
    <2>17. QED
        BY <2>15, <2>16 DEF t
<1>3. QED
    BY <1>1, <1>2

\* An edge that is created between two vertices that have none.
LEMMA JoinedVertices ==
    ASSUME NEW ne \in Nat, NEW nv \in Nat, NEW g, NEW index,
           IsModel(g, index, ne, nv),
           NEW v0 \in IndexRange(nv), NEW v1 \in IndexRange(nv),
           NEW type \in RelationTypes,
           \A e \in IndexRange(ne) : ~ JoinsVertices(g, e, v0, v1)
    PROVE  LET h == CreateEdge(g, v0, v1, type)
           IN  /\ IsModelOfSomeSize(h, index)
               /\ TriplesOf(h) =
                    TriplesOf(g) \cup {<<g.vlabel[v0], g.vlabel[v1], type>>}
<1> DEFINE h == CreateEdge(g, v0, v1, type)
           joined == Joining(v0, v1)
<1>1. /\ g \in DualGraphs(ne, nv, RelationTypes, Components)
      /\ OneEdgePerPair(g, ne)
      /\ g.vlabel \in Injection(IndexRange(nv), Components)
      /\ \A e \in IndexRange(ne), side \in Sides :
            g.edges[e][side] \in IndexRange(nv)
      /\ GraphEdges(g) = IndexRange(ne)
    BY PartsOfModel
<1>2. DOMAIN g.edges = IndexRange(ne) /\ DOMAIN g.elabel = IndexRange(ne)
    BY <1>1 DEF DualGraphs, GraphsOf
<1>3. DOMAIN index = Range(g.vlabel)
      /\ \A v \in IndexRange(nv) : index[g.vlabel[v]] = v
    BY DEF IsModel
<1>4. /\ h \in DualGraphs(ne + 1, nv, RelationTypes, Components)
      /\ h.edges = AppendElement(g.edges, joined)
      /\ h.elabel = AppendElement(g.elabel, type)
      /\ h.vlabel = g.vlabel
    BY <1>1, CreatedEdge
<1>5. DOMAIN joined = Sides /\ joined[0] = v0 /\ joined[1] = v1
    BY DEF Joining, Sides
<1> HIDE DEF h, joined
<1>6. /\ \A e \in IndexRange(ne) : h.edges[e] = g.edges[e]
      /\ h.edges[ne] = joined
      /\ IndexRange(ne + 1) = IndexRange(ne) \cup {ne}
    BY <1>2, <1>4, AppendedVector
<1>7. /\ \A e \in IndexRange(ne) : h.elabel[e] = g.elabel[e]
      /\ h.elabel[ne] = type
    BY <1>2, <1>4, AppendedVector
<1>8. Range(joined) = {v0, v1}
    BY <1>5 DEF Range, Sides
<1>9. OneEdgePerPair(h, ne + 1)
    <2>1. ASSUME NEW e \in IndexRange(ne + 1), NEW f \in IndexRange(ne + 1),
                 Range(h.edges[e]) = Range(h.edges[f])
          PROVE  e = f
        <3>1. CASE e \in IndexRange(ne) /\ f \in IndexRange(ne)
            BY <1>1, <1>6, <2>1, <3>1 DEF OneEdgePerPair
        <3>2. CASE e = ne /\ f \in IndexRange(ne)
            BY <1>6, <1>8, <2>1, <3>2 DEF JoinsVertices
        <3>3. CASE e \in IndexRange(ne) /\ f = ne
            BY <1>6, <1>8, <2>1, <3>3 DEF JoinsVertices
        <3>4. QED
            BY <1>6, <3>1, <3>2, <3>3
    <2>2. QED
        BY <2>1 DEF OneEdgePerPair
<1>10. EndsSet(h, ne + 1)
    <2> SUFFICES ASSUME NEW x \in IndexRange(ne + 1) \X Sides
                 PROVE  VertexAt(h, x) # NoId
        BY DEF EndsSet
    <2>1. x[1] \in IndexRange(ne) \cup {ne} /\ x[2] \in {0, 1}
        BY <1>6 DEF Sides
    <2>2. VertexAt(h, x) \in IndexRange(nv)
        BY <1>1, <1>5, <1>6, <2>1 DEF VertexAt, Sides
    <2>3. QED
        BY <2>2 DEF IndexRange, NoId
<1>11. IsModel(h, index, ne + 1, nv)
    BY <1>1, <1>3, <1>4, <1>9, <1>10 DEF IsModel
<1>12. IsModelOfSomeSize(h, index) /\ GraphEdges(h) = IndexRange(ne + 1)
    BY <1>11, ModelOfSize, PartsOfModel
<1>13. /\ \A e \in IndexRange(ne) : TripleOf(h, e) = TripleOf(g, e)
       /\ TripleOf(h, ne) = <<g.vlabel[v0], g.vlabel[v1], type>>
    BY <1>4, <1>5, <1>6, <1>7 DEF TripleOf
<1>14. TriplesOf(h) = TriplesOf(g) \cup {<<g.vlabel[v0], g.vlabel[v1], type>>}
    BY <1>1, <1>6, <1>12, <1>13 DEF TriplesOf
<1>15. QED
    BY <1>12, <1>14 DEF h

\* Deleting edges removes their triples.
LEMMA DroppedEdges ==
    ASSUME NEW ne \in Nat, NEW nv \in Nat, NEW g, NEW index,
           IsModel(g, index, ne, nv), NEW D
    PROVE  LET h == DeleteEdges(g, D)
           IN  /\ IsModelOfSomeSize(h, index)
               /\ TriplesOf(h) = {TripleOf(g, e) : e \in IndexRange(ne) \ D}
<1> DEFINE h == DeleteEdges(g, D)
           me == NbKept(ne, D)
           newEdge == MappingAfterDeletion(ne, D)
<1>1. /\ g \in DualGraphs(ne, nv, RelationTypes, Components)
      /\ OneEdgePerPair(g, ne)
      /\ g.vlabel \in Injection(IndexRange(nv), Components)
      /\ \A e \in IndexRange(ne), side \in Sides :
            g.edges[e][side] \in IndexRange(nv)
    BY PartsOfModel
<1>2. DOMAIN g.edges = IndexRange(ne) /\ DOMAIN g.elabel = IndexRange(ne)
    BY <1>1 DEF DualGraphs, GraphsOf
<1>3. DOMAIN index = Range(g.vlabel)
      /\ \A v \in IndexRange(nv) : index[g.vlabel[v]] = v
    BY DEF IsModel
<1>4. /\ me \in Nat
      /\ h \in DualGraphs(me, nv, RelationTypes, Components)
      /\ h.edges = DeleteElements(g.edges, D)
      /\ h.elabel = DeleteElements(g.elabel, D)
      /\ h.vlabel = g.vlabel
    BY <1>1, DeletedEdges
<1>5. /\ \A e \in IndexRange(ne) \ D :
            /\ newEdge[e] \in IndexRange(me)
            /\ h.edges[newEdge[e]] = g.edges[e]
            /\ h.elabel[newEdge[e]] = g.elabel[e]
      /\ \A k \in IndexRange(me) : \E e \in IndexRange(ne) \ D : newEdge[e] = k
    <2> DEFINE edges == g.edges
               elabel == g.elabel
               kept == IndexRange(ne) \ D
    <2>1. DOMAIN edges = IndexRange(ne) /\ DOMAIN elabel = IndexRange(ne)
        BY <1>2
    <2> HIDE DEF edges, elabel
    <2>2. \A e \in kept : /\ newEdge[e] \in IndexRange(Cardinality(kept))
                          /\ DeleteElements(edges, D)[newEdge[e]] = edges[e]
                          /\ DeleteElements(elabel, D)[newEdge[e]] = elabel[e]
        BY <2>1, MappingIsOneToOne, DeletedVectorFollowsMapping
    <2>3. \A k \in IndexRange(Cardinality(kept)) : \E e \in kept :
                newEdge[e] = k
        BY <2>1, DeletedVectorComesFromKept
    <2>4. me = Cardinality(kept)
        BY DEF NbKept
    <2> HIDE DEF newEdge, me, h
    <2>5. QED
        BY <1>4, <2>2, <2>3, <2>4 DEF edges, elabel
<1> HIDE DEF h, me, newEdge
<1>6. EndsSet(h, me)
    <2> SUFFICES ASSUME NEW x \in IndexRange(me) \X Sides
                 PROVE  VertexAt(h, x) # NoId
        BY DEF EndsSet
    <2>1. VertexAt(h, x) \in IndexRange(nv)
        BY <1>1, <1>5 DEF VertexAt
    <2>2. QED
        BY <2>1 DEF IndexRange, NoId
<1>7. OneEdgePerPair(h, me)
    BY <1>1, <1>5 DEF OneEdgePerPair
<1>8. IsModel(h, index, me, nv)
    BY <1>1, <1>3, <1>4, <1>6, <1>7 DEF IsModel
<1>9. IsModelOfSomeSize(h, index) /\ GraphEdges(h) = IndexRange(me)
    BY <1>4, <1>8, ModelOfSize, PartsOfModel
<1>10. \A e \in IndexRange(ne) \ D : TripleOf(h, newEdge[e]) = TripleOf(g, e)
    BY <1>4, <1>5 DEF TripleOf
<1>11. TriplesOf(h) = {TripleOf(g, e) : e \in IndexRange(ne) \ D}
    BY <1>5, <1>9, <1>10 DEF TriplesOf
<1>12. QED
    BY <1>9, <1>11 DEF h

-----------------------------------------------------------------------------
\* The edge joins the two components, in any direction.
Joins(g, e, c, d) ==
    {g.vlabel[g.edges[e][0]], g.vlabel[g.edges[e][1]]} = {c, d}

\* relation_edge_index() finds the one edge that joins two components.
LEMMA EdgeOfPair ==
    ASSUME NEW ne \in Nat, NEW nv \in Nat,
           IsModel(graph, uuid2index, ne, nv),
           NEW c \in Components, NEW d \in Components
    PROVE  LET found == EdgeBetween(c, d)
           IN  /\ found # NoId => found \in IndexRange(ne)
               /\ found # NoId => \A e \in IndexRange(ne) :
                                    Joins(graph, e, c, d) <=> e = found
               /\ found = NoId => \A e \in IndexRange(ne) :
                                    ~ Joins(graph, e, c, d)
<1> DEFINE index == uuid2index
           vlabel == graph.vlabel
           edges == graph.edges
           v0 == index[c]
           v1 == index[d]
           found == EdgeBetween(c, d)
<1>1. /\ graph \in DualGraphs(ne, nv, RelationTypes, Components)
      /\ OneEdgePerPair(graph, ne)
      /\ \A e \in IndexRange(ne) :
            /\ edges[e][0] \in IndexRange(nv)
            /\ edges[e][1] \in IndexRange(nv)
            /\ Range(edges[e]) = EndsOf(edges[e])
      /\ DOMAIN vlabel = IndexRange(nv)
    <2>1. 0 \in Sides /\ 1 \in Sides
        BY DEF Sides
    <2>2. /\ graph \in DualGraphs(ne, nv, RelationTypes, Components)
          /\ OneEdgePerPair(graph, ne)
          /\ \A e \in IndexRange(ne), side \in Sides :
                edges[e][side] \in IndexRange(nv)
          /\ \A e \in IndexRange(ne) : Range(edges[e]) = EndsOf(edges[e])
          /\ vlabel \in [IndexRange(nv) -> Components]
        BY PartsOfModel
    <2>3. QED
        BY <2>1, <2>2
<1>2. /\ \A v \in IndexRange(nv) : /\ vlabel[v] \in DOMAIN index
                                   /\ index[vlabel[v]] = v
      /\ \A b \in DOMAIN index : /\ index[b] \in IndexRange(nv)
                                 /\ vlabel[index[b]] = b
    <2>1. /\ DOMAIN index = {vlabel[v] : v \in IndexRange(nv)}
          /\ \A v \in IndexRange(nv) : index[vlabel[v]] = v
        BY <1>1 DEF IsModel, Range
    <2> HIDE DEF index, vlabel
    <2>2. QED
        BY <2>1
<1>3. ASSUME NEW e \in IndexRange(ne), Joins(graph, e, c, d)
      PROVE  {c, d} \subseteq DOMAIN index
    BY <1>1, <1>2, <1>3 DEF Joins
<1>4. ASSUME NEW e \in IndexRange(ne), {c, d} \subseteq DOMAIN index
      PROVE  Joins(graph, e, c, d) <=> Range(edges[e]) = {v0, v1}
    <2> DEFINE x == edges[e][0]
               y == edges[e][1]
    <2>1. /\ Range(edges[e]) = {x, y}
          /\ x \in IndexRange(nv) /\ y \in IndexRange(nv)
        BY <1>1 DEF EndsOf
    <2>2. /\ vlabel[x] = c <=> x = v0
          /\ vlabel[x] = d <=> x = v1
          /\ vlabel[y] = c <=> y = v0
          /\ vlabel[y] = d <=> y = v1
        <3> HIDE DEF x, y, index, vlabel
        <3>1. QED
            BY <1>2, <1>4, <2>1
    <2>3. Joins(graph, e, c, d) <=> {vlabel[x], vlabel[y]} = {c, d}
        BY DEF Joins
    <2>4. {vlabel[x], vlabel[y]} = {c, d} <=> {x, y} = {v0, v1}
        <3> HIDE DEF x, y, index, vlabel, v0, v1
        <3>1. QED
            BY <2>2
    <2>5. QED
        BY <2>1, <2>3, <2>4
<1>5. CASE ~ ({c, d} \subseteq DOMAIN index)
    <2>1. found = NoId
        BY <1>5 DEF EdgeBetween
    <2>2. QED
        BY <1>3, <1>5, <2>1
<1>6. CASE {c, d} \subseteq DOMAIN index
    <2>1. found = EdgeFromVertices(graph, v0, v1)
        BY <1>6 DEF EdgeBetween
    <2>2. v0 \in IndexRange(nv) /\ v1 \in IndexRange(nv)
        BY <1>2, <1>6
    <2>3. /\ found # NoId => /\ found \in IndexRange(ne)
                             /\ Range(edges[found]) = {v0, v1}
          /\ found = NoId => \A e \in IndexRange(ne) :
                                Range(edges[e]) # {v0, v1}
        <3> DEFINE first == EdgeFromVertices(graph, v0, v1)
        <3> HIDE DEF v0, v1
        <3>1. /\ first # NoId => /\ first \in IndexRange(ne)
                                 /\ JoinsVertices(graph, first, v0, v1)
              /\ first = NoId => \A e \in IndexRange(ne) :
                                   ~ JoinsVertices(graph, e, v0, v1)
            BY <1>1, <2>2, EdgeFound
        <3>2. found = first
            BY <2>1
        <3> HIDE DEF first, found
        <3>3. QED
            BY <3>1, <3>2 DEF JoinsVertices
    <2>4. ASSUME found # NoId, NEW e \in IndexRange(ne),
                 Joins(graph, e, c, d)
          PROVE  e = found
        <3>1. Range(edges[e]) = {v0, v1}
            BY <1>4, <1>6, <2>4
        <3> HIDE DEF found
        <3>2. QED
            BY <1>1, <2>3, <2>4, <3>1 DEF OneEdgePerPair
    <2>5. found # NoId => Joins(graph, found, c, d)
        <3> HIDE DEF found
        <3>1. QED
            BY <1>4, <1>6, <2>3
    <2>6. found = NoId => \A e \in IndexRange(ne) : ~ Joins(graph, e, c, d)
        <3> HIDE DEF found
        <3>1. QED
            BY <1>4, <1>6, <2>3
    <2>7. QED
        BY <2>3, <2>4, <2>5, <2>6
<1>7. QED
    BY <1>5, <1>6

\* The relations of the abstract specification are the triples of the graph.
LEMMA TriplesAreRelations ==
    /\ RelationTriples = TriplesOf(graph)
    /\ RelationTriples' = TriplesOf(graph')
<1>1. \A g : \A e : /\ VertexAt(g, <<e, 0>>) = g.edges[e][0]
                    /\ VertexAt(g, <<e, 1>>) = g.edges[e][1]
    BY DEF VertexAt
<1>2. RelationTriples = TriplesOf(graph)
    BY <1>1 DEF RelationTriples, TriplesOf, TripleOf
<1>3. RelationTriples' = TriplesOf(graph')
    BY <1>1 DEF RelationTriples, TriplesOf, TripleOf
<1>4. QED
    BY <1>2, <1>3

\* The relations between two components are those of the edges that join them.
LEMMA BetweenIsJoined ==
    ASSUME NEW ne \in Nat, NEW nv \in Nat,
           IsModel(graph, uuid2index, ne, nv), NEW c, NEW d
    PROVE  Abstract!Between(c, d) =
            {TripleOf(graph, e) : e \in {f \in IndexRange(ne) :
                                            Joins(graph, f, c, d)}}
<1>1. TriplesOf(graph) = {TripleOf(graph, e) : e \in IndexRange(ne)}
    <2>1. GraphEdges(graph) = IndexRange(ne)
        BY PartsOfModel
    <2>2. QED
        BY <2>1 DEF TriplesOf
<1>2. \A e : <<TripleOf(graph, e)[1], TripleOf(graph, e)[2]>>
                    \in {<<c, d>>, <<d, c>>}
                <=> Joins(graph, e, c, d)
    BY DEF TripleOf, Joins
<1>3. Abstract!Between(c, d) =
        {r \in TriplesOf(graph) : <<r[1], r[2]>> \in {<<c, d>>, <<d, c>>}}
    BY TriplesAreRelations DEF Abstract!Between
<1>4. QED
    BY <1>1, <1>2, <1>3

-----------------------------------------------------------------------------
\* An empty graph is one of a model without components.
LEMMA InitIsModel == Init => IInv
<1> SUFFICES ASSUME Init
             PROVE  IInv
    OBVIOUS
<1>1. graph = EmptyGraph /\ uuid2index = <<>>
    BY DEF Init
<1>2. IndexRange(0) = {}
    BY DEF IndexRange
<1>3. /\ graph.edges = [e \in IndexRange(0) |-> 0]
      /\ graph.elabel = [e \in IndexRange(0) |-> 0]
      /\ graph.around = [v \in IndexRange(0) |-> 0]
      /\ graph.vlabel = [v \in IndexRange(0) |-> 0]
      /\ uuid2index = [c \in {} |-> 0]
      /\ graph = [edges |-> graph.edges, elabel |-> graph.elabel,
                  around |-> graph.around, vlabel |-> graph.vlabel]
    BY <1>1, <1>2 DEF EmptyGraph
<1>4. /\ graph.edges \in [IndexRange(0) -> [Sides -> Ends(0)]]
      /\ graph.elabel \in [IndexRange(0) -> RelationTypes]
      /\ graph.around \in [IndexRange(0) -> Seq(IndexRange(0) \X Sides)]
      /\ graph.vlabel \in [IndexRange(0) -> Components]
      /\ DOMAIN graph.vlabel = {}
      /\ DOMAIN uuid2index = {}
    BY <1>2, <1>3
<1>5. graph \in DualGraphs(0, 0, RelationTypes, Components)
    <2>1. graph \in GraphsOf(0, 0, Ends(0), RelationTypes, Components)
        BY <1>3, <1>4 DEF GraphsOf
    <2>2. ListsFollowEdges(graph, 0, 0)
        BY <1>2 DEF ListsFollowEdges
    <2>3. QED
        BY <2>1, <2>2 DEF DualGraphs
<1>6. EndsSet(graph, 0) /\ OneEdgePerPair(graph, 0)
    BY <1>2 DEF EndsSet, OneEdgePerPair
<1>7. graph.vlabel \in Injection(IndexRange(0), Components)
    BY <1>4 DEF Injection, IsInjective
<1>8. /\ DOMAIN uuid2index = Range(graph.vlabel)
      /\ \A v \in IndexRange(0) : uuid2index[graph.vlabel[v]] = v
    BY <1>2, <1>4 DEF Range
<1>9. IsModel(graph, uuid2index, 0, 0)
    BY <1>5, <1>6, <1>7, <1>8 DEF IsModel
<1>10. QED
    BY <1>9, ModelOfSize DEF IInv

\* add_relation() adds the relation that is asked for.
LEMMA AddIsSeen ==
    ASSUME NEW ne \in Nat, NEW nv \in Nat,
           IsModel(graph, uuid2index, ne, nv),
           NEW from \in Components, NEW to \in Components,
           NEW type \in RelationTypes, AddRelation(from, to, type)
    PROVE  IInv' /\ Abstract!Add(from, to, type)
<1>1. EdgeBetween(from, to) = NoId
    BY DEF AddRelation
<1>2. \A e \in IndexRange(ne) : ~ Joins(graph, e, from, to)
    BY <1>1, EdgeOfPair
<1> DEFINE s0 == [g |-> graph, index |-> uuid2index]
<1>3. PICK order \in {<<from, to>>, <<to, from>>} :
        LET s == FindOrCreate(FindOrCreate(s0, order[1]), order[2])
        IN  /\ graph' = CreateEdge(s.g, s.index[from], s.index[to], type)
            /\ uuid2index' = s.index
    BY DEF AddRelation
<1> DEFINE c == order[1]
           d == order[2]
           s1 == FindOrCreate(s0, c)
           s2 == FindOrCreate(s1, d)
<1>4. c \in Components /\ d \in Components /\ {c, d} = {from, to}
    BY <1>3
<1>5. /\ s0.g = graph /\ s0.index = uuid2index
      /\ IsModel(s0.g, s0.index, ne, nv)
    OBVIOUS
<1>6. PICK n1 : AddsComponents(s0, s1, nv, n1, {c})
                /\ IsModel(s1.g, s1.index, ne, n1)
    <2> HIDE DEF s0, c
    <2>1. QED
        BY <1>4, <1>5, FoundOrCreated
<1>7. n1 \in Nat
    BY <1>6 DEF AddsComponents
<1>8. PICK n2 : AddsComponents(s1, s2, n1, n2, {d})
                /\ IsModel(s2.g, s2.index, ne, n2)
    <2> HIDE DEF s1, d
    <2>1. QED
        BY <1>4, <1>6, <1>7, FoundOrCreated
<1> DEFINE v0 == s2.index[from]
           v1 == s2.index[to]
           g == s2.g
           index == s2.index
<1>9. graph' = CreateEdge(g, v0, v1, type) /\ uuid2index' = index
    BY <1>3
<1> HIDE DEF s0, s1, s2, c, d
<1>10. /\ n2 \in Nat
       /\ IndexRange(nv) \subseteq IndexRange(n2)
       /\ g.edges = graph.edges
       /\ TriplesOf(g) = TriplesOf(graph)
       /\ DOMAIN index = DOMAIN uuid2index \cup {from, to}
       /\ \A v \in IndexRange(nv) : g.vlabel[v] = graph.vlabel[v]
    BY <1>4, <1>5, <1>6, <1>8 DEF AddsComponents
<1>11. IsModel(g, index, ne, n2)
    BY <1>8
<1> HIDE DEF g, index, v0, v1
<1>12. /\ \A e \in IndexRange(ne), side \in Sides :
            graph.edges[e][side] \in IndexRange(nv)
       /\ \A e \in IndexRange(ne) :
            Range(graph.edges[e]) = EndsOf(graph.edges[e])
    BY PartsOfModel
<1>13. g.vlabel \in [IndexRange(n2) -> Components]
    BY <1>10, <1>11, PartsOfModel
<1>14. /\ v0 \in IndexRange(n2) /\ g.vlabel[v0] = from
       /\ v1 \in IndexRange(n2) /\ g.vlabel[v1] = to
    <2>1. DOMAIN index = Range(g.vlabel)
          /\ \A v \in IndexRange(n2) : index[g.vlabel[v]] = v
        BY <1>11 DEF IsModel
    <2>2. v0 = index[from] /\ v1 = index[to]
        BY DEF v0, v1, index
    <2>3. from \in Range(g.vlabel) /\ to \in Range(g.vlabel)
        BY <1>10, <2>1
    <2>4. QED
        BY <1>13, <2>1, <2>2, <2>3 DEF Range
<1>15. ASSUME NEW e \in IndexRange(ne), JoinsVertices(g, e, v0, v1)
       PROVE  FALSE
    <2> DEFINE x == graph.edges[e][0]
               y == graph.edges[e][1]
    <2>1. x \in IndexRange(nv) /\ y \in IndexRange(nv)
        BY <1>12 DEF Sides
    <2>2. {x, y} = {v0, v1}
        BY <1>10, <1>12, <1>15 DEF EndsOf, JoinsVertices
    <2> HIDE DEF x, y
    <2>3. {g.vlabel[x], g.vlabel[y]} = {from, to}
        BY <1>14, <2>2
    <2>4. {graph.vlabel[x], graph.vlabel[y]} = {from, to}
        BY <1>10, <2>1, <2>3
    <2>5. Joins(graph, e, from, to)
        BY <2>4 DEF Joins, x, y
    <2>6. QED
        BY <1>2, <2>5
<1>16. /\ IsModelOfSomeSize(graph', uuid2index')
       /\ TriplesOf(graph') = TriplesOf(g) \cup {<<from, to, type>>}
    BY <1>9, <1>10, <1>11, <1>14, <1>15, JoinedVertices
<1>17. IInv'
    BY <1>16 DEF IInv
<1>18. Abstract!Between(from, to) = {}
    <2>1. {f \in IndexRange(ne) : Joins(graph, f, from, to)} = {}
        BY <1>2
    <2>2. QED
        BY <2>1, BetweenIsJoined
<1>19. Abstract!Add(from, to, type)
    <2>1. DOMAIN uuid2index' = DOMAIN uuid2index \cup {from, to}
        BY <1>9, <1>10
    <2>2. RelationTriples' = RelationTriples \cup {<<from, to, type>>}
        BY <1>10, <1>16, TriplesAreRelations
    <2>3. QED
        BY <1>18, <2>1, <2>2 DEF Abstract!Add
<1>20. QED
    BY <1>17, <1>19

\* remove_relation() removes the relation between the two and no other.
LEMMA RemoveIsSeen ==
    ASSUME NEW ne \in Nat, NEW nv \in Nat,
           IsModel(graph, uuid2index, ne, nv),
           NEW c \in Components, NEW d \in Components, RemoveRelation(c, d)
    PROVE  IInv' /\ Abstract!RemoveRelation(c, d)
<1> DEFINE found == EdgeBetween(c, d)
           rest == IndexRange(ne) \ {found}
<1>1. /\ found # NoId
      /\ graph' = DeleteEdges(graph, {found})
      /\ uuid2index' = uuid2index
    BY DEF RemoveRelation
<1>2. \A e \in IndexRange(ne) : Joins(graph, e, c, d) <=> e = found
    BY <1>1, EdgeOfPair
<1> HIDE DEF found
<1>3. /\ IsModelOfSomeSize(graph', uuid2index')
      /\ TriplesOf(graph') = {TripleOf(graph, e) : e \in rest}
    BY <1>1, DroppedEdges
<1>4. TriplesOf(graph) = {TripleOf(graph, e) : e \in IndexRange(ne)}
    <2>1. GraphEdges(graph) = IndexRange(ne)
        BY PartsOfModel
    <2>2. QED
        BY <2>1 DEF TriplesOf
<1> DEFINE between == Abstract!Between(c, d)
<1>5. \A e \in IndexRange(ne) :
            TripleOf(graph, e) \in between <=> Joins(graph, e, c, d)
    <2>1. \A e : <<TripleOf(graph, e)[1], TripleOf(graph, e)[2]>>
                        \in {<<c, d>>, <<d, c>>}
                    <=> Joins(graph, e, c, d)
        BY DEF TripleOf, Joins
    <2>2. \A r : r \in between <=>
            r \in TriplesOf(graph) /\ <<r[1], r[2]>> \in {<<c, d>>, <<d, c>>}
        BY TriplesAreRelations DEF Abstract!Between
    <2>3. QED
        BY <1>4, <2>1, <2>2
<1> HIDE DEF between
<1>6. {TripleOf(graph, e) : e \in rest} = TriplesOf(graph) \ between
    BY <1>2, <1>4, <1>5
<1>7. RelationTriples' = RelationTriples \ between
    BY <1>3, <1>6, TriplesAreRelations
<1>8. Abstract!RemoveRelation(c, d)
    BY <1>1, <1>7 DEF Abstract!RemoveRelation, between
<1>9. QED
    BY <1>3, <1>8 DEF IInv

\* Deleting vertices removes their components and the relations of these.
LEMMA DropIsSeen ==
    ASSUME NEW ne \in Nat, NEW nv \in Nat,
           IsModel(graph, uuid2index, ne, nv),
           NEW D, D \subseteq IndexRange(nv), NEW kept,
           kept = {c \in DOMAIN uuid2index : uuid2index[c] \notin D},
           DropVertices(D, kept)
    PROVE  /\ IInv'
           /\ DOMAIN uuid2index' = kept
           /\ RelationTriples' = TriplesWithout(graph, ne, D)
<1> DEFINE newIndex == [c \in kept |->
                           MappingAfterDeletion(nv, D)[uuid2index[c]]]
<1>1. /\ graph \in DualGraphs(ne, nv, RelationTypes, Components)
      /\ EndsSet(graph, ne)
      /\ OneEdgePerPair(graph, ne)
      /\ graph.vlabel \in Injection(IndexRange(nv), Components)
      /\ NbVertices(graph) = nv
    BY PartsOfModel
<1>2. /\ graph' = WithoutVertices(graph, D)
      /\ uuid2index' = newIndex
    BY <1>1 DEF DropVertices, UpdateIndex
<1> DEFINE vlabel == graph.vlabel
           index == uuid2index
           rest == IndexRange(nv) \ D
<1>3. /\ DOMAIN vlabel = IndexRange(nv)
      /\ \A v, w \in IndexRange(nv) : vlabel[v] = vlabel[w] => v = w
    BY <1>1 DEF Injection, IsInjective
<1>4. /\ DOMAIN index = Range(vlabel)
      /\ \A v \in IndexRange(nv) : index[vlabel[v]] = v
    BY DEF IsModel
<1>5. kept = {vlabel[v] : v \in rest}
    <2> HIDE DEF vlabel
    <2>1. DOMAIN index = {vlabel[v] : v \in IndexRange(nv)}
        BY <1>3, <1>4 DEF Range
    <2>2. QED
        BY <1>4, <2>1
<1>6. \A v \in rest : newIndex[vlabel[v]] = MappingAfterDeletion(nv, D)[v]
    <2> HIDE DEF vlabel
    <2>1. QED
        BY <1>4, <1>5
<1>7. DOMAIN newIndex = kept
    OBVIOUS
<1>8. /\ DOMAIN newIndex = {graph.vlabel[v] : v \in rest}
      /\ \A v, w \in rest : graph.vlabel[v] = graph.vlabel[w] => v = w
      /\ \A v \in rest :
            newIndex[graph.vlabel[v]] = MappingAfterDeletion(nv, D)[v]
    BY <1>3, <1>5, <1>6, <1>7
<1> HIDE DEF newIndex, vlabel
<1>9. /\ IsModelOfSomeSize(WithoutVertices(graph, D), newIndex)
      /\ TriplesOf(WithoutVertices(graph, D)) = TriplesWithout(graph, ne, D)
    BY <1>1, <1>8, RestOfModel
<1>10. /\ IsModelOfSomeSize(graph', uuid2index')
       /\ RelationTriples' = TriplesWithout(graph, ne, D)
    BY <1>2, <1>9, TriplesAreRelations
<1>11. QED
    BY <1>2, <1>7, <1>10 DEF IInv

\* remove_component() removes the component and its relations.
LEMMA RemoveComponentIsSeen ==
    ASSUME NEW ne \in Nat, NEW nv \in Nat,
           IsModel(graph, uuid2index, ne, nv),
           NEW c \in Components, RemoveComponent(c)
    PROVE  IInv' /\ Abstract!RemoveComponent(c)
<1> DEFINE index == uuid2index
           vlabel == graph.vlabel
           v == index[c]
           kept == DOMAIN index \ {c}
<1>1. c \in DOMAIN index /\ DropVertices({v}, kept)
    BY DEF RemoveComponent
<1>2. /\ DOMAIN vlabel = IndexRange(nv)
      /\ GraphEdges(graph) = IndexRange(ne)
      /\ \A e \in IndexRange(ne), side \in Sides :
            graph.edges[e][side] \in IndexRange(nv)
    <2>1. vlabel \in [IndexRange(nv) -> Components]
        BY PartsOfModel
    <2>2. QED
        BY <2>1, PartsOfModel
<1>3. /\ \A w \in IndexRange(nv) : /\ vlabel[w] \in DOMAIN index
                                   /\ index[vlabel[w]] = w
      /\ \A b \in DOMAIN index : /\ index[b] \in IndexRange(nv)
                                 /\ vlabel[index[b]] = b
    <2>1. /\ DOMAIN index = {vlabel[w] : w \in IndexRange(nv)}
          /\ \A w \in IndexRange(nv) : index[vlabel[w]] = w
        BY <1>2 DEF IsModel, Range
    <2> HIDE DEF index, vlabel
    <2>2. QED
        BY <2>1
<1>4. /\ v \in IndexRange(nv) /\ vlabel[v] = c
      /\ kept = {d \in DOMAIN index : index[d] \notin {v}}
    <2> HIDE DEF index, vlabel
    <2>1. QED
        BY <1>1, <1>3
<1>5. /\ IInv'
      /\ DOMAIN uuid2index' = kept
      /\ RelationTriples' = TriplesWithout(graph, ne, {v})
    <2> HIDE DEF kept, v
    <2>1. {v} \subseteq IndexRange(nv)
        BY <1>4
    <2>2. QED
        BY <1>1, <1>4, <2>1, DropIsSeen DEF index
<1>6. \A e \in IndexRange(ne) :
            EndsIn(graph, e, {v}) <=>
                c \in {TripleOf(graph, e)[1], TripleOf(graph, e)[2]}
    <2> SUFFICES ASSUME NEW e \in IndexRange(ne)
                 PROVE  EndsIn(graph, e, {v}) <=>
                            c \in {TripleOf(graph, e)[1], TripleOf(graph, e)[2]}
        OBVIOUS
    <2> DEFINE x == graph.edges[e][0]
               y == graph.edges[e][1]
    <2>1. /\ x \in IndexRange(nv) /\ y \in IndexRange(nv)
          /\ EndsIn(graph, e, {v}) <=> x = v \/ y = v
        BY <1>2 DEF EndsIn, Sides
    <2>2. TripleOf(graph, e)[1] = vlabel[x] /\ TripleOf(graph, e)[2] = vlabel[y]
        BY DEF TripleOf
    <2> HIDE DEF x, y, vlabel, v
    <2>3. /\ vlabel[x] = c <=> x = v
          /\ vlabel[y] = c <=> y = v
        <3> HIDE DEF index
        <3>1. QED
            BY <1>3, <1>4, <2>1
    <2>4. QED
        BY <2>1, <2>2, <2>3
<1>7. TriplesWithout(graph, ne, {v}) =
            {r \in RelationTriples : c \notin {r[1], r[2]}}
    <2>1. RelationTriples = {TripleOf(graph, e) : e \in IndexRange(ne)}
        BY <1>2, TriplesAreRelations DEF TriplesOf
    <2> HIDE DEF v
    <2>2. QED
        BY <1>6, <2>1 DEF TriplesWithout
<1>8. QED
    BY <1>5, <1>7 DEF Abstract!RemoveComponent

\* Saving and loading forget the components that are in no relation.
LEMMA SaveOrLoadIsSeen ==
    ASSUME NEW ne \in Nat, NEW nv \in Nat,
           IsModel(graph, uuid2index, ne, nv), SaveOrLoad
    PROVE  IInv' /\ Abstract!Prune
<1> DEFINE index == uuid2index
           vlabel == graph.vlabel
           D == IsolatedVertices(graph)
           kept == {c \in DOMAIN index : index[c] \notin D}
<1>1. DropVertices(D, kept)
    BY DEF SaveOrLoad
<1>2. /\ graph \in DualGraphs(ne, nv, RelationTypes, Components)
      /\ DOMAIN vlabel = IndexRange(nv)
      /\ GraphEdges(graph) = IndexRange(ne)
      /\ GraphVertices(graph) = IndexRange(nv)
      /\ \A e \in IndexRange(ne), side \in Sides :
            graph.edges[e][side] \in IndexRange(nv)
    <2>1. vlabel \in [IndexRange(nv) -> Components]
        BY PartsOfModel
    <2>2. QED
        BY <2>1, PartsOfModel
<1>3. \A v \in IndexRange(nv) :
        v \in D <=> ~ \E e \in IndexRange(ne), side \in Sides :
                        graph.edges[e][side] = v
    <2> SUFFICES ASSUME NEW v \in IndexRange(nv)
                 PROVE  v \in D <=> ~ \E e \in IndexRange(ne), side \in Sides :
                                        graph.edges[e][side] = v
        OBVIOUS
    <2> DEFINE S == IndexRange(ne) \X Sides
               list == graph.around[v]
    <2>1. /\ list \in Seq(S)
          /\ \A x : x \in ToSet(list) <=> x \in S /\ VertexAt(graph, x) = v
        BY <1>2 DEF DualGraphs, GraphsOf, ListsFollowEdges
    <2>2. list = <<>> <=> ToSet(list) = {}
        <3> HIDE DEF list, S
        <3>1. list = <<>> => ToSet(list) = {}
            BY DEF ToSet
        <3>2. ASSUME ToSet(list) = {}
              PROVE  list = <<>>
            <4>1. Len(list) = 0
                BY <2>1, <3>2, ElementOfSeq DEF ToSet
            <4>2. QED
                BY <2>1, <4>1, EmptySeq
        <3>3. QED
            BY <3>1, <3>2
    <2>3. v \in D <=> list = <<>>
        BY <1>2 DEF IsolatedVertices
    <2> HIDE DEF D, list
    <2>4. v \in D <=> \A x \in S : VertexAt(graph, x) # v
        BY <2>1, <2>2, <2>3
    <2>5. (\A x \in S : VertexAt(graph, x) # v) <=>
                ~ \E e \in IndexRange(ne), side \in Sides :
                    graph.edges[e][side] = v
        <3>1. ASSUME NEW x \in S, VertexAt(graph, x) = v
              PROVE  \E e \in IndexRange(ne), side \in Sides :
                        graph.edges[e][side] = v
            <4>1. x[1] \in IndexRange(ne) /\ x[2] \in Sides
                OBVIOUS
            <4>2. QED
                BY <3>1, <4>1 DEF VertexAt
        <3>2. ASSUME NEW e \in IndexRange(ne), NEW side \in Sides,
                     graph.edges[e][side] = v
              PROVE  \E x \in S : VertexAt(graph, x) = v
            <4>1. <<e, side>> \in S /\ VertexAt(graph, <<e, side>>) = v
                BY <3>2 DEF VertexAt
            <4>2. QED
                BY <4>1
        <3>3. QED
            BY <3>1, <3>2
    <2>6. QED
        BY <2>4, <2>5
<1>4. D \subseteq IndexRange(nv)
    BY <1>2 DEF IsolatedVertices
<1> HIDE DEF D
<1>5. /\ IInv'
      /\ DOMAIN uuid2index' = kept
      /\ RelationTriples' = TriplesWithout(graph, ne, D)
    <2>1. kept = {c \in DOMAIN uuid2index : uuid2index[c] \notin D}
        OBVIOUS
    <2> HIDE DEF kept
    <2>2. QED
        BY <1>1, <1>4, <2>1, DropIsSeen
<1>6. RelationTriples = {TripleOf(graph, e) : e \in IndexRange(ne)}
    BY <1>2, TriplesAreRelations DEF TriplesOf
<1>7. \A e \in IndexRange(ne) : ~ EndsIn(graph, e, D)
    BY <1>2, <1>3 DEF EndsIn
<1>8. TriplesWithout(graph, ne, D) = RelationTriples
    BY <1>6, <1>7 DEF TriplesWithout
<1>9. Abstract!InRelation =
        {vlabel[graph.edges[e][side]] : e \in IndexRange(ne), side \in Sides}
    <2> DEFINE ends == {vlabel[graph.edges[e][side]] :
                            e \in IndexRange(ne), side \in Sides}
    <2>1. \A c : c \in Abstract!InRelation <=>
            \E r \in RelationTriples : c = r[1] \/ c = r[2]
        BY DEF Abstract!InRelation
    <2>2. \A e : /\ TripleOf(graph, e)[1] = vlabel[graph.edges[e][0]]
                 /\ TripleOf(graph, e)[2] = vlabel[graph.edges[e][1]]
        BY DEF TripleOf
    <2>3. \A c : c \in Abstract!InRelation <=>
            \E e \in IndexRange(ne) : \/ c = vlabel[graph.edges[e][0]]
                                      \/ c = vlabel[graph.edges[e][1]]
        <3> HIDE DEF vlabel
        <3>1. QED
            BY <1>6, <2>1, <2>2
    <2>4. \A c : c \in ends <=>
            \E e \in IndexRange(ne) : \/ c = vlabel[graph.edges[e][0]]
                                      \/ c = vlabel[graph.edges[e][1]]
        <3> HIDE DEF vlabel
        <3>1. QED
            BY DEF Sides
    <2> HIDE DEF ends
    <2>5. Abstract!InRelation = ends
        BY <2>3, <2>4
    <2>6. QED
        BY <2>5 DEF ends
<1>10. kept = {vlabel[graph.edges[e][side]] :
                    e \in IndexRange(ne), side \in Sides}
    <2>1. /\ DOMAIN index = {vlabel[w] : w \in IndexRange(nv)}
          /\ \A w \in IndexRange(nv) : index[vlabel[w]] = w
        BY <1>2 DEF IsModel, Range
    <2> HIDE DEF index, vlabel
    <2>2. kept = {vlabel[w] : w \in IndexRange(nv) \ D}
        BY <2>1
    <2> DEFINE used == {graph.edges[e][side] :
                            e \in IndexRange(ne), side \in Sides}
    <2>3. IndexRange(nv) \ D = used
        BY <1>2, <1>3
    <2> DEFINE ends == {vlabel[graph.edges[e][side]] :
                            e \in IndexRange(ne), side \in Sides}
    <2>4. {vlabel[w] : w \in used} = ends
        OBVIOUS
    <2> HIDE DEF used, ends, kept
    <2>5. kept = ends
        BY <2>2, <2>3, <2>4
    <2>6. QED
        BY <2>5 DEF ends
<1> HIDE DEF kept
<1>11. QED
    BY <1>5, <1>8, <1>9, <1>10 DEF Abstract!Prune

\* A copy keeps the mapped components and their relations, under the new uuids.
LEMMA CopyIsSeen ==
    ASSUME NEW ne \in Nat, NEW nv \in Nat,
           IsModel(graph, uuid2index, ne, nv),
           NEW mapping \in CopyMappings, Copy(mapping)
    PROVE  IInv' /\ Abstract!Copy(mapping)
<1> DEFINE clone == CopyGraph(graph)
           index == uuid2index
           vlabel == graph.vlabel
           M == DOMAIN mapping
           kept == {v \in IndexRange(nv) : vlabel[v] \in M}
           D == IndexRange(nv) \ kept
           h == RenameVertices(clone, kept, mapping)
           old2new == MappingAfterDeletion(nv, D)
           vertexOf(c) == CHOOSE v \in kept : h.vlabel[v] = c
           new == [c \in {h.vlabel[v] : v \in kept} |-> old2new[vertexOf(c)]]
<1>1. /\ graph \in DualGraphs(ne, nv, RelationTypes, Components)
      /\ EndsSet(graph, ne)
      /\ OneEdgePerPair(graph, ne)
      /\ \A e \in IndexRange(ne), side \in Sides :
            graph.edges[e][side] \in IndexRange(nv)
      /\ GraphEdges(graph) = IndexRange(ne)
    BY PartsOfModel
<1>2. /\ DOMAIN vlabel = IndexRange(nv)
      /\ \A v \in IndexRange(nv) : vlabel[v] \in Components
      /\ \A v, w \in IndexRange(nv) : vlabel[v] = vlabel[w] => v = w
    <2>1. vlabel \in Injection(IndexRange(nv), Components)
        BY PartsOfModel
    <2>2. QED
        BY <2>1 DEF Injection, IsInjective
<1>3. /\ \A c \in M : mapping[c] \in Components
      /\ \A c, d \in M : mapping[c] = mapping[d] => c = d
    BY MappingAssumption DEF Injection, IsInjective
<1>4. /\ clone \in DualGraphs(ne, nv, RelationTypes, Components)
      /\ clone.edges = graph.edges
      /\ clone.elabel = graph.elabel
      /\ clone.vlabel = vlabel
    BY <1>1, CopiedGraph
<1> HIDE DEF clone
<1>5. /\ GraphVertices(clone) = IndexRange(nv)
      /\ NbVertices(clone) = nv
      /\ clone = [edges |-> clone.edges, elabel |-> clone.elabel,
                  around |-> clone.around, vlabel |-> clone.vlabel]
    BY <1>4, SizeOfVector
    DEF DualGraphs, GraphsOf, GraphVertices, NbVertices
<1>6. graph' = WithoutVertices(h, D) /\ uuid2index' = new
    <2>1. kept = {v \in GraphVertices(clone) :
                    clone.vlabel[v] \in DOMAIN mapping}
        BY <1>4, <1>5
    <2>2. D = GraphVertices(clone) \ kept
        BY <1>5
    <2> HIDE DEF kept, D
    <2>3. QED
        BY <1>5, <2>1, <2>2 DEF Copy, clone
<1>7. /\ h.edges = graph.edges
      /\ h.elabel = graph.elabel
      /\ h.around = clone.around
      /\ \A v \in kept : h.vlabel[v] = mapping[vlabel[v]]
      /\ h.vlabel \in [IndexRange(nv) -> Components]
      /\ h = [edges |-> h.edges, elabel |-> h.elabel,
              around |-> h.around, vlabel |-> h.vlabel]
    BY <1>2, <1>3, <1>4, <1>5 DEF RenameVertices
<1> HIDE DEF h
<1>8. h \in DualGraphs(ne, nv, RelationTypes, Components)
    <2>1. /\ clone.edges \in [IndexRange(ne) -> [Sides -> Ends(nv)]]
          /\ clone.elabel \in [IndexRange(ne) -> RelationTypes]
          /\ clone.around \in [IndexRange(nv) -> Seq(IndexRange(ne) \X Sides)]
          /\ ListsFollowEdges(clone, ne, nv)
        BY <1>4 DEF DualGraphs, GraphsOf
    <2>2. h \in GraphsOf(ne, nv, Ends(nv), RelationTypes, Components)
        BY <1>4, <1>7, <2>1 DEF GraphsOf
    <2>3. ListsFollowEdges(h, ne, nv)
        <3>1. \A x : VertexAt(h, x) = VertexAt(clone, x)
            BY <1>4, <1>7 DEF VertexAt
        <3>2. QED
            BY <1>7, <2>1, <3>1 DEF ListsFollowEdges
    <2>4. QED
        BY <2>2, <2>3 DEF DualGraphs
<1>9. EndsSet(h, ne) /\ OneEdgePerPair(h, ne)
    BY <1>1, <1>7 DEF EndsSet, OneEdgePerPair, VertexAt
<1>10. /\ D \subseteq IndexRange(nv)
       /\ IndexRange(nv) \ D = kept
    OBVIOUS
<1>11. \A v, w \in kept : h.vlabel[v] = h.vlabel[w] => v = w
    BY <1>2, <1>3, <1>7
<1> DEFINE names == h.vlabel
<1>12. /\ DOMAIN new = {names[v] : v \in kept}
       /\ \A v \in kept : new[names[v]] = old2new[v]
    <2> HIDE DEF names, kept, old2new
    <2>1. \A v \in kept : vertexOf(names[v]) = v
        BY <1>11 DEF names
    <2> HIDE DEF vertexOf
    <2>2. QED
        BY <2>1 DEF names
<1>13. /\ IsModelOfSomeSize(WithoutVertices(h, D), new)
       /\ TriplesOf(WithoutVertices(h, D)) = TriplesWithout(h, ne, D)
    <2> HIDE DEF new, D, kept
    <2>1. /\ DOMAIN new = {h.vlabel[v] : v \in IndexRange(nv) \ D}
          /\ \A v \in IndexRange(nv) \ D :
                new[h.vlabel[v]] = MappingAfterDeletion(nv, D)[v]
          /\ \A v, w \in IndexRange(nv) \ D :
                h.vlabel[v] = h.vlabel[w] => v = w
        BY <1>10, <1>11, <1>12
    <2>2. QED
        BY <1>8, <1>9, <1>10, <2>1, RestOfModel
<1> HIDE DEF new, old2new
<1>14. IInv' /\ RelationTriples' = TriplesWithout(h, ne, D)
    BY <1>6, <1>13, TriplesAreRelations DEF IInv
<1>15. DOMAIN uuid2index' = {mapping[c] : c \in DOMAIN index \cap M}
    <2>1. DOMAIN index = {vlabel[v] : v \in IndexRange(nv)}
        BY <1>2 DEF IsModel, Range
    <2>2. DOMAIN uuid2index' = {mapping[vlabel[v]] : v \in kept}
        BY <1>6, <1>7, <1>12
    <2> HIDE DEF index, vlabel
    <2>3. QED
        BY <2>1, <2>2
<1>16. ASSUME NEW e \in IndexRange(ne)
       PROVE  /\ ~ EndsIn(h, e, D) <=>
                    {TripleOf(graph, e)[1], TripleOf(graph, e)[2]}
                        \subseteq DOMAIN index \cap M
              /\ ~ EndsIn(h, e, D) => TripleOf(h, e) =
                    <<mapping[TripleOf(graph, e)[1]],
                      mapping[TripleOf(graph, e)[2]], TripleOf(graph, e)[3]>>
    <2> DEFINE x == graph.edges[e][0]
               y == graph.edges[e][1]
    <2>1. /\ x \in IndexRange(nv) /\ y \in IndexRange(nv)
          /\ EndsIn(h, e, D) <=> x \in D \/ y \in D
        BY <1>1, <1>7 DEF EndsIn, Sides
    <2>2. TripleOf(graph, e) = <<vlabel[x], vlabel[y], graph.elabel[e]>>
        BY DEF TripleOf
    <2>3. TripleOf(h, e) = <<names[x], names[y], graph.elabel[e]>>
        BY <1>7 DEF TripleOf
    <2>4. vlabel[x] \in DOMAIN index /\ vlabel[y] \in DOMAIN index
        BY <1>2, <2>1 DEF IsModel, Range
    <2>5. ~ EndsIn(h, e, D) <=> vlabel[x] \in M /\ vlabel[y] \in M
        BY <2>1
    <2>6. ~ EndsIn(h, e, D) => /\ names[x] = mapping[vlabel[x]]
                               /\ names[y] = mapping[vlabel[y]]
        BY <1>7, <2>1
    <2> HIDE DEF x, y, vlabel, names, index
    <2>7. QED
        BY <2>2, <2>3, <2>4, <2>5, <2>6
<1>17. RelationTriples = {TripleOf(graph, e) : e \in IndexRange(ne)}
    BY <1>1, TriplesAreRelations DEF TriplesOf
<1> DEFINE both == DOMAIN index \cap M
<1>18. TriplesWithout(h, ne, D) =
            {<<mapping[r[1]], mapping[r[2]], r[3]>> :
                r \in {q \in RelationTriples : {q[1], q[2]} \subseteq both}}
    <2> HIDE DEF both, D
    <2>1. \A e \in IndexRange(ne) :
             /\ ~ EndsIn(h, e, D) <=>
                  {TripleOf(graph, e)[1], TripleOf(graph, e)[2]} \subseteq both
             /\ ~ EndsIn(h, e, D) => TripleOf(h, e) =
                    <<mapping[TripleOf(graph, e)[1]],
                      mapping[TripleOf(graph, e)[2]], TripleOf(graph, e)[3]>>
        BY <1>16 DEF both
    <2>2. QED
        BY <1>17, <2>1 DEF TriplesWithout
<1>19. Abstract!Copy(mapping)
    <2> DEFINE seen == TriplesWithout(h, ne, D)
    <2>1. /\ DOMAIN uuid2index' = {mapping[c] : c \in both}
          /\ RelationTriples' = seen
        BY <1>14, <1>15
    <2>2. seen = {<<mapping[r[1]], mapping[r[2]], r[3]>> :
                    r \in {q \in RelationTriples : {q[1], q[2]} \subseteq both}}
        BY <1>18
    <2>3. both = DOMAIN uuid2index \cap DOMAIN mapping
        OBVIOUS
    <2> HIDE DEF both, seen
    <2>4. QED
        BY <2>1, <2>2, <2>3 DEF Abstract!Copy
<1>20. QED
    BY <1>14, <1>19

-----------------------------------------------------------------------------
\* Every step keeps the invariant and is one of the abstract specification.
LEMMA StepIsSeen ==
    IInv /\ [Next]_vars =>
        IInv' /\ [Abstract!Next]_<<DOMAIN uuid2index, RelationTriples>>
<1> SUFFICES ASSUME IInv, [Next]_vars
             PROVE  /\ IInv'
                    /\ [Abstract!Next]_<<DOMAIN uuid2index, RelationTriples>>
    OBVIOUS
<1> DEFINE ne == NbEdges(graph)
           nv == NbVertices(graph)
<1>1. /\ ne \in Nat /\ nv \in Nat
      /\ IsModel(graph, uuid2index, ne, nv)
    BY DEF IInv, IsModelOfSomeSize
<1> HIDE DEF ne, nv
<1>2. CASE UNCHANGED vars
    <2>1. graph' = graph /\ uuid2index' = uuid2index
        BY <1>2 DEF vars
    <2>2. IInv'
        BY <2>1 DEF IInv
    <2>3. /\ DOMAIN uuid2index' = DOMAIN uuid2index
          /\ RelationTriples' = RelationTriples
        BY <2>1, TriplesAreRelations
    <2>4. QED
        BY <2>2, <2>3
<1>3. ASSUME NEW c \in Components, NEW d \in Components,
             NEW type \in RelationTypes, AddRelation(c, d, type)
      PROVE  IInv' /\ Abstract!Next
    <2>1. IInv' /\ Abstract!Add(c, d, type)
        BY <1>1, <1>3, AddIsSeen
    <2>2. QED
        BY <2>1 DEF Abstract!Next
<1>4. ASSUME NEW c \in Components, NEW d \in Components, RemoveRelation(c, d)
      PROVE  IInv' /\ Abstract!Next
    <2>1. IInv' /\ Abstract!RemoveRelation(c, d)
        BY <1>1, <1>4, RemoveIsSeen
    <2>2. QED
        BY <2>1 DEF Abstract!Next
<1>5. ASSUME NEW c \in Components, RemoveComponent(c)
      PROVE  IInv' /\ Abstract!Next
    <2>1. IInv' /\ Abstract!RemoveComponent(c)
        BY <1>1, <1>5, RemoveComponentIsSeen
    <2>2. QED
        BY <2>1 DEF Abstract!Next
<1>6. CASE SaveOrLoad
    <2>1. IInv' /\ Abstract!Prune
        BY <1>1, <1>6, SaveOrLoadIsSeen
    <2>2. QED
        BY <2>1 DEF Abstract!Next
<1>7. ASSUME NEW mapping \in CopyMappings, Copy(mapping)
      PROVE  IInv' /\ Abstract!Next
    <2>1. IInv' /\ Abstract!Copy(mapping)
        BY <1>1, <1>7, CopyIsSeen
    <2>2. QED
        BY <2>1 DEF Abstract!Next
<1>8. ASSUME NEW c \in Components, NEW d \in Components,
             AddExistingRelation(c, d)
      PROVE  UNCHANGED vars
    BY <1>8 DEF AddExistingRelation
<1>9. QED
    BY <1>2, <1>3, <1>4, <1>5, <1>6, <1>7, <1>8 DEF Next

\* The invariant holds, for any components, types and mappings.
LEMMA ModelStaysSound == Spec => []IInv
    BY InitIsModel, StepIsSeen, PTL DEF Spec

\* The index of the components and the attribute "id" of their vertices stay
\* inverse to each other, whatever is removed, pruned or copied.
THEOREM IndexFollowsIds == Spec => []IndexMatchesIds
<1>1. IInv => IndexMatchesIds
    <2> SUFFICES ASSUME IInv
                 PROVE  IndexMatchesIds
        OBVIOUS
    <2> DEFINE ne == NbEdges(graph)
               nv == NbVertices(graph)
    <2>1. /\ ne \in Nat /\ nv \in Nat
          /\ IsModel(graph, uuid2index, ne, nv)
        BY DEF IInv, IsModelOfSomeSize
    <2>2. /\ \A e \in IndexRange(ne), side \in Sides :
                graph.edges[e][side] \in IndexRange(nv)
          /\ graph.elabel \in [IndexRange(ne) -> RelationTypes]
          /\ graph.vlabel \in [IndexRange(nv) -> Components]
          /\ GraphEdges(graph) = IndexRange(ne)
          /\ GraphVertices(graph) = IndexRange(nv)
        <3> HIDE DEF ne, nv
        <3>1. QED
            BY <2>1, PartsOfModel
    <2>3. /\ DOMAIN uuid2index = Range(graph.vlabel)
          /\ \A v \in IndexRange(nv) : uuid2index[graph.vlabel[v]] = v
        BY <2>1 DEF IsModel
    <2>4. Range(graph.vlabel) \subseteq Components
        BY <2>2 DEF Range
    <2>5. \A ev \in EdgeVertices(graph) :
                VertexAt(graph, ev) \in GraphVertices(graph)
        BY <2>2 DEF EdgeVertices, VertexAt
    <2>6. DOMAIN graph.around = DOMAIN graph.vlabel
        BY <2>2 DEF GraphVertices
    <2>7. TypeOK
        BY <2>2, <2>3, <2>4, <2>5, <2>6 DEF TypeOK
    <2>8. QED
        BY <2>2, <2>3, <2>7 DEF IndexMatchesIds
<1>2. QED
    BY <1>1, ModelStaysSound, PTL

\* Relationships does what a set of relations would: adding, removing, pruning
\* and copying change the relations and components named and no others, for
\* any number of components.
THEOREM RelationSetIsImplemented == Spec => ImplementsRelationSet
<1>1. Init => Abstract!Init
    <2> SUFFICES ASSUME Init
                 PROVE  Abstract!Init
        OBVIOUS
    <2>1. GraphEdges(graph) = {} /\ DOMAIN uuid2index = {}
        BY DEF Init, EmptyGraph, GraphEdges
    <2>2. RelationTriples = {}
        BY <2>1 DEF RelationTriples
    <2>3. QED
        BY <2>1, <2>2 DEF Abstract!Init
<1>2. QED
    BY <1>1, ModelStaysSound, StepIsSeen, PTL
    DEF Spec, ImplementsRelationSet, Abstract!Spec, Abstract!relationSetVars

\* add_relation() adds the relation from the first component to the second,
\* whichever of the two gets its vertex first.
THEOREM RelationAskedIsAdded == Spec => AddsTheRelationAsked
<1>1. IInv => [NbEdges(graph') > NbEdges(graph) =>
                \A c, d \in Components, type \in RelationTypes :
                    AddRelation(c, d, type) => Abstract!Add(c, d, type)]_vars
    <2>1. ASSUME IInv, NEW c \in Components, NEW d \in Components,
                 NEW type \in RelationTypes, AddRelation(c, d, type)
          PROVE  Abstract!Add(c, d, type)
        BY <2>1, AddIsSeen DEF IInv, IsModelOfSomeSize
    <2>2. QED
        BY <2>1
<1>2. QED
    BY <1>1, ModelStaysSound, PTL DEF AddsTheRelationAsked

-----------------------------------------------------------------------------
\* is_boundary(), is_internal() and is_item() tell the relations there are.
LEMMA PredicateIsTriple ==
    ASSUME NEW ne \in Nat, NEW nv \in Nat,
           IsModel(graph, uuid2index, ne, nv),
           NEW c \in Components, NEW d \in Components, NEW type
    PROVE  IsRelated(c, d, type) <=> <<c, d, type>> \in RelationTriples
<1> DEFINE found == EdgeBetween(c, d)
           vlabel == graph.vlabel
           from(e) == vlabel[graph.edges[e][0]]
           to(e) == vlabel[graph.edges[e][1]]
<1>1. /\ found # NoId => found \in IndexRange(ne)
      /\ found # NoId => \A e \in IndexRange(ne) :
                            Joins(graph, e, c, d) <=> e = found
      /\ found = NoId => \A e \in IndexRange(ne) : ~ Joins(graph, e, c, d)
    BY EdgeOfPair
<1>2. IsRelated(c, d, type) <=>
            found # NoId /\ graph.elabel[found] = type /\ from(found) = c
    BY DEF IsRelated, VertexAt
<1> HIDE DEF found
<1>3. RelationTriples = {TripleOf(graph, e) : e \in IndexRange(ne)}
    <2>1. GraphEdges(graph) = IndexRange(ne)
        BY PartsOfModel
    <2>2. QED
        BY <2>1, TriplesAreRelations DEF TriplesOf
<1>4. \A e : /\ TripleOf(graph, e) = <<from(e), to(e), graph.elabel[e]>>
             /\ Joins(graph, e, c, d) <=> {from(e), to(e)} = {c, d}
    BY DEF TripleOf, Joins
<1> HIDE DEF from, to
<1>5. ASSUME IsRelated(c, d, type)
      PROVE  <<c, d, type>> \in RelationTriples
    <2>1. /\ found \in IndexRange(ne)
          /\ {from(found), to(found)} = {c, d}
          /\ from(found) = c
          /\ graph.elabel[found] = type
        BY <1>1, <1>2, <1>4, <1>5
    <2>2. to(found) = d
        BY <2>1
    <2>3. QED
        BY <1>3, <1>4, <2>1, <2>2
<1>6. ASSUME <<c, d, type>> \in RelationTriples
      PROVE  IsRelated(c, d, type)
    <2>1. PICK e \in IndexRange(ne) : TripleOf(graph, e) = <<c, d, type>>
        BY <1>3, <1>6
    <2>2. from(e) = c /\ to(e) = d /\ graph.elabel[e] = type
        BY <1>4, <2>1
    <2>3. Joins(graph, e, c, d)
        BY <1>4, <2>2
    <2>4. e = found /\ found # NoId
        BY <1>1, <2>3
    <2>5. QED
        BY <1>2, <2>2, <2>4
<1>7. QED
    BY <1>5, <1>6

\* The edge e of the type has c at the other side than side, and d at side.
RelatesAt(g, e, c, d, type, side) ==
    /\ g.elabel[e] = type
    /\ g.vlabel[g.edges[e][1 - side]] = c
    /\ g.vlabel[g.edges[e][side]] = d

\* A range lists, once each, the components at its side of the edges of its
\* type around c.
LEMMA RangeListsItsSide ==
    ASSUME NEW ne \in Nat, NEW nv \in Nat,
           IsModel(graph, uuid2index, ne, nv),
           NEW c \in Components, NEW type, NEW side \in Sides
    PROVE  LET found == Ranges(c, type, side)
           IN  /\ IsInjective(found)
               /\ ToSet(found) \subseteq Components
               /\ \A d : d \in ToSet(found) <=>
                    \E e \in IndexRange(ne) :
                        RelatesAt(graph, e, c, d, type, side)
<1> DEFINE found == Ranges(c, type, side)
           index == uuid2index
           vlabel == graph.vlabel
           v == index[c]
           S == IndexRange(ne) \X Sides
           list == graph.around[v]
           N == Len(list)
<1>1. /\ graph \in DualGraphs(ne, nv, RelationTypes, Components)
      /\ OneEdgePerPair(graph, ne)
      /\ \A e \in IndexRange(ne), s \in Sides :
            graph.edges[e][s] \in IndexRange(nv)
      /\ \A e \in IndexRange(ne) :
            Range(graph.edges[e]) = EndsOf(graph.edges[e])
    BY PartsOfModel
<1>2. /\ DOMAIN vlabel = IndexRange(nv)
      /\ \A w \in IndexRange(nv) : vlabel[w] \in Components
      /\ \A w, z \in IndexRange(nv) : vlabel[w] = vlabel[z] => w = z
    <2>1. vlabel \in Injection(IndexRange(nv), Components)
        BY PartsOfModel
    <2>2. QED
        BY <2>1 DEF Injection, IsInjective
<1>3. /\ \A w \in IndexRange(nv) : /\ vlabel[w] \in DOMAIN index
                                   /\ index[vlabel[w]] = w
      /\ \A b \in DOMAIN index : /\ index[b] \in IndexRange(nv)
                                 /\ vlabel[index[b]] = b
    <2>1. /\ DOMAIN index = {vlabel[w] : w \in IndexRange(nv)}
          /\ \A w \in IndexRange(nv) : index[vlabel[w]] = w
        BY <1>2 DEF IsModel, Range
    <2> HIDE DEF index, vlabel
    <2>2. QED
        BY <2>1
<1>4. CASE c \notin DOMAIN index
    <2>1. found = <<>>
        BY <1>4 DEF Ranges
    <2>2. IsInjective(<<>>) /\ ToSet(<<>>) = {}
        BY DEF IsInjective, ToSet
    <2>3. \A e \in IndexRange(ne) : \A d :
            ~ RelatesAt(graph, e, c, d, type, side)
        BY <1>1, <1>3, <1>4 DEF RelatesAt, Sides
    <2> HIDE DEF found
    <2>4. QED
        BY <2>1, <2>2, <2>3 DEF found
<1>5. CASE c \in DOMAIN index
    <2>1. v \in IndexRange(nv) /\ vlabel[v] = c
        BY <1>3, <1>5
    <2>2. /\ list \in Seq(S)
          /\ NoRepeat(list)
          /\ \A x : x \in ToSet(list) <=> x \in S /\ VertexAt(graph, x) = v
        BY <1>1, <2>1 DEF DualGraphs, GraphsOf, ListsFollowEdges
    <2> HIDE DEF v
    <2> DEFINE there(x) == graph.vlabel[VertexAt(graph, Opposite(x))]
               next(r, x) == IF graph.elabel[x[1]] = type /\ x[2] # side
                             THEN Append(r, there(x))
                             ELSE r
               kept == {x \in S : /\ VertexAt(graph, x) = v
                                  /\ graph.elabel[x[1]] = type
                                  /\ x[2] # side}
               image == [x \in kept |-> there(x)]
               V == Seq(Components)
               step == [p \in (1 .. N) \X V |->
                            IF list[p[1]] \in kept
                            THEN Append(p[2], image[list[p[1]]]) ELSE p[2]]
               IsFold(f) == f = [n \in 0 .. N |->
                                    IF n = 0 THEN <<>>
                                             ELSE next(f[n - 1], list[n])]
               f == CHOOSE fold : IsFold(fold)
    <2>3. \A x \in S : /\ VertexAt(graph, x) \in IndexRange(nv)
                       /\ VertexAt(graph, Opposite(x)) \in IndexRange(nv)
                       /\ VertexAt(graph, x) = graph.edges[x[1]][x[2]]
                       /\ VertexAt(graph, Opposite(x))
                            = graph.edges[x[1]][1 - x[2]]
        BY <1>1 DEF VertexAt, Opposite, Sides
    <2>4. /\ kept \subseteq S
          /\ image \in [kept -> Components]
        BY <1>2, <2>3
    <2>5. \A x \in kept : x = <<x[1], 1 - side>> /\ x[1] \in IndexRange(ne)
        BY DEF Sides
    <2>6. ASSUME NEW x \in kept, NEW y \in kept, image[x] = image[y]
          PROVE  x = y
        <3> DEFINE w == VertexAt(graph, Opposite(x))
                   a == x[1]
                   b == y[1]
        <3>1. w = VertexAt(graph, Opposite(y))
            BY <1>2, <2>3, <2>6
        <3>2. /\ a \in IndexRange(ne) /\ b \in IndexRange(ne)
              /\ x = <<a, 1 - side>> /\ y = <<b, 1 - side>>
            BY <2>5
        <3>3. /\ graph.edges[a][1 - side] = v /\ graph.edges[a][side] = w
              /\ graph.edges[b][1 - side] = v /\ graph.edges[b][side] = w
            <4>1. 1 - (1 - side) = side
                BY DEF Sides
            <4>2. /\ VertexAt(graph, x) = v /\ VertexAt(graph, y) = v
                  /\ x[2] = 1 - side /\ y[2] = 1 - side
                BY <3>2
            <4>3. QED
                BY <2>3, <3>1, <4>1, <4>2
        <3> HIDE DEF a, b, w
        <3>4. /\ EndsOf(graph.edges[a]) = {v, w}
              /\ EndsOf(graph.edges[b]) = {v, w}
            BY <3>3 DEF EndsOf, Sides
        <3>5. Range(graph.edges[a]) = Range(graph.edges[b])
            BY <1>1, <3>2, <3>4
        <3>6. QED
            BY <1>1, <3>2, <3>5 DEF OneEdgePerPair
    <2>7. /\ N \in Nat
          /\ \A n \in 1 .. N : /\ list[n] \in S
                               /\ VertexAt(graph, list[n]) = v
        <3> HIDE DEF list, S
        <3>1. N \in Nat /\ \A n \in 1 .. N : list[n] \in ToSet(list)
            BY <2>2, ElementOfSeq DEF ToSet
        <3>2. QED
            BY <2>2, <3>1
    <2>8. \A r : \A n \in 1 .. N : next(r, list[n]) =
                IF list[n] \in kept THEN Append(r, image[list[n]]) ELSE r
        <3> HIDE DEF list, there, N
        <3>1. QED
            BY <2>7
    <2>9. \E fold : IsFold(fold)
        <3>1. step \in [(1 .. N) \X V -> V]
            <4> HIDE DEF kept, image, list, N
            <4>1. QED
                BY <2>4
        <3>2. <<>> \in V
            OBVIOUS
        <3>3. PICK fold : RunsLoop(fold, N, V, <<>>, step)
            <4> HIDE DEF step, V, N
            <4>1. QED
                BY <2>7, <3>1, <3>2, LoopIsDefined
        <3>4. /\ fold \in [0 .. N -> V]
              /\ fold[0] = <<>>
              /\ \A n \in 1 .. N : fold[n] = step[<<n, fold[n - 1]>>]
            <4> HIDE DEF step, V, N
            <4>1. QED
                BY <3>3 DEF RunsLoop
        <3>5. ASSUME NEW n \in 1 .. N
              PROVE  fold[n] = next(fold[n - 1], list[n])
            <4>1. fold[n - 1] \in V
                <5>1. n - 1 \in 0 .. N
                    BY <2>7
                <5> HIDE DEF V, N
                <5>2. QED
                    BY <3>4, <5>1, Zenon
            <4> HIDE DEF kept, image, next, list, N, V
            <4>2. step[<<n, fold[n - 1]>>] = next(fold[n - 1], list[n])
                BY <2>8, <4>1
            <4>3. QED
                BY <3>4, <4>2
        <3>6. IsFold(fold)
            <4> HIDE DEF next, list, N
            <4>1. QED
                BY <3>4, <3>5
        <3>7. QED
            BY <3>6
    <2>10. IsFold(f)
        BY <2>9
    <2>11. found = f[N]
        BY <1>5 DEF Ranges, FoldInOrder, v
    <2>12. /\ f[0] = <<>>
           /\ \A n \in 1 .. N : f[n] =
                IF list[n] \in kept THEN Append(f[n - 1], image[list[n]])
                                    ELSE f[n - 1]
        <3> HIDE DEF f, next, kept, image, list, N
        <3>1. f[0] = <<>> /\ \A n \in 1 .. N : f[n] = next(f[n - 1], list[n])
            BY <2>7, <2>10
        <3>2. QED
            BY <2>8, <3>1
    <2>13. ListsImages(f[N], Components, kept, image, list)
        <3> HIDE DEF f, kept, image, S, list
        <3>1. QED
            BY <2>2, <2>4, <2>6, <2>12, ImagesOfKept
    <2>14. ASSUME NEW d
           PROVE  (\E x \in kept : x \in ToSet(list) /\ d = image[x]) <=>
                    \E e \in IndexRange(ne) :
                        RelatesAt(graph, e, c, d, type, side)
        <3>1. ASSUME NEW x \in kept, d = image[x]
              PROVE  \E e \in IndexRange(ne) :
                        RelatesAt(graph, e, c, d, type, side)
            <4>1. /\ x[1] \in IndexRange(ne)
                  /\ x[2] = 1 - side
                  /\ 1 - (1 - side) = side
                BY <2>5 DEF Sides
            <4>2. /\ graph.edges[x[1]][1 - side] = v
                  /\ graph.vlabel[graph.edges[x[1]][side]] = d
                  /\ graph.elabel[x[1]] = type
                BY <2>3, <3>1, <4>1
            <4>3. QED
                BY <2>1, <4>1, <4>2 DEF RelatesAt
        <3>2. ASSUME NEW e \in IndexRange(ne),
                     RelatesAt(graph, e, c, d, type, side)
              PROVE  \E x \in kept : x \in ToSet(list) /\ d = image[x]
            <4> DEFINE x == <<e, 1 - side>>
            <4>1. /\ x \in S
                  /\ x[2] # side
                  /\ x[1] = e /\ x[2] = 1 - side
                  /\ 1 - (1 - side) = side
                BY DEF Sides
            <4>2. VertexAt(graph, x) = v
                <5>1. vlabel[VertexAt(graph, x)] = c
                    BY <2>3, <3>2, <4>1 DEF RelatesAt
                <5>2. QED
                    BY <1>2, <2>1, <2>3, <4>1, <5>1
            <4>3. x \in kept
                BY <3>2, <4>1, <4>2 DEF RelatesAt
            <4>4. image[x] = d
                BY <2>3, <3>2, <4>1, <4>3 DEF RelatesAt
            <4>5. x \in ToSet(list)
                BY <2>2, <4>1, <4>2
            <4>6. QED
                BY <4>3, <4>4, <4>5
        <3>3. QED
            BY <3>1, <3>2
    <2>15. /\ found \in Seq(Components)
           /\ NoRepeat(found)
           /\ \A d : d \in ToSet(found) <=>
                \E e \in IndexRange(ne) :
                    RelatesAt(graph, e, c, d, type, side)
        <3> HIDE DEF f, kept, image, list, found
        <3>1. QED
            BY <2>11, <2>13, <2>14 DEF ListsImages
    <2> HIDE DEF found
    <2>16. ToSet(found) \subseteq Components /\ IsInjective(found)
        BY <2>15, ElementOfSeq DEF ToSet, NoRepeat, IsInjective
    <2>17. QED
        BY <2>15, <2>16 DEF found
<1>6. QED
    BY <1>4, <1>5

\* The two ranges and the predicate say the same of every two components, a
\* range names a component once, and two components have one relation at most,
\* whatever was added and removed before.
THEOREM QueriesStayConsistent == Spec => []QueriesAgree
<1>1. IInv => QueriesAgree
    <2> SUFFICES ASSUME IInv
                 PROVE  QueriesAgree
        OBVIOUS
    <2> DEFINE ne == NbEdges(graph)
               nv == NbVertices(graph)
    <2>1. /\ ne \in Nat /\ nv \in Nat
          /\ IsModel(graph, uuid2index, ne, nv)
        BY DEF IInv, IsModelOfSomeSize
    <2> HIDE DEF ne, nv
    <2>2. GraphEdges(graph) = IndexRange(ne) /\ OneEdgePerPair(graph, ne)
        BY <2>1, PartsOfModel
    <2>3. \A c, d \in Components, type \in RelationTypes :
            IsRelated(c, d, type) <=> <<c, d, type>> \in RelationTriples
        BY <2>1, PredicateIsTriple
    <2>4. \A c, d, type :
            <<c, d, type>> \in RelationTriples <=>
                \E e \in IndexRange(ne) :
                    /\ graph.vlabel[graph.edges[e][0]] = c
                    /\ graph.vlabel[graph.edges[e][1]] = d
                    /\ graph.elabel[e] = type
        <3>1. RelationTriples = {TripleOf(graph, e) : e \in IndexRange(ne)}
            BY <2>2, TriplesAreRelations DEF TriplesOf
        <3>2. QED
            BY <3>1 DEF TripleOf
    <2>5. ASSUME NEW c \in Components, NEW type \in RelationTypes
          PROVE  /\ IsInjective(SourcesOf(c, type))
                 /\ ToSet(SourcesOf(c, type)) =
                        {d \in Components : <<d, c, type>> \in RelationTriples}
        <3> DEFINE found == Ranges(c, type, 0)
        <3>1. /\ IsInjective(found)
              /\ ToSet(found) \subseteq Components
              /\ \A d : d \in ToSet(found) <=>
                    \E e \in IndexRange(ne) :
                        RelatesAt(graph, e, c, d, type, 0)
            BY <2>1, RangeListsItsSide DEF Sides
        <3>2. \A d : d \in ToSet(found) <=> <<d, c, type>> \in RelationTriples
            <4> HIDE DEF found
            <4>1. QED
                BY <2>4, <3>1 DEF RelatesAt
        <3> HIDE DEF found
        <3>3. ToSet(found) =
                {d \in Components : <<d, c, type>> \in RelationTriples}
            BY <3>1, <3>2
        <3>4. SourcesOf(c, type) = found
            BY DEF SourcesOf, found
        <3>5. QED
            BY <3>1, <3>3, <3>4
    <2>6. ASSUME NEW c \in Components, NEW type \in RelationTypes
          PROVE  /\ IsInjective(TargetsOf(c, type))
                 /\ ToSet(TargetsOf(c, type)) =
                        {d \in Components : <<c, d, type>> \in RelationTriples}
        <3> DEFINE found == Ranges(c, type, 1)
        <3>1. /\ IsInjective(found)
              /\ ToSet(found) \subseteq Components
              /\ \A d : d \in ToSet(found) <=>
                    \E e \in IndexRange(ne) :
                        RelatesAt(graph, e, c, d, type, 1)
            BY <2>1, RangeListsItsSide DEF Sides
        <3>2. \A d : d \in ToSet(found) <=> <<c, d, type>> \in RelationTriples
            <4> HIDE DEF found
            <4>1. QED
                BY <2>4, <3>1 DEF RelatesAt
        <3> HIDE DEF found
        <3>3. ToSet(found) =
                {d \in Components : <<c, d, type>> \in RelationTriples}
            BY <3>1, <3>2
        <3>4. TargetsOf(c, type) = found
            BY DEF TargetsOf, found
        <3>5. QED
            BY <3>1, <3>3, <3>4
    <2>7. QED
        BY <2>2, <2>3, <2>5, <2>6 DEF QueriesAgree, OneEdgePerPair
<1>2. QED
    BY <1>1, ModelStaysSound, PTL
=============================================================================
