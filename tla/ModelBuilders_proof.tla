------------------------- MODULE ModelBuilders_proof -------------------------
(***************************************************************************)
(* What a program builds with BRepBuilder and SectionBuilder is a model    *)
(* all the parts of which agree, for every set of uuids and of kinds,      *)
(* every model that is loaded, copied or taken apart, and every bound;     *)
(* and, first, that the generator never hands out the same uuid twice, on  *)
(* which the identity of the components rests.                             *)
(*                                                                         *)
(* The generator: a word that a thread is about to publish is after the    *)
(* word it loaded (Inv, third conjunct); the exchange succeeds only when   *)
(* that word is still g_state; so g_state only grows, every stamp handed   *)
(* out is at most g_state, and the one about to be handed out is new.      *)
(*                                                                         *)
(* The models: ModelInvariant, that the model is a BRep or a Section, is   *)
(* inductive.  Its parts are the storages with the registry                *)
(* (StorageHolds), the relationships (RelationsHold) and the vertices      *)
(* (VerticesHold), which only share the components: an operation on one    *)
(* part keeps the others if it keeps the components, and only those that   *)
(* add or remove components have to be looked at in every part.  For the   *)
(* loops of the code there is a lemma of what a turn does, and an          *)
(* induction on the turns that does not depend on their order.  The        *)
(* operations that make a model of two others are described by what its    *)
(* component vertices are and which of them are the same (IsMadeOf), from  *)
(* which the classes of identified vertices follow (ClassesTogether).      *)
(***************************************************************************)
EXTENDS UUIDv7, ModelBuilders, Graph_proof

-----------------------------------------------------------------------------
Running == {"generate", "load", "exchange"}

AtMost(a, b) == a = b \/ Before(a, b)

\* The strengthening of the properties that is inductive.
Inv ==
    /\ TypeOK
    /\ \A t \in Threads : pc[t] \in Running => attempts[t] < MaxAttempts
    /\ \A t \in Threads : pc[t] = "exchange" =>
          Before(old[t], next[t]) /\ next[t].ts <= peak + MaxDriftMs
    /\ \A t \in Threads : pc[t] = "load" => real_ms[t] <= peak
    /\ clock <= peak
    /\ DriftBounded
    /\ \A t \in Threads : \A r \in issued[t] : AtMost(r, g_state)
    /\ NoSharedStamp

-----------------------------------------------------------------------------
\* Before is a strict order on stamps.
LEMMA BeforeOrder ==
    ASSUME NEW a \in Stamp, NEW b \in Stamp, NEW c \in Stamp
    PROVE  /\ ~ Before(a, a)
           /\ Before(a, b) /\ Before(b, c) => Before(a, c)
BY SeqAssumption DEF Stamp, Before

\* Capping a clock value keeps it a natural number and never raises it.
LEMMA CappedBound ==
    ASSUME NEW o \in Stamp, NEW r \in Nat
    PROVE  Capped(r, o) \in Nat /\ Capped(r, o) <= r
BY DriftAssumption DEF Capped, Stamp

\* Whatever the clock reads, generate() computes a well-formed word that is
\* strictly after the one it loaded.
LEMMA SuccessorAfter ==
    ASSUME NEW o \in Stamp, NEW r \in Nat, NEW n \in Successors(r, o)
    PROVE  n \in Stamp /\ Before(o, n)
<1> USE SeqAssumption
<1>1. CASE r > o.ts
    BY <1>1 DEF Successors, FreshSequence, Stamp, Before
<1>2. CASE ~(r > o.ts) /\ n \in [ts : {o.ts}, seq : NextSequence(r, o) \ {0}]
    <2>1. n.seq \in 0 .. SeqMask /\ n.seq > o.seq
        BY <1>2 DEF NextSequence, FreshSequence, Increment, Stamp
    <2>2. QED
        BY <1>2, <2>1 DEF Stamp, Before
<1>3. CASE ~(r > o.ts) /\ n \in [ts : {o.ts + 1}, seq : FreshSequence]
    BY <1>3 DEF FreshSequence, Stamp, Before
<1>4. QED
    BY <1>1, <1>2, <1>3 DEF Successors

-----------------------------------------------------------------------------
\* The program starts in the invariant.
LEMMA InitInv == Init => Inv
<1> SUFFICES ASSUME Init PROVE Inv
    OBVIOUS
<1> USE ClockAssumption, DriftAssumption, SeqAssumption, AttemptsAssumption
<1>1. g_state \in Stamp
    BY DEF Init, Stamp
<1>2. TypeOK
    BY <1>1 DEF Init, TypeOK
<1>3. DriftBounded
    BY <1>1 DEF Init, DriftBounded, Stamp
<1>4. QED
    BY <1>2, <1>3 DEF Init, Inv, NoSharedStamp

\* Every step keeps the invariant.
LEMMA NextInv == Inv /\ [Next]_vars => Inv'
<1> SUFFICES ASSUME Inv, [Next]_vars PROVE Inv'
    OBVIOUS
<1> USE ClockAssumption, DriftAssumption, SeqAssumption, AttemptsAssumption
<1>0. TypeOK
    BY DEF Inv
<1>1. CASE SetClock
    <2>1. peak' \in 0 .. MaxClock /\ peak <= peak' /\ clock' <= peak'
        BY <1>0, <1>1 DEF SetClock, TypeOK
    <2>2. TypeOK'
        BY <1>0, <1>1, <2>1 DEF SetClock, TypeOK
    <2>3. DriftBounded'
        BY <1>0, <1>1, <2>1 DEF SetClock, TypeOK, Inv, DriftBounded, Stamp
    <2>4. \A t \in Threads : pc'[t] = "exchange" =>
              Before(old'[t], next'[t]) /\ next'[t].ts <= peak' + MaxDriftMs
        <3> SUFFICES ASSUME NEW t \in Threads, pc[t] = "exchange"
                     PROVE  Before(old[t], next[t])
                            /\ next[t].ts <= peak' + MaxDriftMs
            BY <1>1 DEF SetClock
        <3>1. next[t].ts <= peak + MaxDriftMs /\ next[t] \in Stamp
            BY <1>0 DEF Inv, TypeOK
        <3>2. QED
            BY <1>0, <2>1, <3>1 DEF Inv, TypeOK, Stamp
    <2>5. \A t \in Threads : pc'[t] = "load" => real_ms'[t] <= peak'
        BY <1>0, <1>1, <2>1 DEF SetClock, TypeOK, Inv
    <2>6. QED
        BY <1>1, <2>1, <2>2, <2>3, <2>4, <2>5
        DEF SetClock, Inv, NoSharedStamp, Before, AtMost
<1>2. ASSUME NEW t \in Threads, Construct(t) PROVE Inv'
    <2>1. TypeOK'
        BY <1>0, <1>2 DEF Construct, TypeOK
    <2>2. QED
        BY <1>0, <1>2, <2>1
        DEF Construct, TypeOK, Inv, Running, DriftBounded, NoSharedStamp,
            Before, AtMost
<1>3. ASSUME NEW t \in Threads, ReadClock(t) PROVE Inv'
    <2>1. TypeOK'
        BY <1>0, <1>3 DEF ReadClock, TypeOK
    <2>2. QED
        BY <1>0, <1>3, <2>1
        DEF ReadClock, TypeOK, Inv, Running, DriftBounded, NoSharedStamp,
            Before, AtMost
<1>4. ASSUME NEW t \in Threads, LoadAndCompute(t) PROVE Inv'
    <2> DEFINE r == Capped(real_ms[t], g_state)
    <2>1. g_state \in Stamp /\ real_ms[t] \in Nat
        BY <1>0 DEF TypeOK
    <2>2. r \in Nat /\ r <= real_ms[t] /\ real_ms'[t] = r
        BY <1>0, <1>4, <2>1, CappedBound DEF LoadAndCompute, TypeOK
    <2>3. r <= peak
        BY <1>0, <1>4, <2>1, <2>2 DEF LoadAndCompute, Inv, TypeOK
    <2>4. PICK n \in Successors(r, g_state) : next' = [next EXCEPT ![t] = n]
        BY <1>4, <2>2 DEF LoadAndCompute
    <2>5. n \in Stamp /\ Before(g_state, n)
        BY <2>1, <2>2, <2>4, SuccessorAfter
    <2>6. n.ts <= peak + MaxDriftMs
        <3>1. ~(n.ts > r + MaxDriftMs)
            BY <1>4, <2>2, <2>4 DEF LoadAndCompute, ExceedsDrift
        <3>2. QED
            BY <1>0, <2>2, <2>3, <2>5, <3>1 DEF TypeOK, Stamp
    <2>7. TypeOK'
        <3>1. real_ms' = [real_ms EXCEPT ![t] = r]
            BY <1>4 DEF LoadAndCompute
        <3> HIDE DEF r
        <3>2. QED
            BY <1>0, <1>4, <2>1, <2>2, <2>4, <2>5, <3>1
            DEF LoadAndCompute, TypeOK
    <2>8. \A u \in Threads : pc'[u] = "exchange" =>
              Before(old'[u], next'[u]) /\ next'[u].ts <= peak' + MaxDriftMs
        <3> SUFFICES ASSUME NEW u \in Threads, pc'[u] = "exchange"
                     PROVE  Before(old'[u], next'[u])
                            /\ next'[u].ts <= peak' + MaxDriftMs
            OBVIOUS
        <3>1. CASE u = t
            <4>1. old'[t] = g_state /\ next'[t] = n /\ peak' = peak
                BY <1>0, <1>4, <2>4 DEF LoadAndCompute, TypeOK
            <4>2. QED
                BY <3>1, <4>1, <2>5, <2>6
        <3>2. CASE u # t
            BY <1>0, <1>4, <2>4, <3>2 DEF LoadAndCompute, TypeOK, Inv
        <3>3. QED
            BY <3>1, <3>2
    <2>9. QED
        BY <1>0, <1>4, <2>7, <2>8
        DEF LoadAndCompute, TypeOK, Inv, Running, DriftBounded,
            NoSharedStamp, AtMost, Before
<1>5. ASSUME NEW t \in Threads, GiveUp(t) PROVE Inv'
    <2>1. attempts[t] \in 0 .. MaxAttempts - 1
        BY <1>0, <1>5 DEF GiveUp, Inv, Running, TypeOK
    <2>2. TypeOK'
        BY <1>0, <1>5, <2>1 DEF GiveUp, TypeOK
    <2>3. \A u \in Threads : pc'[u] \in Running => attempts'[u] < MaxAttempts
        BY <1>0, <1>5, <2>1 DEF GiveUp, TypeOK, Inv, Running
    <2>4. QED
        BY <1>0, <1>5, <2>2, <2>3
        DEF GiveUp, TypeOK, Inv, DriftBounded, NoSharedStamp, Before, AtMost
<1>6. ASSUME NEW t \in Threads, ExchangeSucceeds(t) PROVE Inv'
    <2>1. g_state' = next[t] /\ Before(g_state, next[t])
          /\ next[t].ts <= peak + MaxDriftMs /\ next[t] \in Stamp
        BY <1>0, <1>6 DEF ExchangeSucceeds, Inv, TypeOK
    <2>2. TypeOK'
        BY <1>0, <1>6, <2>1 DEF ExchangeSucceeds, TypeOK
    <2>3. \A u \in Threads : \A r \in issued[u] :
              r \in Stamp /\ Before(r, next[t])
        BY <1>0, <2>1, BeforeOrder DEF Inv, TypeOK, AtMost
    <2>4. \A u \in Threads : \A r \in issued'[u] : AtMost(r, g_state')
        BY <1>0, <1>6, <2>1, <2>3 DEF ExchangeSucceeds, TypeOK, AtMost
    <2>5. NoSharedStamp'
        <3>1. \A u \in Threads : next[t] \notin issued[u]
            BY <2>1, <2>3, BeforeOrder
        <3>2. QED
            BY <1>0, <1>6, <3>1
            DEF ExchangeSucceeds, TypeOK, Inv, NoSharedStamp
    <2>6. DriftBounded'
        BY <1>6, <2>1 DEF ExchangeSucceeds, DriftBounded
    <2>7. \A u \in Threads : pc'[u] = "exchange" =>
              Before(old'[u], next'[u]) /\ next'[u].ts <= peak' + MaxDriftMs
        BY <1>0, <1>6 DEF ExchangeSucceeds, TypeOK, Inv
    <2>8. QED
        BY <1>0, <1>6, <2>2, <2>4, <2>5, <2>6, <2>7
        DEF ExchangeSucceeds, TypeOK, Inv, Running
<1>7. ASSUME NEW t \in Threads, ExchangeFails(t) PROVE Inv'
    <2>1. TypeOK'
        BY <1>0, <1>7 DEF ExchangeFails, TypeOK
    <2>2. QED
        BY <1>0, <1>7, <2>1
        DEF ExchangeFails, TypeOK, Inv, Running, DriftBounded, NoSharedStamp,
            Before, AtMost
<1>8. CASE UNCHANGED vars
    BY <1>8 DEF vars, Inv, TypeOK, Running, DriftBounded, NoSharedStamp,
                Before, AtMost
<1>9. QED
    BY <1>1, <1>2, <1>3, <1>4, <1>5, <1>6, <1>7, <1>8 DEF Next, Step

\* Inv holds in every reachable state.
THEOREM Invariance == Spec => []Inv
BY InitInv, NextInv, PTL DEF Spec

-----------------------------------------------------------------------------
\* Every variable of the generator keeps its type.
THEOREM TypeCorrect == Spec => []TypeOK
<1>1. Inv => TypeOK
    BY DEF Inv
<1>2. QED
    BY <1>1, Invariance, PTL

\* Two threads never obtain the same timestamp and sequence.
THEOREM Uniqueness == Spec => []NoSharedStamp
<1>1. Inv => NoSharedStamp
    BY DEF Inv
<1>2. QED
    BY <1>1, Invariance, PTL

\* The virtual clock is at most kMaxDriftMs ahead of the wall clock's peak.
THEOREM BoundedDrift == Spec => []DriftBounded
<1>1. Inv => DriftBounded
    BY DEF Inv
<1>2. QED
    BY <1>1, Invariance, PTL

\* A uuid is after every uuid returned before it, by whichever thread.
THEOREM CreationOrder == Spec => LaterIsGreater
<1>1. Inv /\ [Next]_vars =>
        [ \A t \in Threads :
            (pc[t] = "exchange" /\ pc'[t] = "returned") =>
                \A u \in Threads : \A r \in issued[u] : Before(r, g_state')
        ]_vars
    <2> SUFFICES ASSUME Inv, [Next]_vars,
                        NEW t \in Threads,
                        pc[t] = "exchange", pc'[t] = "returned",
                        NEW u \in Threads, NEW r \in issued[u]
                 PROVE  Before(r, g_state')
        OBVIOUS
    <2>1. TypeOK
        BY DEF Inv
    <2>2. ExchangeSucceeds(t)
        BY <2>1 DEF Next, Step, SetClock, Construct, ReadClock,
            LoadAndCompute, GiveUp, ExchangeSucceeds, ExchangeFails, vars,
            TypeOK
    <2>3. g_state' = next[t] /\ Before(g_state, next[t])
        BY <2>2 DEF ExchangeSucceeds, Inv
    <2>4. r \in Stamp /\ next[t] \in Stamp /\ g_state \in Stamp
        BY <2>1 DEF TypeOK
    <2>5. QED
        BY <2>3, <2>4, BeforeOrder DEF Inv, AtMost
<1>2. QED
    BY <1>1, Invariance, PTL DEF Spec, LaterIsGreater

-----------------------------------------------------------------------------
-----------------------------------------------------------------------------
(* The parts of a model, as the proofs take them. *)

\* The parts of a model, one predicate for those that have to agree.
Fields == {"dim", "components", "inactive", "mesh_components",
           "collection_components", "registered", "relations",
           "unique_vertex", "component_vertices"}
IsRecord(m) == m = [f \in Fields |-> m[f]]

\* The kinds and the components of the two registries.
Listed(components, ks) ==
    [k \in Kinds |-> IF k \in ks THEN components[k] ELSE <<>>]

StorageHolds(m) ==
    /\ m.dim \in {2, 3}
    /\ m.components \in [Kinds -> Seq(Ids)]
    /\ \A k \in Kinds : IsInjective(m.components[k])
    /\ \A k, l \in Kinds : k # l => Stored(m, k) \cap Stored(m, l) = {}
    /\ m.inactive \subseteq AllStored(m)
    /\ m.mesh_components = Listed(m.components, MeshKinds)
    /\ m.collection_components = Listed(m.components, Kinds \ MeshKinds)

\* r is a relation of a type between two components of S.
IsTriple(r, S, types) ==
    /\ r = <<r[1], r[2], r[3]>>
    /\ r[1] \in S /\ r[2] \in S /\ r[3] \in types

RelationsHold(m) ==
    /\ m.registered \in [DOMAIN m.registered -> Kinds]
    /\ \A id \in DOMAIN m.registered : id \in Stored(m, m.registered[id])
    /\ \A r \in m.relations : IsTriple(r, DOMAIN m.registered, RelationTypes)
    /\ RelationsFit(m)

\* x is a vertex of a component, whose unique vertex is u.
IsListed(m, x, u) ==
    \E id \in DOMAIN m.unique_vertex : \E v \in DOMAIN m.unique_vertex[id] :
        x = <<StoredKind(m, id), id, v>> /\ m.unique_vertex[id][v] = u

IsVertexVector(f, n) ==
    \E p \in Nat : f \in [IndexRange(p) -> IndexRange(n) \cup {NoId}]

VerticesHold(m) ==
    \E n \in Nat :
        /\ m.component_vertices
            = [u \in IndexRange(n) |-> m.component_vertices[u]]
        /\ m.unique_vertex
            = [id \in MeshComponents(m) |-> m.unique_vertex[id]]
        /\ \A id \in MeshComponents(m) : IsVertexVector(m.unique_vertex[id], n)
        /\ \A u \in IndexRange(n) : \A x :
                x \in m.component_vertices[u] <=> IsListed(m, x, u)

\* They make a model.
LEMMA PartsOfModel ==
    ASSUME NEW m
    PROVE  IsModel(m) <=> /\ IsRecord(m)
                          /\ StorageHolds(m)
                          /\ RelationsHold(m)
                          /\ VerticesHold(m)
<1>1. ASSUME IsModel(m)
      PROVE  IsRecord(m)
    BY <1>1 DEF IsModel, WellTyped, IsRecord, Fields
<1>2. ASSUME IsModel(m)
      PROVE  StorageHolds(m)
    <2>1. /\ m.dim \in {2, 3}
          /\ m.components \in [Kinds -> Seq(Ids)]
          /\ m.mesh_components \in [Kinds -> Seq(Ids)]
          /\ m.collection_components \in [Kinds -> Seq(Ids)]
        BY <1>2 DEF IsModel, WellTyped
    <2>2. \A k \in Kinds :
            /\ IsInjective(m.components[k])
            /\ m.mesh_components[k] =
                  IF k \in MeshKinds THEN m.components[k] ELSE <<>>
            /\ m.collection_components[k] =
                  IF k \in MeshKinds THEN <<>> ELSE m.components[k]
            /\ \A l \in Kinds \ {k} : Stored(m, k) \cap Stored(m, l) = {}
        BY <1>2 DEF IsModel, Agree
    <2>3. m.inactive \subseteq AllStored(m)
        BY <1>2 DEF IsModel, Agree
    <2>4. /\ m.mesh_components = Listed(m.components, MeshKinds)
          /\ m.collection_components = Listed(m.components, Kinds \ MeshKinds)
        BY <2>1, <2>2 DEF Listed
    <2>5. QED
        BY <2>1, <2>2, <2>3, <2>4 DEF StorageHolds
<1>3. ASSUME IsModel(m)
      PROVE  RelationsHold(m)
    <2>1. /\ m.registered \in [DOMAIN m.registered -> Kinds]
          /\ m.relations \in SUBSET (Ids \X Ids \X RelationTypes)
        BY <1>3 DEF IsModel, WellTyped
    <2>2. /\ \A id \in DOMAIN m.registered : id \in Stored(m, m.registered[id])
          /\ \A r \in m.relations : {r[1], r[2]} \subseteq DOMAIN m.registered
        BY <1>3 DEF IsModel, Agree
    <2>3. ASSUME NEW r \in m.relations
          PROVE  IsTriple(r, DOMAIN m.registered, RelationTypes)
        <3>1. r \in Ids \X Ids \X RelationTypes
            BY <2>1
        <3>2. r[1] \in DOMAIN m.registered /\ r[2] \in DOMAIN m.registered
            BY <2>2
        <3>3. QED
            BY <3>1, <3>2 DEF IsTriple
    <2>4. QED
        BY <1>3, <2>1, <2>2, <2>3 DEF RelationsHold, IsModel
<1>4. ASSUME IsModel(m)
      PROVE  VerticesHold(m)
    <2> DEFINE n == NbUniqueVertices(m)
               cvs == m.component_vertices
    <2>1. /\ n \in Nat
          /\ cvs \in [IndexRange(n) -> SUBSET ComponentVertices(m)]
          /\ \A id \in DOMAIN m.unique_vertex :
                IsVectorOf(m.unique_vertex[id], IndexRange(n) \cup {NoId})
          /\ m.unique_vertex \in [DOMAIN m.unique_vertex
                                    -> Range(m.unique_vertex)]
        BY <1>4 DEF IsModel, WellTyped, IsVectorOf, NbUniqueVertices
    <2>2. /\ DOMAIN m.unique_vertex = MeshComponents(m)
          /\ \A u \in IndexRange(n) : cvs[u] =
                {cv \in ComponentVertices(m) :
                    m.unique_vertex[cv[2]][cv[3]] = u}
        BY <1>4, <2>1 DEF IsModel, Agree
    <2>3. ASSUME NEW u \in IndexRange(n), NEW x
          PROVE  x \in cvs[u] <=> IsListed(m, x, u)
        BY <2>2 DEF IsListed, ComponentVertices
    <2>4. \A id \in MeshComponents(m) : IsVertexVector(m.unique_vertex[id], n)
        BY <2>1, <2>2 DEF IsVectorOf, IsVertexVector
    <2>5. /\ cvs = [u \in IndexRange(n) |-> cvs[u]]
          /\ m.unique_vertex
              = [id \in MeshComponents(m) |-> m.unique_vertex[id]]
        BY <2>1, <2>2
    <2> HIDE DEF n
    <2>6. QED
        BY <2>1, <2>3, <2>4, <2>5 DEF VerticesHold
<1>5. ASSUME IsRecord(m), StorageHolds(m), RelationsHold(m), VerticesHold(m)
      PROVE  IsModel(m)
    <2> DEFINE cvs == m.component_vertices
    <2>1. PICK n \in Nat :
            /\ cvs = [u \in IndexRange(n) |-> cvs[u]]
            /\ m.unique_vertex
                = [id \in MeshComponents(m) |-> m.unique_vertex[id]]
            /\ \A id \in MeshComponents(m) :
                    IsVertexVector(m.unique_vertex[id], n)
            /\ \A u \in IndexRange(n) : \A x :
                    x \in cvs[u] <=> IsListed(m, x, u)
        BY <1>5 DEF VerticesHold
    <2>2. /\ DOMAIN cvs = IndexRange(n)
          /\ DOMAIN m.unique_vertex = MeshComponents(m)
        BY <2>1
    <2>3. Size(cvs) = n
        BY <2>2, SizeOfVector
    <2>4. \A u \in IndexRange(n) : cvs[u] =
                {cv \in ComponentVertices(m) :
                    m.unique_vertex[cv[2]][cv[3]] = u}
        BY <2>1 DEF IsListed, ComponentVertices
    <2>5. IsVectorOf(cvs, SUBSET ComponentVertices(m))
        <3>1. cvs \in [IndexRange(n) -> SUBSET ComponentVertices(m)]
            BY <2>1, <2>4
        <3>2. QED
            BY <2>3, <3>1 DEF IsVectorOf
    <2>6. ASSUME NEW id \in DOMAIN m.unique_vertex
          PROVE  IsVectorOf(m.unique_vertex[id], DOMAIN cvs \cup {NoId})
        <3>1. PICK p \in Nat :
                m.unique_vertex[id] \in [IndexRange(p)
                                            -> IndexRange(n) \cup {NoId}]
            BY <2>1, <2>2 DEF IsVertexVector
        <3>2. Size(m.unique_vertex[id]) = p
            BY <3>1, SizeOfVector
        <3>3. QED
            BY <2>2, <3>1, <3>2 DEF IsVectorOf
    <2>7. AllStored(m) \subseteq Ids
        BY <1>5, ElementOfSeq DEF StorageHolds, AllStored, Stored, ToSet
    <2>8. DOMAIN m.registered \subseteq Ids
        BY <1>5, <2>7 DEF RelationsHold, AllStored
    <2>9. WellTyped(m)
        <3>1. ASSUME NEW r \in m.relations
              PROVE  r \in Ids \X Ids \X RelationTypes
            <4>1. IsTriple(r, DOMAIN m.registered, RelationTypes)
                BY <1>5 DEF RelationsHold
            <4>2. QED
                BY <2>8, <4>1 DEF IsTriple
        <3>2. /\ m.mesh_components \in [Kinds -> Seq(Ids)]
              /\ m.collection_components \in [Kinds -> Seq(Ids)]
            BY <1>5 DEF StorageHolds, Listed
        <3>3. m.unique_vertex \in [DOMAIN m.unique_vertex
                                    -> Range(m.unique_vertex)]
            BY <2>1 DEF Range
        <3>4. /\ m.dim \in {2, 3}
              /\ m.components \in [Kinds -> Seq(Ids)]
              /\ m.inactive \subseteq Ids
              /\ m.registered \in [DOMAIN m.registered -> Kinds]
            BY <1>5, <2>7 DEF StorageHolds, RelationsHold
        <3>5. QED
            BY <1>5, <2>5, <2>6, <3>1, <3>2, <3>3, <3>4
            DEF WellTyped, IsRecord, Fields
    <2>10. Agree(m)
        <3>1. \A k \in Kinds :
                /\ IsInjective(m.components[k])
                /\ m.mesh_components[k] =
                      IF k \in MeshKinds THEN m.components[k] ELSE <<>>
                /\ m.collection_components[k] =
                      IF k \in MeshKinds THEN <<>> ELSE m.components[k]
                /\ \A l \in Kinds \ {k} : Stored(m, k) \cap Stored(m, l) = {}
            BY <1>5 DEF StorageHolds, Listed
        <3>2. \A r \in m.relations : {r[1], r[2]} \subseteq DOMAIN m.registered
            BY <1>5 DEF RelationsHold, IsTriple
        <3>3. QED
            BY <1>5, <2>2, <2>4, <3>1, <3>2
            DEF Agree, StorageHolds, RelationsHold
    <2>11. QED
        BY <1>5, <2>9, <2>10 DEF IsModel, RelationsHold
<1>6. QED
    BY <1>1, <1>2, <1>3, <1>4, <1>5
-----------------------------------------------------------------------------
(* The loops of the code, turn by turn. *)

\* The N elements of a set in a list, each once.
ListsAll(list, N, S) ==
    /\ \A n \in 1 .. N : list[n] \in S
    /\ \A x \in S : \E n \in 1 .. N : list[n] = x
    /\ \A i, j \in 1 .. N : list[i] = list[j] => i = j

\* SetToSeq() lists each element once.
LEMMA ListedElements ==
    ASSUME NEW S, IsFiniteSet(S)
    PROVE  LET list == SetToSeq(S)
           IN  Len(list) \in Nat /\ ListsAll(list, Len(list), S)
<1> DEFINE list == SetToSeq(S)
<1>1. /\ list \in Seq(S)
      /\ \A x \in S : \E n \in 1 .. Len(list) : list[n] = x
      /\ NoRepeat(list)
    BY ListedSet
<1> HIDE DEF list
<1>2. Len(list) \in Nat /\ ListsAll(list, Len(list), S)
    BY <1>1 DEF ListsAll, NoRepeat
<1>3. QED
    BY <1>2 DEF list

\* f[n] is what RelateAll() has after the n-th of the N elements it lists.
RelateAllTurns(m, relations, N, list, f) ==
    /\ ListsAll(list, N, relations)
    /\ f[0] = m
    /\ \A n \in 1 .. N : f[n] =
          Relate(f[n - 1], list[n][1], list[n][2], list[n][3])
    /\ RelateAll(m, relations) = f[N]

\* The turns of RelateAll().
LEMMA TurnsOfRelateAll ==
    ASSUME NEW m, NEW relations,
           IsFiniteSet(relations)
    PROVE  \E N \in Nat : \E list, f :
              RelateAllTurns(m, relations, N, list, f)
<1> DEFINE list == SetToSeq(relations)
           N == Len(list)
           turn(acc, x) == Relate(acc, x[1], x[2], x[3])
           Runs(f, n) == /\ f = [k \in 0 .. n |-> f[k]]
                         /\ f[0] = m
                         /\ \A k \in 1 .. n : f[k] = turn(f[k - 1], list[k])
           IsFold(f) == f = [n \in 0 .. N |-> IF n = 0 THEN m
                                            ELSE turn(f[n - 1], list[n])]
           fold == CHOOSE f : IsFold(f)
           R == {n \in Nat : \E f : Runs(f, n)}
<1>1. N \in Nat /\ ListsAll(list, N, relations)
    BY ListedElements
<1>2. RelateAll(m, relations) = fold[N]
    BY DEF RelateAll, ForEach, FoldInOrder
<1> HIDE DEF turn, list
<1>3. 0 \in R
    <2>1. Runs([n \in 0 .. 0 |-> m], 0)
        OBVIOUS
    <2>2. QED
        BY <2>1
<1>4. ASSUME NEW n \in Nat, n \in R
      PROVE  n + 1 \in R
    <2>1. PICK f : Runs(f, n)
        BY <1>4
    <2> DEFINE g == [k \in 0 .. n + 1 |->
                        IF k = n + 1 THEN turn(f[n], list[n + 1]) ELSE f[k]]
    <2>2. \A k \in 1 .. n + 1 : g[k] = turn(g[k - 1], list[k])
        <3>1. \A k \in 1 .. n : g[k] = f[k] /\ g[k - 1] = f[k - 1]
            OBVIOUS
        <3>2. g[n + 1] = turn(f[n], list[n + 1]) /\ g[n] = f[n]
            OBVIOUS
        <3>3. (n + 1) - 1 = n /\ 1 .. n + 1 = (1 .. n) \cup {n + 1}
            OBVIOUS
        <3> HIDE DEF g
        <3>4. QED
            BY <2>1, <3>1, <3>2, <3>3
    <2>3. g = [k \in 0 .. n + 1 |-> g[k]] /\ g[0] = m
        BY <2>1
    <2> HIDE DEF g
    <2>4. Runs(g, n + 1)
        BY <2>2, <2>3
    <2> HIDE DEF Runs
    <2>5. QED
        BY <2>4
<1>5. N \in R
    <2> HIDE DEF R, N
    <2>1. Nat \subseteq R
        BY <1>3, <1>4, SetInduction
    <2>2. QED
        BY <1>1, <2>1
<1>6. PICK f : Runs(f, N)
    BY <1>5
<1>7. IsFold(f)
    <2>1. f = [n \in 0 .. N |-> f[n]]
        BY <1>6
    <2>2. \A n \in 0 .. N : f[n] = IF n = 0 THEN m
                                          ELSE turn(f[n - 1], list[n])
        BY <1>1, <1>6
    <2> HIDE DEF turn, N
    <2>3. QED
        BY <2>1, <2>2
<1>8. IsFold(fold)
    BY <1>7
<1>9. /\ fold[0] = m
      /\ \A n \in 1 .. N : fold[n] = turn(fold[n - 1], list[n])
    <2> HIDE DEF fold
    <2>1. QED
        BY <1>1, <1>8
<1> HIDE DEF fold, N
<1>10. QED
    BY <1>1, <1>2, <1>9 DEF turn, RelateAllTurns

\* f[n] is what SetUniqueVertices() has after the n-th of the N elements it lists.
SetUniqueVerticesTurns(m, pairs, N, list, f) ==
    /\ ListsAll(list, N, pairs)
    /\ f[0] = m
    /\ \A n \in 1 .. N : f[n] =
          SetUniqueVertex(f[n - 1], list[n][1], list[n][2])
    /\ SetUniqueVertices(m, pairs) = f[N]

\* The turns of SetUniqueVertices().
LEMMA TurnsOfSetUniqueVertices ==
    ASSUME NEW m, NEW pairs,
           IsFiniteSet(pairs)
    PROVE  \E N \in Nat : \E list, f :
              SetUniqueVerticesTurns(m, pairs, N, list, f)
<1> DEFINE list == SetToSeq(pairs)
           N == Len(list)
           turn(acc, x) == SetUniqueVertex(acc, x[1], x[2])
           Runs(f, n) == /\ f = [k \in 0 .. n |-> f[k]]
                         /\ f[0] = m
                         /\ \A k \in 1 .. n : f[k] = turn(f[k - 1], list[k])
           IsFold(f) == f = [n \in 0 .. N |-> IF n = 0 THEN m
                                            ELSE turn(f[n - 1], list[n])]
           fold == CHOOSE f : IsFold(f)
           R == {n \in Nat : \E f : Runs(f, n)}
<1>1. N \in Nat /\ ListsAll(list, N, pairs)
    BY ListedElements
<1>2. SetUniqueVertices(m, pairs) = fold[N]
    BY DEF SetUniqueVertices, ForEach, FoldInOrder
<1> HIDE DEF turn, list
<1>3. 0 \in R
    <2>1. Runs([n \in 0 .. 0 |-> m], 0)
        OBVIOUS
    <2>2. QED
        BY <2>1
<1>4. ASSUME NEW n \in Nat, n \in R
      PROVE  n + 1 \in R
    <2>1. PICK f : Runs(f, n)
        BY <1>4
    <2> DEFINE g == [k \in 0 .. n + 1 |->
                        IF k = n + 1 THEN turn(f[n], list[n + 1]) ELSE f[k]]
    <2>2. \A k \in 1 .. n + 1 : g[k] = turn(g[k - 1], list[k])
        <3>1. \A k \in 1 .. n : g[k] = f[k] /\ g[k - 1] = f[k - 1]
            OBVIOUS
        <3>2. g[n + 1] = turn(f[n], list[n + 1]) /\ g[n] = f[n]
            OBVIOUS
        <3>3. (n + 1) - 1 = n /\ 1 .. n + 1 = (1 .. n) \cup {n + 1}
            OBVIOUS
        <3> HIDE DEF g
        <3>4. QED
            BY <2>1, <3>1, <3>2, <3>3
    <2>3. g = [k \in 0 .. n + 1 |-> g[k]] /\ g[0] = m
        BY <2>1
    <2> HIDE DEF g
    <2>4. Runs(g, n + 1)
        BY <2>2, <2>3
    <2> HIDE DEF Runs
    <2>5. QED
        BY <2>4
<1>5. N \in R
    <2> HIDE DEF R, N
    <2>1. Nat \subseteq R
        BY <1>3, <1>4, SetInduction
    <2>2. QED
        BY <1>1, <2>1
<1>6. PICK f : Runs(f, N)
    BY <1>5
<1>7. IsFold(f)
    <2>1. f = [n \in 0 .. N |-> f[n]]
        BY <1>6
    <2>2. \A n \in 0 .. N : f[n] = IF n = 0 THEN m
                                          ELSE turn(f[n - 1], list[n])
        BY <1>1, <1>6
    <2> HIDE DEF turn, N
    <2>3. QED
        BY <2>1, <2>2
<1>8. IsFold(fold)
    BY <1>7
<1>9. /\ fold[0] = m
      /\ \A n \in 1 .. N : fold[n] = turn(fold[n - 1], list[n])
    <2> HIDE DEF fold
    <2>1. QED
        BY <1>1, <1>8
<1> HIDE DEF fold, N
<1>10. QED
    BY <1>1, <1>2, <1>9 DEF turn, SetUniqueVerticesTurns

\* f[n] is what UpdateMeshes() has after the n-th of the N elements it lists.
UpdateMeshesTurns(m, meshes, N, list, f) ==
    /\ ListsAll(list, N, meshes)
    /\ f[0] = m
    /\ \A n \in 1 .. N : f[n] =
          UpdateMesh(f[n - 1], list[n][1], list[n][2])
    /\ UpdateMeshes(m, meshes) = f[N]

\* The turns of UpdateMeshes().
LEMMA TurnsOfUpdateMeshes ==
    ASSUME NEW m, NEW meshes,
           IsFiniteSet(meshes)
    PROVE  \E N \in Nat : \E list, f :
              UpdateMeshesTurns(m, meshes, N, list, f)
<1> DEFINE list == SetToSeq(meshes)
           N == Len(list)
           turn(acc, x) == UpdateMesh(acc, x[1], x[2])
           Runs(f, n) == /\ f = [k \in 0 .. n |-> f[k]]
                         /\ f[0] = m
                         /\ \A k \in 1 .. n : f[k] = turn(f[k - 1], list[k])
           IsFold(f) == f = [n \in 0 .. N |-> IF n = 0 THEN m
                                            ELSE turn(f[n - 1], list[n])]
           fold == CHOOSE f : IsFold(f)
           R == {n \in Nat : \E f : Runs(f, n)}
<1>1. N \in Nat /\ ListsAll(list, N, meshes)
    BY ListedElements
<1>2. UpdateMeshes(m, meshes) = fold[N]
    BY DEF UpdateMeshes, ForEach, FoldInOrder
<1> HIDE DEF turn, list
<1>3. 0 \in R
    <2>1. Runs([n \in 0 .. 0 |-> m], 0)
        OBVIOUS
    <2>2. QED
        BY <2>1
<1>4. ASSUME NEW n \in Nat, n \in R
      PROVE  n + 1 \in R
    <2>1. PICK f : Runs(f, n)
        BY <1>4
    <2> DEFINE g == [k \in 0 .. n + 1 |->
                        IF k = n + 1 THEN turn(f[n], list[n + 1]) ELSE f[k]]
    <2>2. \A k \in 1 .. n + 1 : g[k] = turn(g[k - 1], list[k])
        <3>1. \A k \in 1 .. n : g[k] = f[k] /\ g[k - 1] = f[k - 1]
            OBVIOUS
        <3>2. g[n + 1] = turn(f[n], list[n + 1]) /\ g[n] = f[n]
            OBVIOUS
        <3>3. (n + 1) - 1 = n /\ 1 .. n + 1 = (1 .. n) \cup {n + 1}
            OBVIOUS
        <3> HIDE DEF g
        <3>4. QED
            BY <2>1, <3>1, <3>2, <3>3
    <2>3. g = [k \in 0 .. n + 1 |-> g[k]] /\ g[0] = m
        BY <2>1
    <2> HIDE DEF g
    <2>4. Runs(g, n + 1)
        BY <2>2, <2>3
    <2> HIDE DEF Runs
    <2>5. QED
        BY <2>4
<1>5. N \in R
    <2> HIDE DEF R, N
    <2>1. Nat \subseteq R
        BY <1>3, <1>4, SetInduction
    <2>2. QED
        BY <1>1, <2>1
<1>6. PICK f : Runs(f, N)
    BY <1>5
<1>7. IsFold(f)
    <2>1. f = [n \in 0 .. N |-> f[n]]
        BY <1>6
    <2>2. \A n \in 0 .. N : f[n] = IF n = 0 THEN m
                                          ELSE turn(f[n - 1], list[n])
        BY <1>1, <1>6
    <2> HIDE DEF turn, N
    <2>3. QED
        BY <2>1, <2>2
<1>8. IsFold(fold)
    BY <1>7
<1>9. /\ fold[0] = m
      /\ \A n \in 1 .. N : fold[n] = turn(fold[n - 1], list[n])
    <2> HIDE DEF fold
    <2>1. QED
        BY <1>1, <1>8
<1> HIDE DEF fold, N
<1>10. QED
    BY <1>1, <1>2, <1>9 DEF turn, UpdateMeshesTurns

\* f[n] is what RemoveComponents() has after the n-th of the N elements it lists.
RemoveComponentsTurns(m, kind, ids, N, list, f) ==
    /\ ListsAll(list, N, ids)
    /\ f[0] = m
    /\ \A n \in 1 .. N : f[n] =
          RemoveComponent(f[n - 1], kind, list[n])
    /\ RemoveComponents(m, kind, ids) = f[N]

\* The turns of RemoveComponents().
LEMMA TurnsOfRemoveComponents ==
    ASSUME NEW m, NEW kind, NEW ids,
           IsFiniteSet(ids)
    PROVE  \E N \in Nat : \E list, f :
              RemoveComponentsTurns(m, kind, ids, N, list, f)
<1> DEFINE list == SetToSeq(ids)
           N == Len(list)
           turn(acc, x) == RemoveComponent(acc, kind, x)
           Runs(f, n) == /\ f = [k \in 0 .. n |-> f[k]]
                         /\ f[0] = m
                         /\ \A k \in 1 .. n : f[k] = turn(f[k - 1], list[k])
           IsFold(f) == f = [n \in 0 .. N |-> IF n = 0 THEN m
                                            ELSE turn(f[n - 1], list[n])]
           fold == CHOOSE f : IsFold(f)
           R == {n \in Nat : \E f : Runs(f, n)}
<1>1. N \in Nat /\ ListsAll(list, N, ids)
    BY ListedElements
<1>2. RemoveComponents(m, kind, ids) = fold[N]
    BY DEF RemoveComponents, ForEach, FoldInOrder
<1> HIDE DEF turn, list
<1>3. 0 \in R
    <2>1. Runs([n \in 0 .. 0 |-> m], 0)
        OBVIOUS
    <2>2. QED
        BY <2>1
<1>4. ASSUME NEW n \in Nat, n \in R
      PROVE  n + 1 \in R
    <2>1. PICK f : Runs(f, n)
        BY <1>4
    <2> DEFINE g == [k \in 0 .. n + 1 |->
                        IF k = n + 1 THEN turn(f[n], list[n + 1]) ELSE f[k]]
    <2>2. \A k \in 1 .. n + 1 : g[k] = turn(g[k - 1], list[k])
        <3>1. \A k \in 1 .. n : g[k] = f[k] /\ g[k - 1] = f[k - 1]
            OBVIOUS
        <3>2. g[n + 1] = turn(f[n], list[n + 1]) /\ g[n] = f[n]
            OBVIOUS
        <3>3. (n + 1) - 1 = n /\ 1 .. n + 1 = (1 .. n) \cup {n + 1}
            OBVIOUS
        <3> HIDE DEF g
        <3>4. QED
            BY <2>1, <3>1, <3>2, <3>3
    <2>3. g = [k \in 0 .. n + 1 |-> g[k]] /\ g[0] = m
        BY <2>1
    <2> HIDE DEF g
    <2>4. Runs(g, n + 1)
        BY <2>2, <2>3
    <2> HIDE DEF Runs
    <2>5. QED
        BY <2>4
<1>5. N \in R
    <2> HIDE DEF R, N
    <2>1. Nat \subseteq R
        BY <1>3, <1>4, SetInduction
    <2>2. QED
        BY <1>1, <2>1
<1>6. PICK f : Runs(f, N)
    BY <1>5
<1>7. IsFold(f)
    <2>1. f = [n \in 0 .. N |-> f[n]]
        BY <1>6
    <2>2. \A n \in 0 .. N : f[n] = IF n = 0 THEN m
                                          ELSE turn(f[n - 1], list[n])
        BY <1>1, <1>6
    <2> HIDE DEF turn, N
    <2>3. QED
        BY <2>1, <2>2
<1>8. IsFold(fold)
    BY <1>7
<1>9. /\ fold[0] = m
      /\ \A n \in 1 .. N : fold[n] = turn(fold[n - 1], list[n])
    <2> HIDE DEF fold
    <2>1. QED
        BY <1>1, <1>8
<1> HIDE DEF fold, N
<1>10. QED
    BY <1>1, <1>2, <1>9 DEF turn, RemoveComponentsTurns

\* f[n] is what StealMeshes() has after the n-th of the N elements it lists.
StealMeshesTurns(m, other, mapping, first, N, list, f) ==
    /\ ListsAll(list, N, DOMAIN mapping)
    /\ f[0] = m
    /\ \A n \in 1 .. N : f[n] =
          StealMesh(f[n - 1], list[n], other, mapping[list[n]], first)
    /\ StealMeshes(m, other, mapping, first) = f[N]

\* The turns of StealMeshes().
LEMMA TurnsOfStealMeshes ==
    ASSUME NEW m, NEW other, NEW mapping, NEW first,
           IsFiniteSet(DOMAIN mapping)
    PROVE  \E N \in Nat : \E list, f :
              StealMeshesTurns(m, other, mapping, first, N, list, f)
<1> DEFINE list == SetToSeq(DOMAIN mapping)
           N == Len(list)
           turn(acc, x) == StealMesh(acc, x, other, mapping[x], first)
           Runs(f, n) == /\ f = [k \in 0 .. n |-> f[k]]
                         /\ f[0] = m
                         /\ \A k \in 1 .. n : f[k] = turn(f[k - 1], list[k])
           IsFold(f) == f = [n \in 0 .. N |-> IF n = 0 THEN m
                                            ELSE turn(f[n - 1], list[n])]
           fold == CHOOSE f : IsFold(f)
           R == {n \in Nat : \E f : Runs(f, n)}
<1>1. N \in Nat /\ ListsAll(list, N, DOMAIN mapping)
    BY ListedElements
<1>2. StealMeshes(m, other, mapping, first) = fold[N]
    BY DEF StealMeshes, ForEach, FoldInOrder
<1> HIDE DEF turn, list
<1>3. 0 \in R
    <2>1. Runs([n \in 0 .. 0 |-> m], 0)
        OBVIOUS
    <2>2. QED
        BY <2>1
<1>4. ASSUME NEW n \in Nat, n \in R
      PROVE  n + 1 \in R
    <2>1. PICK f : Runs(f, n)
        BY <1>4
    <2> DEFINE g == [k \in 0 .. n + 1 |->
                        IF k = n + 1 THEN turn(f[n], list[n + 1]) ELSE f[k]]
    <2>2. \A k \in 1 .. n + 1 : g[k] = turn(g[k - 1], list[k])
        <3>1. \A k \in 1 .. n : g[k] = f[k] /\ g[k - 1] = f[k - 1]
            OBVIOUS
        <3>2. g[n + 1] = turn(f[n], list[n + 1]) /\ g[n] = f[n]
            OBVIOUS
        <3>3. (n + 1) - 1 = n /\ 1 .. n + 1 = (1 .. n) \cup {n + 1}
            OBVIOUS
        <3> HIDE DEF g
        <3>4. QED
            BY <2>1, <3>1, <3>2, <3>3
    <2>3. g = [k \in 0 .. n + 1 |-> g[k]] /\ g[0] = m
        BY <2>1
    <2> HIDE DEF g
    <2>4. Runs(g, n + 1)
        BY <2>2, <2>3
    <2> HIDE DEF Runs
    <2>5. QED
        BY <2>4
<1>5. N \in R
    <2> HIDE DEF R, N
    <2>1. Nat \subseteq R
        BY <1>3, <1>4, SetInduction
    <2>2. QED
        BY <1>1, <2>1
<1>6. PICK f : Runs(f, N)
    BY <1>5
<1>7. IsFold(f)
    <2>1. f = [n \in 0 .. N |-> f[n]]
        BY <1>6
    <2>2. \A n \in 0 .. N : f[n] = IF n = 0 THEN m
                                          ELSE turn(f[n - 1], list[n])
        BY <1>1, <1>6
    <2> HIDE DEF turn, N
    <2>3. QED
        BY <2>1, <2>2
<1>8. IsFold(fold)
    BY <1>7
<1>9. /\ fold[0] = m
      /\ \A n \in 1 .. N : fold[n] = turn(fold[n - 1], list[n])
    <2> HIDE DEF fold
    <2>1. QED
        BY <1>1, <1>8
<1> HIDE DEF fold, N
<1>10. QED
    BY <1>1, <1>2, <1>9 DEF turn, StealMeshesTurns
-----------------------------------------------------------------------------
(* Identified vertices, and the meshes they are vertices of. *)

\* The components of a model depend on its storages only.
LEMMA SameComponents ==
    ASSUME NEW m, NEW r, r.components = m.components
    PROVE  /\ \A k : Stored(r, k) = Stored(m, k)
           /\ AllStored(r) = AllStored(m)
           /\ MeshComponents(r) = MeshComponents(m)
           /\ \A id : StoredKind(r, id) = StoredKind(m, id)
BY DEF Stored, AllStored, MeshComponents, StoredKind

\* A step that leaves the storages and the registry alone leaves them as they
\* have to be.
LEMMA SameStorage ==
    ASSUME NEW m, NEW r, StorageHolds(m), r.dim = m.dim,
           r.components = m.components, r.inactive = m.inactive,
           r.mesh_components = m.mesh_components,
           r.collection_components = m.collection_components
    PROVE  StorageHolds(r)
BY SameComponents DEF StorageHolds

\* The same for the relations, the components being the same.
LEMMA SameRelations ==
    ASSUME NEW m, NEW r, RelationsHold(m), r.dim = m.dim,
           r.components = m.components, r.registered = m.registered,
           r.relations = m.relations
    PROVE  RelationsHold(r)
<1>1. RelationsFit(r)
    BY DEF RelationsHold, RelationsFit
<1>2. QED
    BY <1>1, SameComponents DEF RelationsHold

\* The same for the vertices.
LEMMA SameVertices ==
    ASSUME NEW m, NEW r, VerticesHold(m),
           r.components = m.components, r.unique_vertex = m.unique_vertex,
           r.component_vertices = m.component_vertices
    PROVE  VerticesHold(r)
<1>1. \A x, u : IsListed(r, x, u) <=> IsListed(m, x, u)
    BY SameComponents DEF IsListed
<1>2. QED
    BY <1>1, SameComponents DEF VerticesHold

\* A component is stored under one kind.
LEMMA KindOfStored ==
    ASSUME NEW m, StorageHolds(m), NEW k \in Kinds, NEW id \in Stored(m, k)
    PROVE  StoredKind(m, id) = k /\ id \in AllStored(m) /\ id \in Ids
<1>1. \A l \in Kinds : id \in Stored(m, l) => l = k
    BY DEF StorageHolds
<1>2. id \in Ids
    BY ElementOfSeq DEF StorageHolds, Stored, ToSet
<1>3. QED
    BY <1>1, <1>2 DEF StoredKind, AllStored

\* The unique vertices of a model, and the attributes of its meshes.
LEMMA VerticesOfModel ==
    ASSUME NEW m, IsModel(m)
    PROVE  /\ NbUniqueVertices(m) \in Nat
           /\ DOMAIN m.component_vertices = IndexRange(NbUniqueVertices(m))
           /\ m.component_vertices = [u \in IndexRange(NbUniqueVertices(m)) |->
                                        m.component_vertices[u]]
           /\ DOMAIN m.unique_vertex = MeshComponents(m)
           /\ m.unique_vertex
                = [id \in MeshComponents(m) |-> m.unique_vertex[id]]
           /\ \A id \in MeshComponents(m) :
                IsVertexVector(m.unique_vertex[id], NbUniqueVertices(m))
           /\ \A u \in IndexRange(NbUniqueVertices(m)) : \A x :
                x \in m.component_vertices[u] <=> IsListed(m, x, u)
<1>1. VerticesHold(m)
    BY PartsOfModel
<1>2. PICK n \in Nat :
        /\ m.component_vertices
            = [u \in IndexRange(n) |-> m.component_vertices[u]]
        /\ m.unique_vertex
            = [id \in MeshComponents(m) |-> m.unique_vertex[id]]
        /\ \A id \in MeshComponents(m) : IsVertexVector(m.unique_vertex[id], n)
        /\ \A u \in IndexRange(n) : \A x :
                x \in m.component_vertices[u] <=> IsListed(m, x, u)
    BY <1>1 DEF VerticesHold
<1>3. DOMAIN m.component_vertices = IndexRange(n)
    BY <1>2
<1>4. NbUniqueVertices(m) = n
    BY <1>3, SizeOfVector DEF NbUniqueVertices
<1>5. QED
    BY <1>2, <1>3, <1>4

\* The models m and r differ in what they know of their vertices.
DifferInVertices(m, r) ==
    /\ IsRecord(r)
    /\ r.dim = m.dim
    /\ r.components = m.components
    /\ r.inactive = m.inactive
    /\ r.mesh_components = m.mesh_components
    /\ r.collection_components = m.collection_components
    /\ r.registered = m.registered
    /\ r.relations = m.relations

\* If only the vertices change, only they have to be looked at.
LEMMA VerticesChanged ==
    ASSUME NEW m, IsModel(m), NEW r, DifferInVertices(m, r), VerticesHold(r)
    PROVE  IsModel(r)
<1>1. StorageHolds(m) /\ RelationsHold(m)
    BY PartsOfModel
<1>2. StorageHolds(r) /\ RelationsHold(r)
    BY <1>1, SameStorage, SameRelations DEF DifferInVertices
<1>3. QED
    BY <1>2, PartsOfModel DEF DifferInVertices

\* A vertex of a component.
IsVertexOf(m, x) ==
    /\ x[2] \in MeshComponents(m)
    /\ x[3] \in DOMAIN m.unique_vertex[x[2]]
    /\ x = <<StoredKind(m, x[2]), x[2], x[3]>>

\* In r, the vertex x is in the list of u, if u is a unique vertex, and in no
\* other.
MovesVertex(m, r, x, u) ==
    /\ r.unique_vertex = [m.unique_vertex EXCEPT ![x[2]][x[3]] = u]
    /\ r.component_vertices = [w \in DOMAIN m.component_vertices |->
            (m.component_vertices[w] \ {x}) \cup (IF w = u THEN {x} ELSE {})]

\* set_unique_vertex() and unset_unique_vertex(): a component vertex that goes
\* from one list to another, or to none, leaves a model.
LEMMA MovedVertex ==
    ASSUME NEW m, IsModel(m), NEW x, IsVertexOf(m, x),
           NEW u \in DOMAIN m.component_vertices \cup {NoId},
           NEW r, DifferInVertices(m, r), MovesVertex(m, r, x, u)
    PROVE  IsModel(r)
<1> DEFINE n == NbUniqueVertices(m)
           cvs == m.component_vertices
           uv == m.unique_vertex
           c == x[2]
           v == x[3]
<1>1. /\ n \in Nat
      /\ DOMAIN cvs = IndexRange(n)
      /\ DOMAIN uv = MeshComponents(m)
      /\ \A id \in MeshComponents(m) : IsVertexVector(uv[id], n)
      /\ \A w \in IndexRange(n) : \A y : y \in cvs[w] <=> IsListed(m, y, w)
    BY VerticesOfModel
<1>2. /\ c \in MeshComponents(m)
      /\ v \in DOMAIN uv[c]
      /\ x = <<StoredKind(m, c), c, v>>
    BY DEF IsVertexOf
<1>3. /\ MeshComponents(r) = MeshComponents(m)
      /\ \A id : StoredKind(r, id) = StoredKind(m, id)
    BY SameComponents DEF DifferInVertices
<1> HIDE DEF n, uv, cvs, c, v
<1>4. /\ DOMAIN r.unique_vertex = MeshComponents(m)
      /\ r.unique_vertex = [id \in MeshComponents(m) |-> r.unique_vertex[id]]
      /\ r.unique_vertex[c] = [uv[c] EXCEPT ![v] = u]
      /\ \A id \in MeshComponents(m) \ {c} : r.unique_vertex[id] = uv[id]
    BY <1>1, <1>2 DEF MovesVertex, uv, c, v
<1>5. /\ r.component_vertices
            = [w \in IndexRange(n) |-> r.component_vertices[w]]
      /\ \A w \in IndexRange(n) : r.component_vertices[w]
            = (cvs[w] \ {x}) \cup (IF w = u THEN {x} ELSE {})
    BY <1>1 DEF MovesVertex, cvs
<1>6. u \in IndexRange(n) \cup {NoId}
    BY <1>1 DEF cvs
<1>7. \A id \in MeshComponents(m) : IsVertexVector(r.unique_vertex[id], n)
    BY <1>1, <1>2, <1>4, <1>6 DEF IsVertexVector
<1>8. /\ DOMAIN r.unique_vertex[c] = DOMAIN uv[c]
      /\ r.unique_vertex[c][v] = u
      /\ \A p \in DOMAIN uv[c] \ {v} : r.unique_vertex[c][p] = uv[c][p]
    BY <1>2, <1>4
<1>9. ASSUME NEW w \in IndexRange(n), NEW y
      PROVE  y \in r.component_vertices[w] <=> IsListed(r, y, w)
    <2>1. CASE y = x
        <3>1. IsListed(r, y, w) <=> w = u
            BY <1>2, <1>3, <1>4, <1>8, <2>1 DEF IsListed
        <3>2. QED
            BY <1>5, <2>1, <3>1
    <2>2. CASE y # x
        <3>1. IsListed(r, y, w) <=> IsListed(m, y, w)
            BY <1>1, <1>2, <1>3, <1>4, <1>8, <2>2 DEF IsListed, uv
        <3>2. QED
            BY <1>1, <1>5, <2>2, <3>1
    <2>3. QED
        BY <2>1, <2>2
<1>10. VerticesHold(r)
    BY <1>1, <1>3, <1>4, <1>5, <1>7, <1>9 DEF VerticesHold
<1>11. QED
    BY <1>10, VerticesChanged
\* The unique vertex of the vertex x of a component.
UniqueOf(m, x) == m.unique_vertex[x[2]][x[3]]

\* The lists are what the attributes say.
LEMMA ListedVertices ==
    ASSUME NEW m, IsModel(m)
    PROVE  /\ \A u \in DOMAIN m.component_vertices : \A x :
                x \in m.component_vertices[u]
                    <=> IsVertexOf(m, x) /\ UniqueOf(m, x) = u
           /\ \A x : IsVertexOf(m, x) =>
                UniqueOf(m, x) \in DOMAIN m.component_vertices \cup {NoId}
<1>1. /\ DOMAIN m.component_vertices = IndexRange(NbUniqueVertices(m))
      /\ DOMAIN m.unique_vertex = MeshComponents(m)
      /\ \A id \in MeshComponents(m) :
            IsVertexVector(m.unique_vertex[id], NbUniqueVertices(m))
      /\ \A u \in IndexRange(NbUniqueVertices(m)) : \A x :
            x \in m.component_vertices[u] <=> IsListed(m, x, u)
    BY VerticesOfModel
<1>2. \A x, u : IsListed(m, x, u)
            <=> IsVertexOf(m, x) /\ UniqueOf(m, x) = u
    BY <1>1 DEF IsListed, IsVertexOf, UniqueOf
<1>3. \A x : IsVertexOf(m, x) =>
        UniqueOf(m, x) \in IndexRange(NbUniqueVertices(m)) \cup {NoId}
    BY <1>1 DEF IsVertexOf, UniqueOf, IsVertexVector
<1>4. QED
    BY <1>1, <1>2, <1>3

\* The vertices of m and r are the same, those in S have other unique vertices.
SameVerticesBut(m, r, S) ==
    /\ \A x : IsVertexOf(r, x) <=> IsVertexOf(m, x)
    /\ \A x : IsVertexOf(m, x) /\ x \notin S => UniqueOf(r, x) = UniqueOf(m, x)
    /\ DOMAIN r.component_vertices = DOMAIN m.component_vertices
    /\ \A id \in MeshComponents(m) :
            DOMAIN r.unique_vertex[id] = DOMAIN m.unique_vertex[id]

\* Only the unique vertex of that component vertex changes.
LEMMA MovedVertexOnly ==
    ASSUME NEW m, IsModel(m), NEW x, IsVertexOf(m, x),
           NEW u, NEW r, DifferInVertices(m, r), MovesVertex(m, r, x, u)
    PROVE  SameVerticesBut(m, r, {x}) /\ UniqueOf(r, x) = u
<1> DEFINE c == x[2]
           v == x[3]
           uv == m.unique_vertex
<1>1. /\ c \in MeshComponents(m)
      /\ v \in DOMAIN uv[c]
      /\ x = <<StoredKind(m, c), c, v>>
    BY DEF IsVertexOf
<1>2. /\ MeshComponents(r) = MeshComponents(m)
      /\ \A id : StoredKind(r, id) = StoredKind(m, id)
    BY SameComponents DEF DifferInVertices
<1>3. DOMAIN uv = MeshComponents(m)
    BY VerticesOfModel
<1>4. DOMAIN r.component_vertices = DOMAIN m.component_vertices
    BY DEF MovesVertex
<1>5. r.unique_vertex = [uv EXCEPT ![c][v] = u]
    BY DEF MovesVertex
<1> HIDE DEF c, v, uv
<1>6. /\ \A id \in MeshComponents(m) : DOMAIN r.unique_vertex[id] = DOMAIN uv[id]
      /\ r.unique_vertex[c][v] = u
      /\ \A id \in MeshComponents(m) : \A p \in DOMAIN uv[id] :
            id # c \/ p # v => r.unique_vertex[id][p] = uv[id][p]
    BY <1>1, <1>3, <1>5
<1>7. \A y : IsVertexOf(r, y) <=> IsVertexOf(m, y)
    BY <1>2, <1>6 DEF IsVertexOf, uv
<1>8. UniqueOf(r, x) = u
    BY <1>6 DEF UniqueOf, c, v
<1>9. ASSUME NEW y, IsVertexOf(m, y), y # x
      PROVE  UniqueOf(r, y) = UniqueOf(m, y)
    BY <1>1, <1>6, <1>9 DEF IsVertexOf, UniqueOf, uv
<1>10. QED
    BY <1>4, <1>6, <1>7, <1>8, <1>9 DEF SameVerticesBut, uv

\* NO_ID is no unique vertex.
LEMMA NoIdIsNoVertex ==
    ASSUME NEW m, IsModel(m)
    PROVE  NoId \notin DOMAIN m.component_vertices
<1>1. /\ NbUniqueVertices(m) \in Nat
      /\ DOMAIN m.component_vertices = IndexRange(NbUniqueVertices(m))
    BY VerticesOfModel
<1>2. \A n \in Nat : NoId \notin IndexRange(n)
    BY DEF IndexRange, NoId
<1>3. QED
    BY <1>1, <1>2

\* unset_unique_vertex() takes the vertex out of its list.
LEMMA UnsetVertex ==
    ASSUME NEW m, IsModel(m), NEW x, IsVertexOf(m, x),
           NEW u \in DOMAIN m.component_vertices, UniqueOf(m, x) = u
    PROVE  LET r == UnsetUniqueVertex(m, x, u)
           IN  /\ IsModel(r)
               /\ DifferInVertices(m, r)
               /\ SameVerticesBut(m, r, {x})
               /\ UniqueOf(r, x) = NoId
<1> DEFINE r == UnsetUniqueVertex(m, x, u)
<1>1. IsRecord(m)
    BY PartsOfModel
<1>2. r = [m EXCEPT !.unique_vertex[x[2]][x[3]] = NoId,
                    !.component_vertices[u] = @ \ {x}]
    BY DEF UnsetUniqueVertex
<1> HIDE DEF r
<1>3. /\ DifferInVertices(m, r)
      /\ r.unique_vertex = [m.unique_vertex EXCEPT ![x[2]][x[3]] = NoId]
    BY <1>1, <1>2 DEF DifferInVertices, IsRecord, Fields
<1>4. r.component_vertices =
        [m.component_vertices EXCEPT ![u] = m.component_vertices[u] \ {x}]
    BY <1>1, <1>2 DEF IsRecord, Fields
<1>5. \A w \in DOMAIN m.component_vertices :
        x \in m.component_vertices[w] <=> w = u
    BY ListedVertices
<1>6. NoId \notin DOMAIN m.component_vertices
    BY NoIdIsNoVertex
<1>7. MovesVertex(m, r, x, NoId)
    <2>1. m.component_vertices = [w \in DOMAIN m.component_vertices |->
                                    m.component_vertices[w]]
        BY VerticesOfModel
    <2>2. r.component_vertices = [w \in DOMAIN m.component_vertices |->
            (m.component_vertices[w] \ {x})
                \cup (IF w = NoId THEN {x} ELSE {})]
        <3>1. \A w \in DOMAIN m.component_vertices :
                    r.component_vertices[w] =
                        (m.component_vertices[w] \ {x})
                            \cup (IF w = NoId THEN {x} ELSE {})
            BY <1>4, <1>5, <1>6
        <3>2. r.component_vertices = [w \in DOMAIN m.component_vertices |->
                                        r.component_vertices[w]]
            BY <1>4, <2>1
        <3>3. QED
            BY <3>1, <3>2
    <2>3. QED
        BY <1>3, <2>2 DEF MovesVertex
<1>8. QED
    BY <1>3, <1>7, MovedVertex, MovedVertexOnly DEF r

\* set_unique_vertex() moves the vertex from its list, if it is in any, to
\* the other.
LEMMA SetVertex ==
    ASSUME NEW m, IsModel(m), NEW x, IsVertexOf(m, x),
           NEW u \in DOMAIN m.component_vertices
    PROVE  LET r == SetUniqueVertex(m, x, u)
           IN  /\ IsModel(r)
               /\ DifferInVertices(m, r)
               /\ SameVerticesBut(m, r, {x})
               /\ UniqueOf(r, x) = u
<1> DEFINE before == UniqueOf(m, x)
           a == IF before = NoId THEN m ELSE UnsetUniqueVertex(m, x, before)
           r == [a EXCEPT !.unique_vertex[x[2]][x[3]] = u,
                          !.component_vertices[u] = @ \cup {x}]
<1>1. SetUniqueVertex(m, x, u) = r
    BY DEF SetUniqueVertex, UniqueOf
<1>2. before \in DOMAIN m.component_vertices \cup {NoId}
    BY ListedVertices
<1>3. /\ IsModel(a)
      /\ DifferInVertices(m, a)
      /\ SameVerticesBut(m, a, {x})
      /\ UniqueOf(a, x) = NoId
    <2>1. CASE before = NoId
        <3>1. DifferInVertices(m, m) /\ SameVerticesBut(m, m, {x})
            BY PartsOfModel DEF DifferInVertices, SameVerticesBut
        <3>2. QED
            BY <2>1, <3>1
    <2>2. CASE before # NoId
        BY <1>2, <2>2, UnsetVertex
    <2>3. QED
        BY <2>1, <2>2
<1> HIDE DEF a, before
<1>4. /\ IsVertexOf(a, x)
      /\ u \in DOMAIN a.component_vertices
      /\ IsRecord(a)
    BY <1>3, PartsOfModel DEF SameVerticesBut
<1>5. /\ DifferInVertices(a, r)
      /\ r.unique_vertex = [a.unique_vertex EXCEPT ![x[2]][x[3]] = u]
      /\ r.component_vertices =
            [a.component_vertices EXCEPT
                ![u] = a.component_vertices[u] \cup {x}]
    BY <1>4 DEF DifferInVertices, IsRecord, Fields
<1> HIDE DEF r
<1>6. DifferInVertices(a, r) /\ MovesVertex(a, r, x, u)
    <2>1. \A w \in DOMAIN a.component_vertices :
            x \notin a.component_vertices[w]
        <3>1. NoId \notin DOMAIN a.component_vertices
            BY <1>3, NoIdIsNoVertex
        <3>2. QED
            BY <1>3, <3>1, ListedVertices
    <2>2. a.component_vertices = [w \in DOMAIN a.component_vertices |->
                                    a.component_vertices[w]]
        BY <1>3, VerticesOfModel
    <2>3. r.component_vertices = [w \in DOMAIN a.component_vertices |->
            (a.component_vertices[w] \ {x}) \cup (IF w = u THEN {x} ELSE {})]
        <3>1. \A w \in DOMAIN a.component_vertices :
                    r.component_vertices[w] = (a.component_vertices[w] \ {x})
                        \cup (IF w = u THEN {x} ELSE {})
            BY <1>4, <1>5, <2>1
        <3>2. r.component_vertices = [w \in DOMAIN a.component_vertices |->
                                        r.component_vertices[w]]
            BY <1>5, <2>2
        <3>3. QED
            BY <3>1, <3>2
    <2>4. QED
        BY <1>5, <2>3 DEF MovesVertex
<1>7. /\ IsModel(r)
      /\ SameVerticesBut(a, r, {x})
      /\ UniqueOf(r, x) = u
    BY <1>3, <1>4, <1>6, MovedVertex, MovedVertexOnly
<1>8. DifferInVertices(m, r)
    BY <1>3, <1>6 DEF DifferInVertices
<1>9. SameVerticesBut(m, r, {x})
    <2>1. MeshComponents(a) = MeshComponents(m)
        BY <1>3, SameComponents DEF DifferInVertices
    <2>2. QED
        BY <1>3, <1>7, <2>1 DEF SameVerticesBut
<1>10. QED
    BY <1>1, <1>7, <1>8, <1>9 DEF r
\* Lists that are what the attributes say make a model.
LEMMA ListsOfVertices ==
    ASSUME NEW m, IsModel(m), NEW r, DifferInVertices(m, r), NEW n \in Nat,
           r.component_vertices
                = [u \in IndexRange(n) |-> r.component_vertices[u]],
           r.unique_vertex
                = [id \in MeshComponents(m) |-> r.unique_vertex[id]],
           \A id \in MeshComponents(m) : IsVertexVector(r.unique_vertex[id], n),
           \A u \in IndexRange(n) : \A x :
                x \in r.component_vertices[u]
                    <=> IsVertexOf(r, x) /\ UniqueOf(r, x) = u
    PROVE  IsModel(r) /\ NbUniqueVertices(r) = n
<1>1. /\ MeshComponents(r) = MeshComponents(m)
      /\ \A id : StoredKind(r, id) = StoredKind(m, id)
    BY SameComponents DEF DifferInVertices
<1>2. DOMAIN r.unique_vertex = MeshComponents(m)
    OBVIOUS
<1>3. \A x, u : IsListed(r, x, u)
            <=> IsVertexOf(r, x) /\ UniqueOf(r, x) = u
    BY <1>1, <1>2 DEF IsListed, IsVertexOf, UniqueOf
<1>4. VerticesHold(r)
    BY <1>1, <1>3 DEF VerticesHold
<1>5. DOMAIN r.component_vertices = IndexRange(n)
    OBVIOUS
<1>6. NbUniqueVertices(r) = n
    BY <1>5, SizeOfVector DEF NbUniqueVertices
<1>7. QED
    BY <1>4, <1>6, VerticesChanged

\* One after the other, each vertex gets the unique vertex it is paired with.
LEMMA SetVertices ==
    ASSUME NEW m, IsModel(m), NEW pairs, IsFiniteSet(pairs), NEW S,
           \A p \in pairs : /\ p[1] \in S
                            /\ IsVertexOf(m, p[1])
                            /\ p[2] \in DOMAIN m.component_vertices
    PROVE  LET r == SetUniqueVertices(m, pairs)
           IN  /\ IsModel(r)
               /\ DifferInVertices(m, r)
               /\ SameVerticesBut(m, r, S)
               /\ (\A p, q \in pairs : p[1] = q[1] => p[2] = q[2])
                    => \A p \in pairs : UniqueOf(r, p[1]) = p[2]
<1> DEFINE paired == \A p, q \in pairs : p[1] = q[1] => p[2] = q[2]
<1>1. PICK N \in Nat : \E list, f : SetUniqueVerticesTurns(m, pairs, N, list, f)
    BY TurnsOfSetUniqueVertices
<1>2. PICK list, f :
        /\ ListsAll(list, N, pairs)
        /\ f[0] = m
        /\ \A n \in 1 .. N : f[n] =
              SetUniqueVertex(f[n - 1], list[n][1], list[n][2])
        /\ SetUniqueVertices(m, pairs) = f[N]
    <2>1. PICK list, f : SetUniqueVerticesTurns(m, pairs, N, list, f)
        BY <1>1
    <2>2. QED
        BY <2>1 DEF SetUniqueVerticesTurns
<1> DEFINE P(n) == /\ IsModel(f[n])
                   /\ DifferInVertices(m, f[n])
                   /\ SameVerticesBut(m, f[n], S)
                   /\ paired => \A i \in 1 .. n :
                                    UniqueOf(f[n], list[i][1]) = list[i][2]
           R == {n \in Nat : n <= N => P(n)}
<1>3. 0 \in R
    <2>1. DifferInVertices(m, m) /\ SameVerticesBut(m, m, S)
        BY PartsOfModel DEF DifferInVertices, SameVerticesBut
    <2>2. P(0)
        BY <1>2, <2>1
    <2>3. QED
        BY <2>2
<1>4. ASSUME NEW n \in Nat, n \in R
      PROVE  n + 1 \in R
    <2>1. CASE n + 1 <= N
        <3> DEFINE x == list[n + 1][1]
                   u == list[n + 1][2]
                   a == f[n]
                   r == f[n + 1]
        <3>1. P(n)
            BY <1>2, <1>4, <2>1
        <3>2. n + 1 \in 1 .. N /\ (n + 1) - 1 = n
            BY <1>2, <2>1
        <3>3. r = SetUniqueVertex(a, x, u)
            BY <1>2, <3>2
        <3>4. list[n + 1] \in pairs
            BY <1>2, <3>2 DEF ListsAll
        <3>5. x \in S /\ IsVertexOf(m, x) /\ u \in DOMAIN m.component_vertices
            BY <3>4
        <3> HIDE DEF x, u, r
        <3>6. /\ IsModel(a)
              /\ IsVertexOf(a, x)
              /\ u \in DOMAIN a.component_vertices
            BY <3>1, <3>5 DEF SameVerticesBut
        <3>7. /\ IsModel(r)
              /\ DifferInVertices(a, r)
              /\ SameVerticesBut(a, r, {x})
              /\ UniqueOf(r, x) = u
            <4> HIDE DEF a
            <4>1. QED
                BY <3>3, <3>6, SetVertex
        <3>8. DifferInVertices(m, r)
            BY <3>1, <3>7 DEF DifferInVertices
        <3>9. SameVerticesBut(m, r, S)
            <4>1. MeshComponents(a) = MeshComponents(m)
                BY <3>1, SameComponents DEF DifferInVertices
            <4>2. QED
                BY <3>1, <3>5, <3>7, <4>1 DEF SameVerticesBut
        <3>10. ASSUME paired, NEW i \in 1 .. n + 1
               PROVE  UniqueOf(r, list[i][1]) = list[i][2]
            <4>1. i \in 1 .. N
                BY <1>2, <2>1
            <4>2. list[i] \in pairs
                BY <1>2, <4>1 DEF ListsAll
            <4>3. CASE list[i][1] = x
                BY <3>4, <3>7, <3>10, <4>2, <4>3 DEF x, u
            <4>4. CASE list[i][1] # x
                <5>1. i # n + 1
                    BY <4>4 DEF x
                <5>2. i \in 1 .. n
                    BY <5>1
                <5>3. UniqueOf(a, list[i][1]) = list[i][2]
                    BY <3>1, <3>10, <5>2
                <5>4. IsVertexOf(a, list[i][1])
                    BY <3>1, <4>2 DEF SameVerticesBut
                <5>5. QED
                    BY <3>7, <4>4, <5>3, <5>4 DEF SameVerticesBut
            <4>5. QED
                BY <4>3, <4>4
        <3>11. P(n + 1)
            BY <3>7, <3>8, <3>9, <3>10 DEF r
        <3>12. QED
            BY <3>11
    <2>2. CASE ~(n + 1 <= N)
        BY <2>2
    <2>3. QED
        BY <2>1, <2>2
<1>5. N \in R
    <2> HIDE DEF R
    <2>1. Nat \subseteq R
        BY <1>3, <1>4, SetInduction
    <2>2. QED
        BY <1>2, <2>1
<1>6. P(N)
    BY <1>2, <1>5
<1>7. ASSUME paired, NEW p \in pairs
      PROVE  UniqueOf(f[N], p[1]) = p[2]
    <2>1. PICK i \in 1 .. N : list[i] = p
        BY <1>2 DEF ListsAll
    <2>2. QED
        BY <1>6, <1>7, <2>1
<1>8. QED
    BY <1>2, <1>6, <1>7

\* create_unique_vertices() identifies nothing.
LEMMA CreatedVertices ==
    ASSUME NEW m, IsModel(m), NEW n \in Nat
    PROVE  LET r == CreateUniqueVertices(m, n)
           IN  /\ IsModel(r)
               /\ DifferInVertices(m, r)
               /\ r.unique_vertex = m.unique_vertex
               /\ NbUniqueVertices(r) = NbUniqueVertices(m) + n
<1> DEFINE r == CreateUniqueVertices(m, n)
           k == NbUniqueVertices(m)
           cvs == m.component_vertices
<1>1. /\ k \in Nat
      /\ DOMAIN cvs = IndexRange(k)
      /\ m.unique_vertex = [id \in MeshComponents(m) |-> m.unique_vertex[id]]
      /\ \A id \in MeshComponents(m) : IsVertexVector(m.unique_vertex[id], k)
    BY VerticesOfModel
<1>2. IsRecord(m)
    BY PartsOfModel
<1>3. /\ DifferInVertices(m, r)
      /\ r.unique_vertex = m.unique_vertex
      /\ r.component_vertices = [u \in IndexRange(k + n) |->
                                    IF u \in DOMAIN cvs THEN cvs[u] ELSE {}]
    BY <1>2 DEF DifferInVertices, IsRecord, Fields, CreateUniqueVertices,
                NbUniqueVertices
<1>4. /\ MeshComponents(r) = MeshComponents(m)
      /\ \A id : StoredKind(r, id) = StoredKind(m, id)
    BY <1>3, SameComponents DEF DifferInVertices
<1>5. /\ \A u \in DOMAIN cvs : \A x :
            x \in cvs[u] <=> IsVertexOf(m, x) /\ UniqueOf(m, x) = u
      /\ \A x : IsVertexOf(m, x) => UniqueOf(m, x) \in DOMAIN cvs \cup {NoId}
    BY ListedVertices
<1> HIDE DEF r, k, cvs
<1>6. \A x : /\ IsVertexOf(r, x) <=> IsVertexOf(m, x)
             /\ UniqueOf(r, x) = UniqueOf(m, x)
    BY <1>3, <1>4 DEF IsVertexOf, UniqueOf
<1>7. /\ k + n \in Nat
      /\ IndexRange(k) \subseteq IndexRange(k + n)
      /\ NoId \notin IndexRange(k + n)
    BY <1>1 DEF IndexRange, NoId
<1>8. ASSUME NEW u \in IndexRange(k + n), NEW x
      PROVE  x \in r.component_vertices[u]
                <=> IsVertexOf(r, x) /\ UniqueOf(r, x) = u
    BY <1>3, <1>5, <1>6, <1>7
<1>9. \A id \in MeshComponents(m) :
            IsVertexVector(r.unique_vertex[id], k + n)
    BY <1>1, <1>3, <1>7 DEF IsVertexVector
<1>10. r.component_vertices
            = [u \in IndexRange(k + n) |-> r.component_vertices[u]]
    BY <1>3
<1>11. IsModel(r) /\ NbUniqueVertices(r) = k + n
    BY <1>1, <1>3, <1>7, <1>8, <1>9, <1>10, ListsOfVertices
<1>12. QED
    BY <1>3, <1>11 DEF r, k
\* update_..._mesh(): a mesh none of whose vertices is identified.
LEMMA MeshUpdated ==
    ASSUME NEW m, IsModel(m), NEW id \in MeshComponents(m), NEW n \in Nat
    PROVE  LET r == UpdateMesh(m, id, n)
           IN  /\ IsModel(r)
               /\ DifferInVertices(m, r)
               /\ NbUniqueVertices(r) = NbUniqueVertices(m)
               /\ r.unique_vertex[id] = Unset(n)
               /\ \A c \in MeshComponents(m) \ {id} :
                        r.unique_vertex[c] = m.unique_vertex[c]
<1> DEFINE a == UnregisterMesh(m, id)
           r == UpdateMesh(m, id, n)
           k == NbUniqueVertices(m)
           cvs == m.component_vertices
           uv == m.unique_vertex
<1>1. /\ k \in Nat
      /\ DOMAIN cvs = IndexRange(k)
      /\ DOMAIN uv = MeshComponents(m)
      /\ uv = [c \in MeshComponents(m) |-> uv[c]]
      /\ \A c \in MeshComponents(m) : IsVertexVector(uv[c], k)
    BY VerticesOfModel
<1>2. IsRecord(m)
    BY PartsOfModel
<1>3. /\ DifferInVertices(m, a)
      /\ a.unique_vertex = Restrict(uv, DOMAIN uv \ {id})
      /\ a.component_vertices
            = [u \in DOMAIN cvs |-> {cv \in cvs[u] : cv[2] # id}]
    BY <1>2 DEF DifferInVertices, IsRecord, Fields, UnregisterMesh
<1> HIDE DEF a
<1>4. /\ r.unique_vertex = Joined([c \in {id} |-> Unset(n)], a.unique_vertex)
      /\ r.component_vertices = a.component_vertices
      /\ DifferInVertices(a, r)
    BY <1>3 DEF UpdateMesh, a, RegisterMesh, DifferInVertices, IsRecord, Fields
<1>5. DifferInVertices(m, r)
    BY <1>3, <1>4 DEF DifferInVertices
<1> HIDE DEF r
<1>6. /\ MeshComponents(r) = MeshComponents(m)
      /\ \A c : StoredKind(r, c) = StoredKind(m, c)
    BY <1>5, SameComponents DEF DifferInVertices
<1> HIDE DEF uv, cvs, k
<1>7. /\ r.unique_vertex = [c \in MeshComponents(m) |-> r.unique_vertex[c]]
      /\ r.unique_vertex[id] = Unset(n)
      /\ \A c \in MeshComponents(m) \ {id} : r.unique_vertex[c] = uv[c]
    <2>1. /\ DOMAIN a.unique_vertex = MeshComponents(m) \ {id}
          /\ \A c \in MeshComponents(m) \ {id} : a.unique_vertex[c] = uv[c]
        BY <1>1, <1>3 DEF Restrict
    <2>2. {id} \cup (MeshComponents(m) \ {id}) = MeshComponents(m)
        OBVIOUS
    <2>3. QED
        BY <1>4, <2>1, <2>2 DEF Joined
<1>8. \A c \in MeshComponents(m) : IsVertexVector(r.unique_vertex[c], k)
    <2>1. IsVertexVector(Unset(n), k)
        BY DEF IsVertexVector, Unset
    <2>2. QED
        BY <1>1, <1>7, <2>1
<1>9. /\ \A u \in DOMAIN cvs : \A x :
            x \in cvs[u] <=> IsVertexOf(m, x) /\ UniqueOf(m, x) = u
      /\ NoId \notin DOMAIN cvs
    BY ListedVertices, NoIdIsNoVertex DEF cvs
<1>10. ASSUME NEW u \in IndexRange(k), NEW x
       PROVE  x \in r.component_vertices[u]
                <=> IsVertexOf(r, x) /\ UniqueOf(r, x) = u
    <2>1. CASE x[2] = id
        <3>1. x \notin r.component_vertices[u]
            BY <1>1, <1>3, <1>4, <2>1
        <3>2. IsVertexOf(r, x) => UniqueOf(r, x) = NoId
            BY <1>7, <2>1 DEF IsVertexOf, UniqueOf, Unset
        <3>3. QED
            BY <1>1, <1>9, <3>1, <3>2
    <2>2. CASE x[2] # id
        <3>1. x \in r.component_vertices[u] <=> x \in cvs[u]
            BY <1>1, <1>3, <1>4, <2>2
        <3>2. IsVertexOf(r, x) <=> IsVertexOf(m, x)
            BY <1>6, <1>7, <2>2 DEF IsVertexOf, uv
        <3>3. IsVertexOf(m, x) => UniqueOf(r, x) = UniqueOf(m, x)
            BY <1>7, <2>2 DEF IsVertexOf, UniqueOf, uv
        <3>4. QED
            BY <1>1, <1>9, <3>1, <3>2, <3>3
    <2>3. QED
        BY <2>1, <2>2
<1>11. r.component_vertices = [u \in IndexRange(k) |-> r.component_vertices[u]]
    BY <1>1, <1>3, <1>4
<1>12. IsModel(r) /\ NbUniqueVertices(r) = k
    BY <1>1, <1>5, <1>7, <1>8, <1>10, <1>11, ListsOfVertices
<1>13. QED
    BY <1>5, <1>7, <1>12 DEF r, k, uv

\* Components change their meshes one after the other.
LEMMA MeshesUpdated ==
    ASSUME NEW m, IsModel(m), NEW meshes, IsFiniteSet(meshes), NEW S,
           \A p \in meshes : /\ p[1] \in S \cap MeshComponents(m)
                             /\ p[2] \in Nat
    PROVE  LET r == UpdateMeshes(m, meshes)
           IN  /\ IsModel(r)
               /\ DifferInVertices(m, r)
               /\ NbUniqueVertices(r) = NbUniqueVertices(m)
               /\ \A c \in MeshComponents(m) \ S :
                        r.unique_vertex[c] = m.unique_vertex[c]
               /\ (\A p, q \in meshes : p[1] = q[1] => p[2] = q[2])
                    => \A p \in meshes : r.unique_vertex[p[1]] = Unset(p[2])
<1> DEFINE paired == \A p, q \in meshes : p[1] = q[1] => p[2] = q[2]
<1>1. PICK N \in Nat : \E list, f : UpdateMeshesTurns(m, meshes, N, list, f)
    BY TurnsOfUpdateMeshes
<1>2. PICK list, f :
        /\ ListsAll(list, N, meshes)
        /\ f[0] = m
        /\ \A n \in 1 .. N : f[n] =
              UpdateMesh(f[n - 1], list[n][1], list[n][2])
        /\ UpdateMeshes(m, meshes) = f[N]
    <2>1. PICK list, f : UpdateMeshesTurns(m, meshes, N, list, f)
        BY <1>1
    <2>2. QED
        BY <2>1 DEF UpdateMeshesTurns
<1> DEFINE P(n) == /\ IsModel(f[n])
                   /\ DifferInVertices(m, f[n])
                   /\ NbUniqueVertices(f[n]) = NbUniqueVertices(m)
                   /\ \A c \in MeshComponents(m) \ S :
                        f[n].unique_vertex[c] = m.unique_vertex[c]
                   /\ paired => \A i \in 1 .. n :
                        f[n].unique_vertex[list[i][1]] = Unset(list[i][2])
           R == {n \in Nat : n <= N => P(n)}
<1>3. 0 \in R
    <2>1. DifferInVertices(m, m)
        BY PartsOfModel DEF DifferInVertices
    <2>2. P(0)
        BY <1>2, <2>1
    <2>3. QED
        BY <2>2
<1>4. ASSUME NEW n \in Nat, n \in R
      PROVE  n + 1 \in R
    <2>1. CASE n + 1 <= N
        <3> DEFINE id == list[n + 1][1]
                   a == f[n]
                   r == f[n + 1]
        <3>1. P(n)
            BY <1>1, <1>4, <2>1
        <3>2. n + 1 \in 1 .. N /\ (n + 1) - 1 = n
            BY <1>1, <2>1
        <3>3. r = UpdateMesh(a, id, list[n + 1][2])
            BY <1>2, <3>2
        <3>4. list[n + 1] \in meshes
            BY <1>2, <3>2 DEF ListsAll
        <3>5. id \in S /\ id \in MeshComponents(m) /\ list[n + 1][2] \in Nat
            BY <3>4
        <3>6. MeshComponents(a) = MeshComponents(m)
            BY <3>1, SameComponents DEF DifferInVertices
        <3> HIDE DEF id, r
        <3>7. /\ IsModel(r)
              /\ DifferInVertices(a, r)
              /\ NbUniqueVertices(r) = NbUniqueVertices(a)
              /\ r.unique_vertex[id] = Unset(list[n + 1][2])
              /\ \A c \in MeshComponents(m) \ {id} :
                    r.unique_vertex[c] = a.unique_vertex[c]
            BY <3>1, <3>3, <3>5, <3>6, MeshUpdated
        <3>8. DifferInVertices(m, r)
            BY <3>1, <3>7 DEF DifferInVertices
        <3>9. \A c \in MeshComponents(m) \ S :
                    r.unique_vertex[c] = m.unique_vertex[c]
            BY <3>1, <3>5, <3>7
        <3>10. ASSUME paired, NEW i \in 1 .. n + 1
               PROVE  r.unique_vertex[list[i][1]] = Unset(list[i][2])
            <4>1. i \in 1 .. N
                BY <1>1, <2>1
            <4>2. list[i] \in meshes
                BY <1>2, <4>1 DEF ListsAll
            <4>3. CASE list[i][1] = id
                BY <3>4, <3>7, <3>10, <4>2, <4>3 DEF id
            <4>4. CASE list[i][1] # id
                <5>1. i # n + 1
                    BY <4>4 DEF id
                <5>2. i \in 1 .. n
                    BY <5>1
                <5>3. QED
                    BY <3>1, <3>7, <3>10, <4>2, <4>4, <5>2
            <4>5. QED
                BY <4>3, <4>4
        <3>11. P(n + 1)
            BY <3>1, <3>7, <3>8, <3>9, <3>10 DEF r
        <3>12. QED
            BY <3>11
    <2>2. CASE ~(n + 1 <= N)
        BY <2>2
    <2>3. QED
        BY <2>1, <2>2
<1>5. N \in R
    <2> HIDE DEF R
    <2>1. Nat \subseteq R
        BY <1>3, <1>4, SetInduction
    <2>2. QED
        BY <1>1, <2>1
<1>6. P(N)
    BY <1>1, <1>5
<1>7. ASSUME paired, NEW p \in meshes
      PROVE  f[N].unique_vertex[p[1]] = Unset(p[2])
    <2>1. PICK i \in 1 .. N : list[i] = p
        BY <1>2 DEF ListsAll
    <2>2. QED
        BY <1>6, <1>7, <2>1
<1>8. QED
    BY <1>2, <1>6, <1>7
\* The vertices of m and r are the same, and are identified in r as in m.
IdentifiedAlike(m, r) ==
    /\ \A id \in MeshComponents(m) :
            DOMAIN r.unique_vertex[id] = DOMAIN m.unique_vertex[id]
    /\ \A x : IsVertexOf(r, x) <=> IsVertexOf(m, x)
    /\ \A x : IsVertexOf(m, x) =>
            (UniqueOf(r, x) = NoId <=> UniqueOf(m, x) = NoId)
    /\ \A x, y : IsVertexOf(m, x) /\ IsVertexOf(m, y) =>
            (UniqueOf(r, x) = UniqueOf(r, y)
                <=> UniqueOf(m, x) = UniqueOf(m, y))

\* delete_isolated_vertices() renumbers the unique vertices that are used, in
\* the lists and in the attributes.
LEMMA IsolatedDeleted ==
    ASSUME NEW m, IsModel(m)
    PROVE  LET r == DeleteIsolatedVertices(m)
           IN  IsModel(r) /\ DifferInVertices(m, r) /\ IdentifiedAlike(m, r)
<1> DEFINE n == NbUniqueVertices(m)
           cvs == m.component_vertices
           uv == m.unique_vertex
           D == {u \in DOMAIN cvs : cvs[u] = {}}
           old2new == MappingAfterDeletion(n, D)
           k == Cardinality(IndexRange(n) \ D)
           renumbered(u) == IF u = NoId THEN NoId ELSE old2new[u]
           r == DeleteIsolatedVertices(m)
<1>1. /\ n \in Nat
      /\ DOMAIN cvs = IndexRange(n)
      /\ DOMAIN uv = MeshComponents(m)
      /\ uv = [id \in MeshComponents(m) |-> uv[id]]
      /\ \A id \in MeshComponents(m) : IsVertexVector(uv[id], n)
    BY VerticesOfModel
<1>2. IsRecord(m)
    BY PartsOfModel
<1>3. /\ DifferInVertices(m, r)
      /\ r.component_vertices = DeleteElements(cvs, D)
      /\ r.unique_vertex = [id \in DOMAIN uv |->
                [v \in DOMAIN uv[id] |-> renumbered(uv[id][v])]]
    BY <1>2 DEF DifferInVertices, IsRecord, Fields, DeleteIsolatedVertices
<1>4. /\ MeshComponents(r) = MeshComponents(m)
      /\ \A id : StoredKind(r, id) = StoredKind(m, id)
    BY <1>3, SameComponents DEF DifferInVertices
<1>5. /\ \A u \in DOMAIN cvs : \A x :
            x \in cvs[u] <=> IsVertexOf(m, x) /\ UniqueOf(m, x) = u
      /\ \A x : IsVertexOf(m, x) => UniqueOf(m, x) \in DOMAIN cvs \cup {NoId}
      /\ NoId \notin DOMAIN cvs
    BY ListedVertices, NoIdIsNoVertex
<1> HIDE DEF r, n, cvs, old2new, k, renumbered
<1>6. /\ \A id \in MeshComponents(m) :
            DOMAIN r.unique_vertex[id] = DOMAIN uv[id]
      /\ \A id \in MeshComponents(m) : \A v \in DOMAIN uv[id] :
            r.unique_vertex[id][v] = renumbered(uv[id][v])
    BY <1>1, <1>3
<1>7. /\ \A x : IsVertexOf(r, x) <=> IsVertexOf(m, x)
      /\ \A x : IsVertexOf(m, x) => UniqueOf(r, x) = renumbered(UniqueOf(m, x))
    BY <1>4, <1>6 DEF IsVertexOf, UniqueOf
<1>8. \A x : IsVertexOf(m, x) /\ UniqueOf(m, x) # NoId
                => UniqueOf(m, x) \in IndexRange(n) \ D
    BY <1>1, <1>5
<1>9. \A u, w \in IndexRange(n) \ D : /\ old2new[u] \in IndexRange(k)
                                      /\ old2new[u] = old2new[w] => u = w
    BY <1>1, MappingIsOneToOne DEF old2new, k
<1>10. k \in Nat /\ NoId \notin IndexRange(k)
    <2>1. k \in Nat
        BY <1>1, DeletedVectorSize DEF k
    <2>2. QED
        BY <2>1 DEF IndexRange, NoId
<1>11. \A x : IsVertexOf(m, x) =>
            /\ UniqueOf(r, x) \in IndexRange(k) \cup {NoId}
            /\ UniqueOf(r, x) = NoId <=> UniqueOf(m, x) = NoId
    BY <1>7, <1>8, <1>9, <1>10 DEF renumbered
<1>12. ASSUME NEW x, NEW y, IsVertexOf(m, x), IsVertexOf(m, y)
       PROVE  UniqueOf(r, x) = UniqueOf(r, y)
                <=> UniqueOf(m, x) = UniqueOf(m, y)
    BY <1>7, <1>8, <1>9, <1>11, <1>12 DEF renumbered
<1>13. IdentifiedAlike(m, r)
    BY <1>6, <1>7, <1>11, <1>12 DEF IdentifiedAlike, uv
<1>14. \A id \in MeshComponents(m) : IsVertexVector(r.unique_vertex[id], k)
    <2>1. ASSUME NEW id \in MeshComponents(m)
          PROVE  IsVertexVector(r.unique_vertex[id], k)
        <3>1. \A v \in DOMAIN uv[id] :
                    r.unique_vertex[id][v] \in IndexRange(k) \cup {NoId}
            <4>1. ASSUME NEW v \in DOMAIN uv[id]
                  PROVE  r.unique_vertex[id][v] \in IndexRange(k) \cup {NoId}
                <5> DEFINE x == <<StoredKind(m, id), id, v>>
                <5>1. IsVertexOf(m, x) /\ UniqueOf(r, x) = r.unique_vertex[id][v]
                    BY DEF IsVertexOf, UniqueOf, uv
                <5> HIDE DEF x
                <5>2. QED
                    BY <1>11, <5>1
            <4>2. QED
                BY <4>1
        <3>2. PICK p \in Nat : DOMAIN uv[id] = IndexRange(p)
            BY <1>1 DEF IsVertexVector
        <3>3. r.unique_vertex[id] = [v \in DOMAIN uv[id] |->
                                        r.unique_vertex[id][v]]
            BY <1>1, <1>3
        <3>4. r.unique_vertex[id] \in [IndexRange(p)
                                        -> IndexRange(k) \cup {NoId}]
            BY <3>1, <3>2, <3>3
        <3>5. QED
            BY <3>4 DEF IsVertexVector
    <2>2. QED
        BY <2>1
<1>15. r.component_vertices = [u \in IndexRange(k) |-> r.component_vertices[u]]
    BY <1>1, <1>3 DEF DeleteElements, k
<1>16. ASSUME NEW u \in IndexRange(k), NEW x
       PROVE  x \in r.component_vertices[u]
                <=> IsVertexOf(r, x) /\ UniqueOf(r, x) = u
    <2>1. PICK w \in IndexRange(n) \ D :
                old2new[w] = u /\ r.component_vertices[u] = cvs[w]
        <3>1. u \in IndexRange(Cardinality(IndexRange(n) \ D))
            BY DEF k
        <3> HIDE DEF D
        <3>2. \E w \in IndexRange(n) \ D :
                /\ MappingAfterDeletion(n, D)[w] = u
                /\ DeleteElements(cvs, D)[u] = cvs[w]
            BY <1>1, <3>1, DeletedVectorComesFromKept
        <3>3. QED
            BY <1>3, <3>2 DEF old2new
    <2>2. w \in DOMAIN cvs /\ w # NoId
        BY <1>1, <1>5, <2>1
    <2>3. x \in r.component_vertices[u]
            <=> IsVertexOf(m, x) /\ UniqueOf(m, x) = w
        BY <1>5, <2>1, <2>2
    <2>4. IsVertexOf(m, x) => (UniqueOf(m, x) = w <=> UniqueOf(r, x) = u)
        BY <1>7, <1>8, <1>9, <1>10, <2>1, <2>2 DEF renumbered
    <2>5. QED
        BY <1>7, <2>3, <2>4
<1>17. r.unique_vertex = [id \in MeshComponents(m) |-> r.unique_vertex[id]]
    BY <1>1, <1>3
<1>18. IsModel(r)
    BY <1>3, <1>10, <1>14, <1>15, <1>16, <1>17, ListsOfVertices
<1>19. QED
    BY <1>3, <1>13, <1>18 DEF r
\* The image of a finite set is finite.
LEMMA ImageIsFinite ==
    ASSUME NEW S, IsFiniteSet(S), NEW f, DOMAIN f = S
    PROVE  IsFiniteSet({f[x] : x \in S})
<1> DEFINE T == {f[x] : x \in S}
           g == [x \in S |-> f[x]]
<1>1. g \in Surjection(S, T)
    BY DEF Surjection
<1> HIDE DEF g, T
<1>2. IsFiniteSet(T)
    BY <1>1, FS_Surjection
<1>3. QED
    BY <1>2 DEF T

\* A vector that holds what another does is the other.
LEMMA SameVertexVectors ==
    ASSUME NEW f, NEW n, IsVertexVector(f, n),
           NEW g, NEW k, IsVertexVector(g, k),
           DOMAIN f = DOMAIN g, \A v \in DOMAIN f : f[v] = g[v]
    PROVE  f = g
<1>1. f = [v \in DOMAIN f |-> f[v]] /\ g = [v \in DOMAIN g |-> g[v]]
    BY DEF IsVertexVector
<1>2. QED
    BY <1>1

\* These unique vertices, where the vertex 0 is "first".
Shifted(vertex, first) ==
    [v \in DOMAIN vertex |->
        IF vertex[v] = NoId THEN NoId ELSE first + vertex[v]]

\* A mesh changes hands with its unique vertices.
LEMMA MeshStolen ==
    ASSUME NEW m, IsModel(m), NEW c \in MeshComponents(m),
           NEW other, IsModel(other), NEW d \in MeshComponents(other),
           NEW first \in Nat,
           first + NbUniqueVertices(other) <= NbUniqueVertices(m)
    PROVE  LET r == StealMesh(m, c, other, d, first)
           IN  /\ IsModel(r)
               /\ DifferInVertices(m, r)
               /\ NbUniqueVertices(r) = NbUniqueVertices(m)
               /\ r.unique_vertex[c] = Shifted(other.unique_vertex[d], first)
               /\ \A e \in MeshComponents(m) \ {c} :
                        r.unique_vertex[e] = m.unique_vertex[e]
<1> DEFINE vertex == other.unique_vertex[d]
           p == Size(vertex)
           a == UpdateMesh(m, c, p)
           used == {v \in DOMAIN vertex : vertex[v] # NoId}
           x(v) == <<StoredKind(m, c), c, v>>
           pair == [v \in used |-> <<x(v), first + vertex[v]>>]
           pairs == {pair[v] : v \in used}
           S == {x(v) : v \in used}
           r == StealMesh(m, c, other, d, first)
           k == NbUniqueVertices(other)
           n == NbUniqueVertices(m)
<1>1. r = SetUniqueVertices(a, pairs)
    <2>1. pairs = {<<x(v), first + vertex[v]>> : v \in used}
        OBVIOUS
    <2> HIDE DEF pairs
    <2>2. QED
        BY <2>1 DEF StealMesh
<1>2. /\ k \in Nat
      /\ n \in Nat
      /\ IsVertexVector(vertex, k)
    BY VerticesOfModel
<1>3. PICK q \in Nat : vertex \in [IndexRange(q) -> IndexRange(k) \cup {NoId}]
    BY <1>2 DEF IsVertexVector
<1>4. p = q /\ DOMAIN vertex = IndexRange(q) /\ IsFiniteSet(IndexRange(q))
    BY <1>3, SizeOfVector
<1> HIDE DEF vertex, p, r, k, n
<1>5. /\ IsModel(a)
      /\ DifferInVertices(m, a)
      /\ NbUniqueVertices(a) = n
      /\ a.unique_vertex[c] = Unset(p)
      /\ \A e \in MeshComponents(m) \ {c} :
            a.unique_vertex[e] = m.unique_vertex[e]
    BY <1>4, MeshUpdated DEF n
<1> HIDE DEF a
<1>6. /\ MeshComponents(a) = MeshComponents(m)
      /\ \A id : StoredKind(a, id) = StoredKind(m, id)
    BY <1>5, SameComponents DEF DifferInVertices
<1>7. \A v \in used : IsVertexOf(a, x(v))
    BY <1>4, <1>5, <1>6 DEF IsVertexOf, Unset
<1>8. \A v \in used : first + vertex[v] \in DOMAIN a.component_vertices
    <2>1. DOMAIN a.component_vertices = IndexRange(n)
        BY <1>5, VerticesOfModel
    <2>2. \A v \in used : vertex[v] \in IndexRange(k)
        BY <1>3, <1>4
    <2>3. first + k <= n
        BY DEF k, n
    <2>4. \A u \in IndexRange(k) : first + u \in IndexRange(n)
        BY <1>2, <2>3 DEF IndexRange
    <2>5. QED
        BY <2>1, <2>2, <2>4
<1>9. IsFiniteSet(pairs)
    <2>1. IsFiniteSet(used)
        BY <1>4, FS_Subset
    <2>2. DOMAIN pair = used
        OBVIOUS
    <2> HIDE DEF pair, used
    <2>3. QED
        BY <2>1, <2>2, ImageIsFinite
<1>10. /\ \A v \in used : <<x(v), first + vertex[v]>> \in pairs
       /\ \A y \in pairs : \E v \in used : y = <<x(v), first + vertex[v]>>
    OBVIOUS
<1>11. \A v, w : x(v) = x(w) => v = w
    OBVIOUS
<1> HIDE DEF pairs, x
<1>12. /\ \A y \in pairs : /\ y[1] \in S
                            /\ IsVertexOf(a, y[1])
                            /\ y[2] \in DOMAIN a.component_vertices
       /\ \A y, z \in pairs : y[1] = z[1] => y[2] = z[2]
       /\ \A y \in S : \E v \in used : y = x(v)
    BY <1>7, <1>8, <1>10, <1>11
<1> HIDE DEF S
<1>13. /\ IsModel(SetUniqueVertices(a, pairs))
       /\ DifferInVertices(a, SetUniqueVertices(a, pairs))
       /\ SameVerticesBut(a, SetUniqueVertices(a, pairs), S)
       /\ \A y \in pairs : UniqueOf(SetUniqueVertices(a, pairs), y[1]) = y[2]
    <2> HIDE DEF used, pair
    <2>1. \A y \in pairs : /\ y[1] \in S
                           /\ IsVertexOf(a, y[1])
                           /\ y[2] \in DOMAIN a.component_vertices
        BY <1>12
    <2>2. /\ IsModel(SetUniqueVertices(a, pairs))
          /\ DifferInVertices(a, SetUniqueVertices(a, pairs))
          /\ SameVerticesBut(a, SetUniqueVertices(a, pairs), S)
          /\ (\A y, z \in pairs : y[1] = z[1] => y[2] = z[2])
                => \A y \in pairs :
                        UniqueOf(SetUniqueVertices(a, pairs), y[1]) = y[2]
        BY <1>5, <1>9, <2>1, SetVertices
    <2>3. QED
        BY <1>12, <2>2
<1>14. /\ IsModel(r)
       /\ DifferInVertices(a, r)
       /\ SameVerticesBut(a, r, S)
       /\ \A v \in used : UniqueOf(r, x(v)) = first + vertex[v]
    BY <1>1, <1>10, <1>13
<1>15. DifferInVertices(m, r)
    BY <1>5, <1>14 DEF DifferInVertices
<1>16. NbUniqueVertices(r) = n
    <2>1. DOMAIN r.component_vertices = DOMAIN a.component_vertices
        BY <1>14 DEF SameVerticesBut
    <2>2. QED
        BY <1>5, <2>1 DEF NbUniqueVertices, Size
<1>17. /\ \A e \in MeshComponents(m) :
            /\ DOMAIN r.unique_vertex[e] = DOMAIN a.unique_vertex[e]
            /\ IsVertexVector(r.unique_vertex[e], n)
            /\ IsVertexVector(a.unique_vertex[e], n)
       /\ MeshComponents(r) = MeshComponents(m)
    <2>1. MeshComponents(r) = MeshComponents(m)
        BY <1>15, SameComponents DEF DifferInVertices
    <2>2. QED
        BY <1>5, <1>6, <1>14, <1>16, <2>1, VerticesOfModel DEF SameVerticesBut
<1>18. ASSUME NEW e \in MeshComponents(m) \ {c}
       PROVE  r.unique_vertex[e] = m.unique_vertex[e]
    <2>1. ASSUME NEW v \in DOMAIN a.unique_vertex[e]
          PROVE  r.unique_vertex[e][v] = a.unique_vertex[e][v]
        <3> DEFINE y == <<StoredKind(m, e), e, v>>
        <3>1. IsVertexOf(a, y)
            BY <1>6 DEF IsVertexOf
        <3>2. y \notin S
            BY <1>12 DEF x
        <3>3. UniqueOf(r, y) = UniqueOf(a, y)
            BY <1>14, <3>1, <3>2 DEF SameVerticesBut
        <3>4. QED
            BY <3>3 DEF UniqueOf
    <2>2. r.unique_vertex[e] = a.unique_vertex[e]
        BY <1>17, <2>1, SameVertexVectors
    <2>3. QED
        BY <1>5, <2>2
<1>19. r.unique_vertex[c] = Shifted(vertex, first)
    <2>1. DOMAIN r.unique_vertex[c] = DOMAIN vertex
        BY <1>4, <1>5, <1>17 DEF Unset
    <2>2. ASSUME NEW v \in DOMAIN vertex
          PROVE  r.unique_vertex[c][v] = Shifted(vertex, first)[v]
        <3>1. CASE v \in used
            <4>1. UniqueOf(r, x(v)) = first + vertex[v]
                BY <1>14, <3>1
            <4>2. QED
                BY <3>1, <4>1 DEF UniqueOf, Shifted, x
        <3>2. CASE v \notin used
            <4>1. IsVertexOf(a, x(v))
                BY <1>4, <1>5, <1>6 DEF IsVertexOf, Unset, x
            <4>2. x(v) \notin S
                BY <1>11, <1>12, <3>2
            <4>3. UniqueOf(r, x(v)) = UniqueOf(a, x(v))
                BY <1>14, <4>1, <4>2 DEF SameVerticesBut
            <4>4. UniqueOf(a, x(v)) = NoId
                BY <1>4, <1>5 DEF UniqueOf, Unset, x
            <4>5. QED
                BY <3>2, <4>3, <4>4 DEF UniqueOf, Shifted, x
        <3>3. QED
            BY <3>1, <3>2
    <2>3. r.unique_vertex[c] = [v \in DOMAIN vertex |-> r.unique_vertex[c][v]]
        BY <1>17, <2>1 DEF IsVertexVector
    <2>4. Shifted(vertex, first)
            = [v \in DOMAIN vertex |-> Shifted(vertex, first)[v]]
        BY DEF Shifted
    <2>5. QED
        BY <2>2, <2>3, <2>4
<1>20. QED
    BY <1>14, <1>15, <1>16, <1>18, <1>19 DEF r, vertex, n
\* The meshes of a mapping change hands.
LEMMA MeshesStolen ==
    ASSUME NEW m, IsModel(m), NEW other, IsModel(other),
           NEW mapping, IsFiniteSet(DOMAIN mapping),
           \A c \in DOMAIN mapping : /\ c \in MeshComponents(m)
                                     /\ mapping[c] \in MeshComponents(other),
           NEW first \in Nat,
           first + NbUniqueVertices(other) <= NbUniqueVertices(m)
    PROVE  LET r == StealMeshes(m, other, mapping, first)
           IN  /\ IsModel(r)
               /\ DifferInVertices(m, r)
               /\ \A c \in MeshComponents(m) : r.unique_vertex[c] =
                    IF c \in DOMAIN mapping
                    THEN Shifted(other.unique_vertex[mapping[c]], first)
                    ELSE m.unique_vertex[c]
<1> DEFINE S == DOMAIN mapping
           new(c) == Shifted(other.unique_vertex[mapping[c]], first)
<1>1. PICK N \in Nat : \E list, f :
            StealMeshesTurns(m, other, mapping, first, N, list, f)
    BY TurnsOfStealMeshes
<1>2. PICK list, f :
        /\ ListsAll(list, N, S)
        /\ f[0] = m
        /\ \A n \in 1 .. N : f[n] =
              StealMesh(f[n - 1], list[n], other, mapping[list[n]], first)
        /\ StealMeshes(m, other, mapping, first) = f[N]
    <2>1. PICK list, f : StealMeshesTurns(m, other, mapping, first, N, list, f)
        BY <1>1
    <2>2. QED
        BY <2>1 DEF StealMeshesTurns
<1> DEFINE P(n) == /\ IsModel(f[n])
                   /\ DifferInVertices(m, f[n])
                   /\ NbUniqueVertices(f[n]) = NbUniqueVertices(m)
                   /\ \A c \in MeshComponents(m) \ S :
                        f[n].unique_vertex[c] = m.unique_vertex[c]
                   /\ \A i \in 1 .. n :
                        f[n].unique_vertex[list[i]] = new(list[i])
           R == {n \in Nat : n <= N => P(n)}
<1> HIDE DEF new
<1>3. 0 \in R
    <2>1. DifferInVertices(m, m)
        BY PartsOfModel DEF DifferInVertices
    <2>2. P(0)
        BY <1>2, <2>1
    <2>3. QED
        BY <2>2
<1>4. ASSUME NEW n \in Nat, n \in R
      PROVE  n + 1 \in R
    <2>1. CASE n + 1 <= N
        <3> DEFINE id == list[n + 1]
                   a == f[n]
                   r == f[n + 1]
        <3>1. P(n)
            BY <1>1, <1>4, <2>1
        <3>2. n + 1 \in 1 .. N /\ (n + 1) - 1 = n
            BY <1>1, <2>1
        <3>3. r = StealMesh(a, id, other, mapping[id], first)
            BY <1>2, <3>2
        <3>4. id \in S
            BY <1>2, <3>2 DEF ListsAll
        <3>5. id \in MeshComponents(m) /\ mapping[id] \in MeshComponents(other)
            BY <3>4
        <3>6. MeshComponents(a) = MeshComponents(m)
            BY <3>1, SameComponents DEF DifferInVertices
        <3> HIDE DEF id, r, a, S
        <3>7. /\ IsModel(a) /\ id \in MeshComponents(a)
              /\ first + NbUniqueVertices(other) <= NbUniqueVertices(a)
            BY <3>1, <3>5, <3>6 DEF a
        <3>8. /\ IsModel(r)
              /\ DifferInVertices(a, r)
              /\ NbUniqueVertices(r) = NbUniqueVertices(a)
              /\ r.unique_vertex[id] = new(id)
              /\ \A c \in MeshComponents(a) \ {id} :
                    r.unique_vertex[c] = a.unique_vertex[c]
            BY <3>3, <3>5, <3>7, MeshStolen DEF new
        <3>9. DifferInVertices(m, r)
            BY <3>1, <3>8 DEF DifferInVertices, a
        <3>10. \A c \in MeshComponents(m) \ S :
                    r.unique_vertex[c] = m.unique_vertex[c]
            BY <3>1, <3>4, <3>6, <3>8 DEF a
        <3>11. ASSUME NEW i \in 1 .. n + 1
               PROVE  r.unique_vertex[list[i]] = new(list[i])
            <4>1. i \in 1 .. N
                BY <1>1, <2>1
            <4>2. list[i] \in S /\ list[i] \in MeshComponents(a)
                BY <1>2, <3>6, <4>1 DEF ListsAll, S
            <4>3. CASE list[i] = id
                BY <3>8, <4>3
            <4>4. CASE list[i] # id
                <5>1. i # n + 1
                    BY <4>4 DEF id
                <5>2. i \in 1 .. n
                    BY <5>1
                <5>3. QED
                    BY <3>1, <3>8, <4>2, <4>4, <5>2 DEF a
            <4>5. QED
                BY <4>3, <4>4
        <3>12. P(n + 1)
            BY <3>1, <3>8, <3>9, <3>10, <3>11 DEF r, a
        <3>13. QED
            BY <3>12
    <2>2. CASE ~(n + 1 <= N)
        BY <2>2
    <2>3. QED
        BY <2>1, <2>2
<1>5. N \in R
    <2> HIDE DEF R
    <2>1. Nat \subseteq R
        BY <1>3, <1>4, SetInduction
    <2>2. QED
        BY <1>1, <2>1
<1>6. P(N)
    BY <1>1, <1>5
<1>7. ASSUME NEW c \in S
      PROVE  f[N].unique_vertex[c] = new(c)
    <2>1. PICK i \in 1 .. N : list[i] = c
        BY <1>2 DEF ListsAll
    <2>2. QED
        BY <1>6, <2>1
<1>8. QED
    BY <1>2, <1>6, <1>7 DEF new

\* remove_..._meshes_in_mapping() leaves these components without vertices.
LEMMA MeshesRemoved ==
    ASSUME NEW m, IsModel(m), NEW ids, IsFiniteSet(ids),
           ids \subseteq MeshComponents(m)
    PROVE  \E a : /\ RemoveMeshes(m, ids) = DeleteIsolatedVertices(a)
                  /\ IsModel(a)
                  /\ DifferInVertices(m, a)
                  /\ \A c \in MeshComponents(m) : a.unique_vertex[c] =
                        IF c \in ids THEN Unset(0) ELSE m.unique_vertex[c]
<1> DEFINE pair == [c \in ids |-> <<c, 0>>]
           meshes == {pair[c] : c \in ids}
           a == UpdateMeshes(m, meshes)
<1>1. RemoveMeshes(m, ids) = DeleteIsolatedVertices(a)
    <2>1. meshes = {<<c, 0>> : c \in ids}
        OBVIOUS
    <2> HIDE DEF meshes
    <2>2. QED
        BY <2>1 DEF RemoveMeshes
<1>2. IsFiniteSet(meshes)
    <2>1. DOMAIN pair = ids
        OBVIOUS
    <2> HIDE DEF pair
    <2>2. QED
        BY <2>1, ImageIsFinite
<1>3. /\ \A c \in ids : <<c, 0>> \in meshes
      /\ \A p \in meshes : \E c \in ids : p = <<c, 0>>
    OBVIOUS
<1> HIDE DEF meshes
<1>4. /\ \A p \in meshes : p[1] \in ids \cap MeshComponents(m) /\ p[2] \in Nat
      /\ \A p, q \in meshes : p[1] = q[1] => p[2] = q[2]
    BY <1>3
<1>5. /\ IsModel(a)
      /\ DifferInVertices(m, a)
      /\ \A c \in MeshComponents(m) \ ids :
            a.unique_vertex[c] = m.unique_vertex[c]
      /\ \A p \in meshes : a.unique_vertex[p[1]] = Unset(p[2])
    BY <1>2, <1>4, MeshesUpdated
<1> HIDE DEF a
<1>6. \A c \in ids : a.unique_vertex[c] = Unset(0)
    BY <1>3, <1>5
<1>7. QED
    BY <1>1, <1>5, <1>6
\* C is the vertices that one unique vertex identifies.
IsClass(m, C) ==
    \E x \in C : /\ UniqueOf(m, x) # NoId
                 /\ \A y : y \in C <=> /\ IsVertexOf(m, y)
                                       /\ UniqueOf(m, y) = UniqueOf(m, x)

\* These are the classes of identified vertices.
LEMMA IdentifiedClasses ==
    ASSUME NEW m, IsModel(m)
    PROVE  \A C : C \in Identified(m) <=> IsClass(m, C)
<1> DEFINE n == NbUniqueVertices(m)
           cvs == m.component_vertices
<1>1. n \in Nat /\ DOMAIN cvs = IndexRange(n)
    BY VerticesOfModel
<1>2. /\ \A u \in DOMAIN cvs : \A x :
            x \in cvs[u] <=> IsVertexOf(m, x) /\ UniqueOf(m, x) = u
      /\ \A x : IsVertexOf(m, x) => UniqueOf(m, x) \in DOMAIN cvs \cup {NoId}
      /\ NoId \notin DOMAIN cvs
    BY ListedVertices, NoIdIsNoVertex
<1>3. Identified(m) = {cvs[u] : u \in DOMAIN cvs} \ {{}}
    <2> DEFINE list == [i \in 1 .. n |-> cvs[i - 1]]
    <2>1. list \in Seq({cvs[u] : u \in DOMAIN cvs}) /\ Len(list) = n
        <3>1. \A i \in 1 .. n : i - 1 \in DOMAIN cvs
            BY <1>1 DEF IndexRange
        <3>2. list \in [1 .. n -> {cvs[u] : u \in DOMAIN cvs}]
            BY <3>1
        <3>3. QED
            BY <1>1, <3>2
    <2>2. ToSet(list) = {list[i] : i \in 1 .. n}
        BY <2>1 DEF ToSet
    <2>3. \A u \in DOMAIN cvs : u + 1 \in 1 .. n /\ (u + 1) - 1 = u
        BY <1>1 DEF IndexRange
    <2>4. \A i \in 1 .. n : i - 1 \in DOMAIN cvs
        BY <1>1 DEF IndexRange
    <2>5. {list[i] : i \in 1 .. n} = {cvs[u] : u \in DOMAIN cvs}
        BY <2>3, <2>4
    <2>6. Identified(m) = ToSet(list) \ {{}}
        BY DEF Identified
    <2>7. QED
        BY <2>2, <2>5, <2>6
<1> HIDE DEF n, cvs
<1>4. ASSUME NEW C, C \in Identified(m)
      PROVE  IsClass(m, C)
    <2>1. PICK u \in DOMAIN cvs : C = cvs[u]
        BY <1>3, <1>4
    <2>2. PICK x : x \in C
        BY <1>3, <1>4
    <2>3. QED
        BY <1>2, <2>1, <2>2 DEF IsClass
<1>5. ASSUME NEW C, IsClass(m, C)
      PROVE  C \in Identified(m)
    <2>1. PICK x \in C :
            /\ UniqueOf(m, x) # NoId
            /\ \A y : y \in C <=> /\ IsVertexOf(m, y)
                                  /\ UniqueOf(m, y) = UniqueOf(m, x)
        BY <1>5 DEF IsClass
    <2>2. UniqueOf(m, x) \in DOMAIN cvs
        BY <1>2, <2>1
    <2>3. C = cvs[UniqueOf(m, x)]
        BY <1>2, <2>1, <2>2
    <2>4. QED
        BY <1>3, <2>1, <2>2, <2>3
<1>6. QED
    BY <1>4, <1>5

\* The vertex of the component that g gives, in the place of x.
Moved(x, g) == <<x[1], g[x[2]], x[3]>>

\* The vertices of m that stay in r, and those of other that come to it.
Stays(m, ids, y) == IsVertexOf(m, y) /\ y[2] \in ids
Comes(other, g, x) == IsVertexOf(other, x) /\ x[2] \in DOMAIN g

\* A model of vertices of m, identified as in m, and of vertices of other,
\* identified as in other.
IsMadeOf(r, m, ids, other, g) ==
    /\ \A y : IsVertexOf(r, y) <=>
            Stays(m, ids, y) \/ \E x : Comes(other, g, x) /\ y = Moved(x, g)
    /\ \A y : Stays(m, ids, y) =>
            (UniqueOf(r, y) = NoId <=> UniqueOf(m, y) = NoId)
    /\ \A y, z : Stays(m, ids, y) /\ Stays(m, ids, z) =>
            (UniqueOf(r, y) = UniqueOf(r, z)
                <=> UniqueOf(m, y) = UniqueOf(m, z))
    /\ \A x : Comes(other, g, x) =>
            (UniqueOf(r, Moved(x, g)) = NoId <=> UniqueOf(other, x) = NoId)
    /\ \A x, z : Comes(other, g, x) /\ Comes(other, g, z) =>
            (UniqueOf(r, Moved(x, g)) = UniqueOf(r, Moved(z, g))
                <=> UniqueOf(other, x) = UniqueOf(other, z))
    /\ \A y, x : Stays(m, ids, y) /\ Comes(other, g, x) =>
            \/ UniqueOf(r, y) = NoId
            \/ UniqueOf(r, y) # UniqueOf(r, Moved(x, g))

\* What is identified in a model that is made of two parts.
LEMMA ClassesTogether ==
    ASSUME NEW m, IsModel(m), NEW other, IsModel(other),
           NEW r, IsModel(r), NEW ids, NEW g, IsMadeOf(r, m, ids, other, g)
    PROVE  Identified(r) = Mapped(Identified(m), [id \in ids |-> id])
                            \cup Mapped(Identified(other), g)
<1> DEFINE ours(K) == {Moved(x, [id \in ids |-> id]) :
                        x \in {z \in K : z[2] \in ids}}
           new(K) == {Moved(x, g) : x \in {z \in K : z[2] \in DOMAIN g}}
<1>1. /\ \A C : C \in Identified(r) <=> IsClass(r, C)
      /\ \A C : C \in Identified(m) <=> IsClass(m, C)
      /\ \A C : C \in Identified(other) <=> IsClass(other, C)
    BY IdentifiedClasses
<1>2. /\ \A C : C \in Mapped(Identified(m), [id \in ids |-> id])
                <=> C # {} /\ \E K : IsClass(m, K) /\ C = ours(K)
      /\ \A C : C \in Mapped(Identified(other), g)
                <=> C # {} /\ \E K : IsClass(other, K) /\ C = new(K)
    BY <1>1 DEF Mapped, Moved
<1>3. \A K : IsClass(m, K) =>
            \A y : y \in ours(K) <=> y \in K /\ y[2] \in ids
    <2>1. ASSUME NEW K, IsClass(m, K), NEW y \in K, y[2] \in ids
          PROVE  Moved(y, [id \in ids |-> id]) = y
        <3>1. IsVertexOf(m, y)
            BY <2>1 DEF IsClass
        <3>2. y = <<StoredKind(m, y[2]), y[2], y[3]>>
            BY <3>1 DEF IsVertexOf
        <3>3. QED
            BY <2>1, <3>2 DEF Moved
    <2>2. QED
        BY <2>1
<1>4. \A K, y : y \in new(K) <=>
            \E x \in K : x[2] \in DOMAIN g /\ y = Moved(x, g)
    OBVIOUS
<1> HIDE DEF ours, new
<1>5. ASSUME NEW K, IsClass(m, K), ours(K) # {}
      PROVE  IsClass(r, ours(K))
    <2>1. PICK x : x \in ours(K)
        BY <1>5
    <2>2. PICK w \in K :
            /\ UniqueOf(m, w) # NoId
            /\ \A y : y \in K <=> /\ IsVertexOf(m, y)
                                  /\ UniqueOf(m, y) = UniqueOf(m, w)
        BY <1>5 DEF IsClass
    <2>3. \A y : y \in ours(K) <=>
                Stays(m, ids, y) /\ UniqueOf(m, y) = UniqueOf(m, x)
        BY <1>3, <1>5, <2>1, <2>2 DEF Stays
    <2>4. Stays(m, ids, x) /\ UniqueOf(m, x) # NoId
        BY <1>3, <1>5, <2>1, <2>2 DEF Stays
    <2>5. UniqueOf(r, x) # NoId
        BY <2>4 DEF IsMadeOf
    <2>6. \A y : y \in ours(K) <=>
                IsVertexOf(r, y) /\ UniqueOf(r, y) = UniqueOf(r, x)
        BY <2>3, <2>4, <2>5 DEF IsMadeOf
    <2>7. QED
        BY <2>1, <2>5, <2>6 DEF IsClass
<1>6. ASSUME NEW K, IsClass(other, K), new(K) # {}
      PROVE  IsClass(r, new(K))
    <2>1. PICK x \in K : x[2] \in DOMAIN g /\ Moved(x, g) \in new(K)
        BY <1>4, <1>6
    <2>2. PICK w \in K :
            /\ UniqueOf(other, w) # NoId
            /\ \A y : y \in K <=> /\ IsVertexOf(other, y)
                                  /\ UniqueOf(other, y) = UniqueOf(other, w)
        BY <1>6 DEF IsClass
    <2>3. \A y : y \in new(K) <=>
                \E z : /\ Comes(other, g, z)
                       /\ UniqueOf(other, z) = UniqueOf(other, x)
                       /\ y = Moved(z, g)
        BY <1>4, <2>1, <2>2 DEF Comes
    <2>4. Comes(other, g, x) /\ UniqueOf(other, x) # NoId
        BY <2>1, <2>2 DEF Comes
    <2>5. UniqueOf(r, Moved(x, g)) # NoId
        BY <2>4 DEF IsMadeOf
    <2>6. \A y : y \in new(K) <=>
                IsVertexOf(r, y) /\ UniqueOf(r, y) = UniqueOf(r, Moved(x, g))
        BY <2>3, <2>4, <2>5 DEF IsMadeOf
    <2>7. QED
        BY <2>1, <2>5, <2>6 DEF IsClass
<1>7. ASSUME NEW C, IsClass(r, C)
      PROVE  \/ \E K : IsClass(m, K) /\ C = ours(K)
             \/ \E K : IsClass(other, K) /\ C = new(K)
    <2>1. PICK w \in C :
            /\ UniqueOf(r, w) # NoId
            /\ \A y : y \in C <=> /\ IsVertexOf(r, y)
                                  /\ UniqueOf(r, y) = UniqueOf(r, w)
        BY <1>7 DEF IsClass
    <2>2. IsVertexOf(r, w)
        BY <2>1
    <2>3. CASE Stays(m, ids, w)
        <3> DEFINE K == {y \in ComponentVertices(m) :
                            IsVertexOf(m, y) /\ UniqueOf(m, y) = UniqueOf(m, w)}
        <3>1. UniqueOf(m, w) # NoId
            BY <2>1, <2>3 DEF IsMadeOf
        <3>2. \A y : IsVertexOf(m, y) => y \in ComponentVertices(m)
            <4>1. DOMAIN m.unique_vertex = MeshComponents(m)
                BY VerticesOfModel
            <4>2. QED
                BY <4>1 DEF IsVertexOf, ComponentVertices
        <3>3. \A y : y \in K <=> /\ IsVertexOf(m, y)
                                 /\ UniqueOf(m, y) = UniqueOf(m, w)
            BY <3>2
        <3> HIDE DEF K
        <3>4. IsClass(m, K)
            BY <2>3, <3>1, <3>3 DEF IsClass, Stays
        <3>5. \A y : y \in ours(K) <=>
                Stays(m, ids, y) /\ UniqueOf(m, y) = UniqueOf(m, w)
            BY <1>3, <3>3, <3>4 DEF Stays
        <3>6. \A y : y \in C <=> y \in ours(K)
            BY <2>1, <2>3, <3>1, <3>5 DEF IsMadeOf
        <3>7. C = ours(K)
            BY <3>6
        <3>8. QED
            BY <3>4, <3>7
    <2>4. CASE \E x : Comes(other, g, x) /\ w = Moved(x, g)
        <3>1. PICK x : Comes(other, g, x) /\ w = Moved(x, g)
            BY <2>4
        <3> DEFINE K == {y \in ComponentVertices(other) :
                            /\ IsVertexOf(other, y)
                            /\ UniqueOf(other, y) = UniqueOf(other, x)}
        <3>2. UniqueOf(other, x) # NoId
            BY <2>1, <3>1 DEF IsMadeOf
        <3>3. \A y : IsVertexOf(other, y) => y \in ComponentVertices(other)
            <4>1. DOMAIN other.unique_vertex = MeshComponents(other)
                BY VerticesOfModel
            <4>2. QED
                BY <4>1 DEF IsVertexOf, ComponentVertices
        <3>4. \A y : y \in K <=> /\ IsVertexOf(other, y)
                                 /\ UniqueOf(other, y) = UniqueOf(other, x)
            BY <3>3
        <3> HIDE DEF K
        <3>5. IsClass(other, K)
            BY <3>1, <3>2, <3>4 DEF IsClass, Comes
        <3>6. \A y : y \in new(K) <=>
                \E z : /\ Comes(other, g, z)
                       /\ UniqueOf(other, z) = UniqueOf(other, x)
                       /\ y = Moved(z, g)
            BY <1>4, <3>4 DEF Comes
        <3>7. \A y : y \in C <=> y \in new(K)
            BY <2>1, <3>1, <3>2, <3>6 DEF IsMadeOf
        <3>8. C = new(K)
            BY <3>7
        <3>9. QED
            BY <3>5, <3>8
    <2>5. QED
        BY <2>2, <2>3, <2>4 DEF IsMadeOf
<1>8. \A C : IsClass(r, C) => C # {}
    BY DEF IsClass
<1>9. ASSUME NEW C
      PROVE  C \in Identified(r) <=>
                \/ C \in Mapped(Identified(m), [id \in ids |-> id])
                \/ C \in Mapped(Identified(other), g)
    BY <1>1, <1>2, <1>5, <1>6, <1>7, <1>8
<1>10. QED
    BY <1>9
\* There are as many components as there may be uuids.
LEMMA ComponentsAreFinite ==
    ASSUME NEW m, IsModel(m)
    PROVE  /\ AllStored(m) \subseteq Ids
           /\ MeshComponents(m) \subseteq AllStored(m)
           /\ IsFiniteSet(AllStored(m))
           /\ IsFiniteSet(MeshComponents(m))
<1>1. StorageHolds(m)
    BY PartsOfModel
<1>2. AllStored(m) \subseteq Ids
    BY <1>1, KindOfStored DEF AllStored
<1>3. MeshComponents(m) \subseteq AllStored(m)
    BY DEF MeshComponents, AllStored, MeshKinds
<1>4. IsFiniteSet(Ids)
    BY IdsAssumption
<1>5. IsFiniteSet(AllStored(m))
    BY <1>2, <1>4, FS_Subset
<1>6. QED
    BY <1>2, <1>3, <1>5, FS_Subset

\* A component with a mesh is stored under the kind it is of.
LEMMA KindOfMesh ==
    ASSUME NEW m, IsModel(m), NEW id \in AllStored(m)
    PROVE  /\ StoredKind(m, id) \in Kinds
           /\ id \in Stored(m, StoredKind(m, id))
           /\ id \in MeshComponents(m) <=> StoredKind(m, id) \in MeshKinds
<1>1. StorageHolds(m)
    BY PartsOfModel
<1>2. PICK k \in Kinds : id \in Stored(m, k)
    BY DEF AllStored
<1>3. StoredKind(m, id) = k
    BY <1>1, <1>2, KindOfStored
<1>4. \A l \in Kinds : id \in Stored(m, l) => l = k
    BY <1>1, <1>2 DEF StorageHolds
<1>5. QED
    BY <1>2, <1>3, <1>4 DEF MeshComponents, MeshKinds

\* transfer_..._meshes() makes a model of the vertices that the mapping does
\* not take away and of those that it brings.
LEMMA MeshesTransferred ==
    ASSUME NEW m, IsModel(m), NEW other, IsModel(other),
           NEW mapping \in MeshMappings(m, other)
    PROVE  LET r == Transferred(m, other, mapping)
           IN  /\ IsModel(r)
               /\ DifferInVertices(m, r)
               /\ IsMadeOf(r, m, MeshComponents(m) \ DOMAIN mapping,
                           other, AntiFunction(mapping))
<1> DEFINE S == DOMAIN mapping
           g == AntiFunction(mapping)
           b == RemoveMeshes(m, S)
           k == NbUniqueVertices(b)
           e == CreateUniqueVertices(b, NbUniqueVertices(other))
           r == Transferred(m, other, mapping)
           uv == other.unique_vertex
<1>1. /\ S \subseteq MeshComponents(m)
      /\ mapping = [c \in S |-> mapping[c]]
      /\ \A c \in S : /\ mapping[c] \in MeshComponents(other)
                      /\ StoredKind(m, c) = StoredKind(other, mapping[c])
      /\ \A c, d \in S : mapping[c] = mapping[d] => c = d
    BY DEF MeshMappings, IsInjective
<1>2. /\ DOMAIN g = {mapping[c] : c \in S}
      /\ \A c \in S : g[mapping[c]] = c
    BY <1>1 DEF AntiFunction, Inverse, Range
<1>3. IsFiniteSet(S)
    BY <1>1, ComponentsAreFinite, FS_Subset
<1> HIDE DEF g, S
<1>4. PICK a : /\ b = DeleteIsolatedVertices(a)
               /\ IsModel(a)
               /\ DifferInVertices(m, a)
               /\ \A c \in MeshComponents(m) : a.unique_vertex[c] =
                        IF c \in S THEN Unset(0) ELSE m.unique_vertex[c]
    BY <1>1, <1>3, MeshesRemoved
<1>5. IsModel(b) /\ DifferInVertices(a, b) /\ IdentifiedAlike(a, b)
    BY <1>4, IsolatedDeleted
<1>6. NbUniqueVertices(other) \in Nat
    BY VerticesOfModel
<1> HIDE DEF b
<1>7. /\ IsModel(e)
      /\ DifferInVertices(b, e)
      /\ e.unique_vertex = b.unique_vertex
      /\ NbUniqueVertices(e) = k + NbUniqueVertices(other)
    BY <1>5, <1>6, CreatedVertices
<1> HIDE DEF e
<1>8. DifferInVertices(m, e) /\ DifferInVertices(m, b)
    BY <1>4, <1>5, <1>7 DEF DifferInVertices
<1>9. /\ MeshComponents(e) = MeshComponents(m)
      /\ MeshComponents(b) = MeshComponents(m)
      /\ MeshComponents(a) = MeshComponents(m)
      /\ \A id : /\ StoredKind(b, id) = StoredKind(m, id)
                 /\ StoredKind(a, id) = StoredKind(m, id)
    BY <1>4, <1>8, SameComponents DEF DifferInVertices
<1>10. k \in Nat /\ \A c \in MeshComponents(m) :
                        IsVertexVector(b.unique_vertex[c], k)
    BY <1>5, <1>9, VerticesOfModel
<1> HIDE DEF k
<1>11. r = StealMeshes(e, other, mapping, k)
    BY DEF Transferred, b, e, k, S
<1> HIDE DEF r
<1>12. /\ IsModel(r)
       /\ DifferInVertices(e, r)
       /\ \A c \in MeshComponents(m) : r.unique_vertex[c] =
            IF c \in S THEN Shifted(uv[mapping[c]], k) ELSE e.unique_vertex[c]
    <2>1. k + NbUniqueVertices(other) <= NbUniqueVertices(e)
        BY <1>6, <1>7, <1>10
    <2>2. /\ IsFiniteSet(DOMAIN mapping)
          /\ \A c \in DOMAIN mapping : /\ c \in MeshComponents(e)
                                       /\ mapping[c] \in MeshComponents(other)
        BY <1>1, <1>3, <1>9 DEF S
    <2>3. QED
        BY <1>7, <1>9, <1>10, <1>11, <2>1, <2>2, MeshesStolen DEF S
<1>13. DifferInVertices(m, r)
    BY <1>8, <1>12 DEF DifferInVertices
<1>14. /\ MeshComponents(r) = MeshComponents(m)
       /\ \A id : StoredKind(r, id) = StoredKind(m, id)
    BY <1>13, SameComponents DEF DifferInVertices
<1> DEFINE ids == MeshComponents(m) \ S
<1>15. \A y : Stays(m, ids, y) =>
            /\ IsVertexOf(r, y)
            /\ IsVertexOf(a, y)
            /\ UniqueOf(a, y) = UniqueOf(m, y)
            /\ UniqueOf(r, y) = UniqueOf(b, y)
            /\ UniqueOf(b, y) \in IndexRange(k) \cup {NoId}
    <2>1. ASSUME NEW y, Stays(m, ids, y)
          PROVE  /\ IsVertexOf(r, y)
                 /\ IsVertexOf(a, y)
                 /\ UniqueOf(a, y) = UniqueOf(m, y)
                 /\ UniqueOf(r, y) = UniqueOf(b, y)
                 /\ UniqueOf(b, y) \in IndexRange(k) \cup {NoId}
        <3>1. /\ y[2] \in MeshComponents(m)
              /\ y[2] \notin S
              /\ y[3] \in DOMAIN m.unique_vertex[y[2]]
              /\ y = <<StoredKind(m, y[2]), y[2], y[3]>>
            BY <2>1 DEF Stays, IsVertexOf
        <3>2. /\ a.unique_vertex[y[2]] = m.unique_vertex[y[2]]
              /\ r.unique_vertex[y[2]] = b.unique_vertex[y[2]]
            BY <1>4, <1>7, <1>12, <3>1
        <3>3. IsVertexOf(a, y)
            BY <1>9, <3>1, <3>2 DEF IsVertexOf
        <3>4. IsVertexOf(b, y)
            BY <1>5, <3>3 DEF IdentifiedAlike
        <3>5. IsVertexOf(r, y)
            BY <1>9, <1>14, <3>2, <3>4 DEF IsVertexOf
        <3>6. UniqueOf(b, y) \in IndexRange(k) \cup {NoId}
            <4>1. /\ IsVertexVector(b.unique_vertex[y[2]], k)
                  /\ y[3] \in DOMAIN b.unique_vertex[y[2]]
                BY <1>10, <3>1, <3>4 DEF IsVertexOf
            <4>2. QED
                BY <4>1 DEF UniqueOf, IsVertexVector
        <3>7. QED
            BY <3>2, <3>3, <3>5, <3>6 DEF UniqueOf
    <2>2. QED
        BY <2>1
<1>16. \A x : Comes(other, g, x) =>
            /\ IsVertexOf(r, Moved(x, g))
            /\ UniqueOf(r, Moved(x, g)) =
                    IF UniqueOf(other, x) = NoId THEN NoId
                    ELSE k + UniqueOf(other, x)
            /\ UniqueOf(other, x)
                    \in IndexRange(NbUniqueVertices(other)) \cup {NoId}
    <2>1. ASSUME NEW x, Comes(other, g, x)
          PROVE  /\ IsVertexOf(r, Moved(x, g))
                 /\ UniqueOf(r, Moved(x, g)) =
                        IF UniqueOf(other, x) = NoId THEN NoId
                        ELSE k + UniqueOf(other, x)
                 /\ UniqueOf(other, x)
                        \in IndexRange(NbUniqueVertices(other)) \cup {NoId}
        <3>1. /\ x[3] \in DOMAIN uv[x[2]]
              /\ x = <<StoredKind(other, x[2]), x[2], x[3]>>
            BY <2>1 DEF Comes, IsVertexOf
        <3>2. PICK c \in S : x[2] = mapping[c]
            BY <1>2, <2>1 DEF Comes
        <3>3. /\ c \in MeshComponents(m)
              /\ StoredKind(m, c) = StoredKind(other, x[2])
              /\ g[x[2]] = c
            BY <1>1, <1>2, <3>2
        <3>4. Moved(x, g) = <<StoredKind(r, c), c, x[3]>>
            BY <1>14, <3>1, <3>3 DEF Moved
        <3>5. r.unique_vertex[c] = Shifted(uv[x[2]], k)
            BY <1>12, <3>2, <3>3
        <3>6. IsVertexOf(r, Moved(x, g))
            BY <1>14, <3>1, <3>3, <3>4, <3>5 DEF IsVertexOf, Shifted
        <3>7. UniqueOf(r, Moved(x, g)) =
                    IF UniqueOf(other, x) = NoId THEN NoId
                    ELSE k + UniqueOf(other, x)
            BY <3>1, <3>4, <3>5 DEF UniqueOf, Shifted
        <3>8. /\ UniqueOf(other, x) \in DOMAIN other.component_vertices
                                            \cup {NoId}
              /\ DOMAIN other.component_vertices
                    = IndexRange(NbUniqueVertices(other))
            BY <2>1, ListedVertices, VerticesOfModel DEF Comes
        <3>9. QED
            BY <3>6, <3>7, <3>8
    <2>2. QED
        BY <2>1
<1>17. ASSUME NEW y, IsVertexOf(r, y)
       PROVE  Stays(m, ids, y) \/ \E x : Comes(other, g, x) /\ y = Moved(x, g)
    <2>1. /\ y[2] \in MeshComponents(m)
          /\ y[3] \in DOMAIN r.unique_vertex[y[2]]
          /\ y = <<StoredKind(m, y[2]), y[2], y[3]>>
        BY <1>14, <1>17 DEF IsVertexOf
    <2>2. CASE y[2] \notin S
        <3>1. /\ r.unique_vertex[y[2]] = b.unique_vertex[y[2]]
              /\ a.unique_vertex[y[2]] = m.unique_vertex[y[2]]
            BY <1>4, <1>7, <1>12, <2>1, <2>2
        <3>2. DOMAIN b.unique_vertex[y[2]] = DOMAIN a.unique_vertex[y[2]]
            BY <1>5, <1>9, <2>1 DEF IdentifiedAlike
        <3>3. QED
            BY <2>1, <2>2, <3>1, <3>2 DEF Stays, IsVertexOf
    <2>3. CASE y[2] \in S
        <3> DEFINE d == mapping[y[2]]
                   x == <<StoredKind(other, d), d, y[3]>>
        <3>1. /\ d \in MeshComponents(other)
              /\ StoredKind(m, y[2]) = StoredKind(other, d)
              /\ d \in DOMAIN g
              /\ g[d] = y[2]
            BY <1>1, <1>2, <2>3
        <3>2. r.unique_vertex[y[2]] = Shifted(uv[d], k)
            BY <1>12, <2>1, <2>3
        <3> HIDE DEF d
        <3>3. IsVertexOf(other, x)
            BY <2>1, <3>1, <3>2 DEF IsVertexOf, Shifted
        <3>4. y = Moved(x, g) /\ x[2] = d
            BY <2>1, <3>1 DEF Moved
        <3> HIDE DEF x
        <3>5. QED
            BY <3>1, <3>3, <3>4 DEF Comes
    <2>4. QED
        BY <2>2, <2>3
<1>18. /\ IndexRange(k) \subseteq Nat
       /\ \A u \in IndexRange(NbUniqueVertices(other)) :
            /\ k + u \notin IndexRange(k)
            /\ k + u # NoId
            /\ \A w \in IndexRange(NbUniqueVertices(other)) :
                    k + u = k + w => u = w
    BY <1>6, <1>10 DEF IndexRange, NoId
<1>19. \A y : Stays(m, ids, y) =>
            (UniqueOf(r, y) = NoId <=> UniqueOf(m, y) = NoId)
    BY <1>5, <1>15 DEF IdentifiedAlike
<1>20. \A y, z : Stays(m, ids, y) /\ Stays(m, ids, z) =>
            (UniqueOf(r, y) = UniqueOf(r, z)
                <=> UniqueOf(m, y) = UniqueOf(m, z))
    BY <1>5, <1>15 DEF IdentifiedAlike
<1>21. \A x : Comes(other, g, x) =>
            (UniqueOf(r, Moved(x, g)) = NoId <=> UniqueOf(other, x) = NoId)
    BY <1>16, <1>18
<1>22. \A x, z : Comes(other, g, x) /\ Comes(other, g, z) =>
            (UniqueOf(r, Moved(x, g)) = UniqueOf(r, Moved(z, g))
                <=> UniqueOf(other, x) = UniqueOf(other, z))
    BY <1>16, <1>18
<1>23. \A y, x : Stays(m, ids, y) /\ Comes(other, g, x) =>
            \/ UniqueOf(r, y) = NoId
            \/ UniqueOf(r, y) # UniqueOf(r, Moved(x, g))
    BY <1>15, <1>16, <1>18
<1>24. IsMadeOf(r, m, ids, other, g)
    BY <1>15, <1>16, <1>17, <1>19, <1>20, <1>21, <1>22, <1>23 DEF IsMadeOf
<1>25. QED
    BY <1>12, <1>13, <1>24 DEF r, g, S
-----------------------------------------------------------------------------
(* Components that are added and removed. *)

\* What is kept of a list with one more element.
LEMMA KeptAppend ==
    ASSUME NEW T, NEW list \in Seq(T), NEW x \in T, NEW S
    PROVE  /\ Kept(<<>>, S) = <<>>
           /\ Kept(Append(list, x), S)
                = IF x \in S THEN Append(Kept(list, S), x) ELSE Kept(list, S)
<1> DEFINE longer == Append(list, x)
           N == Len(list)
<1>1. Kept(<<>>, S) = <<>>
    <2>1. <<>> \in Seq(T) /\ Len(<<>>) = 0
        OBVIOUS
    <2>2. PICK f : KeptTurns(<<>>, S, f)
        BY <2>1, TurnsOfKept
    <2>3. QED
        BY <2>1, <2>2 DEF KeptTurns
<1>2. /\ longer \in Seq(T)
      /\ N \in Nat
      /\ Len(longer) = N + 1
      /\ longer[N + 1] = x
      /\ \A n \in 1 .. N : longer[n] = list[n]
    OBVIOUS
<1>3. PICK f : /\ f[0] = <<>>
               /\ \A n \in 1 .. N :
                    f[n] = (IF list[n] \in S THEN Append(f[n - 1], list[n])
                                             ELSE f[n - 1])
               /\ Kept(list, S) = f[N]
    <2>1. PICK f : KeptTurns(list, S, f)
        BY TurnsOfKept
    <2>2. QED
        BY <2>1 DEF KeptTurns
<1> HIDE DEF longer, N
<1>4. PICK g : /\ g[0] = <<>>
               /\ \A n \in 1 .. N + 1 :
                    g[n] = (IF longer[n] \in S
                            THEN Append(g[n - 1], longer[n]) ELSE g[n - 1])
               /\ Kept(longer, S) = g[N + 1]
    <2>1. PICK g : KeptTurns(longer, S, g)
        BY <1>2, TurnsOfKept
    <2>2. QED
        BY <1>2, <2>1 DEF KeptTurns
<1>5. g[N] = f[N]
    <2> DEFINE R == {n \in Nat : n <= N => g[n] = f[n]}
    <2>1. 0 \in R
        BY <1>3, <1>4
    <2>2. ASSUME NEW n \in Nat, n \in R
          PROVE  n + 1 \in R
        <3>1. CASE n + 1 <= N
            <4>1. n + 1 \in 1 .. N /\ n + 1 \in 1 .. N + 1 /\ (n + 1) - 1 = n
                BY <1>2, <3>1
            <4>2. g[n] = f[n]
                BY <1>2, <2>2, <3>1
            <4>3. g[n + 1] = f[n + 1]
                BY <1>2, <1>3, <1>4, <4>1, <4>2
            <4>4. QED
                BY <4>3
        <3>2. CASE ~(n + 1 <= N)
            BY <3>2
        <3>3. QED
            BY <3>1, <3>2
    <2>3. N \in R
        <3> HIDE DEF R
        <3>1. Nat \subseteq R
            BY <2>1, <2>2, SetInduction
        <3>2. QED
            BY <1>2, <3>1
    <2>4. QED
        BY <1>2, <2>3
<1>6. N + 1 \in 1 .. N + 1 /\ (N + 1) - 1 = N
    BY <1>2
<1>7. g[N + 1] = IF x \in S THEN Append(g[N], x) ELSE g[N]
    BY <1>2, <1>4, <1>6
<1>8. QED
    BY <1>1, <1>3, <1>4, <1>5, <1>7 DEF longer

\* What is kept of what is kept, and what is kept of a list whose elements
\* are all kept.
LEMMA KeptOfKept ==
    ASSUME NEW T, NEW list \in Seq(T), NEW S, NEW U
    PROVE  Kept(Kept(list, S), U) = Kept(list, S \cap U)
<1> DEFINE N == Len(list)
<1>1. N \in Nat /\ \A n \in 1 .. N : list[n] \in T
    OBVIOUS
<1>2. PICK f : /\ f[0] = <<>>
               /\ \A n \in 1 .. N :
                    f[n] = (IF list[n] \in S THEN Append(f[n - 1], list[n])
                                             ELSE f[n - 1])
               /\ Kept(list, S) = f[N]
    <2>1. PICK f : KeptTurns(list, S, f)
        BY TurnsOfKept
    <2>2. QED
        BY <2>1 DEF KeptTurns
<1>3. PICK g : /\ g[0] = <<>>
               /\ \A n \in 1 .. N :
                    g[n] = (IF list[n] \in S \cap U
                            THEN Append(g[n - 1], list[n]) ELSE g[n - 1])
               /\ Kept(list, S \cap U) = g[N]
    <2>1. PICK g : KeptTurns(list, S \cap U, g)
        BY TurnsOfKept
    <2>2. QED
        BY <2>1 DEF KeptTurns
<1> HIDE DEF N
<1> DEFINE R == {n \in Nat : n <= N => /\ f[n] \in Seq(T)
                                       /\ Kept(f[n], U) = g[n]}
<1>4. 0 \in R
    <2>1. <<>> \in Seq(T) /\ Kept(<<>>, U) = <<>>
        <3>1. <<>> \in Seq(T) /\ Len(<<>>) = 0
            OBVIOUS
        <3>2. PICK h : KeptTurns(<<>>, U, h)
            BY <3>1, TurnsOfKept
        <3>3. QED
            BY <3>1, <3>2 DEF KeptTurns
    <2>2. QED
        BY <1>2, <1>3, <2>1
<1>5. ASSUME NEW n \in Nat, n \in R
      PROVE  n + 1 \in R
    <2>1. CASE n + 1 <= N
        <3> DEFINE x == list[n + 1]
        <3>1. n + 1 \in 1 .. N /\ (n + 1) - 1 = n /\ x \in T
            BY <1>1, <2>1
        <3>2. f[n] \in Seq(T) /\ Kept(f[n], U) = g[n]
            BY <1>1, <1>5, <2>1
        <3>3. /\ f[n + 1] = IF x \in S THEN Append(f[n], x) ELSE f[n]
              /\ g[n + 1] = IF x \in S \cap U THEN Append(g[n], x) ELSE g[n]
            BY <1>2, <1>3, <3>1
        <3> HIDE DEF x
        <3>4. Append(f[n], x) \in Seq(T)
            BY <3>1, <3>2
        <3>5. Kept(Append(f[n], x), U)
                = IF x \in U THEN Append(g[n], x) ELSE g[n]
            <4> DEFINE l == f[n]
            <4>1. l \in Seq(T) /\ Kept(l, U) = g[n] /\ x \in T
                BY <3>1, <3>2
            <4> HIDE DEF l
            <4>2. Kept(Append(l, x), U)
                    = IF x \in U THEN Append(Kept(l, U), x) ELSE Kept(l, U)
                BY <4>1, KeptAppend
            <4>3. QED
                BY <4>1, <4>2 DEF l
        <3>6. f[n + 1] \in Seq(T) /\ Kept(f[n + 1], U) = g[n + 1]
            BY <3>2, <3>3, <3>4, <3>5
        <3>7. QED
            BY <3>6
    <2>2. CASE ~(n + 1 <= N)
        BY <2>2
    <2>3. QED
        BY <2>1, <2>2
<1>6. N \in R
    <2> HIDE DEF R
    <2>1. Nat \subseteq R
        BY <1>4, <1>5, SetInduction
    <2>2. QED
        BY <1>1, <2>1
<1>7. QED
    BY <1>1, <1>2, <1>3, <1>6

\* A list is kept whole when all its elements are.
LEMMA KeptWhole ==
    ASSUME NEW T, NEW list \in Seq(T), NEW S, ToSet(list) \subseteq S
    PROVE  Kept(list, S) = list
<1> DEFINE N == Len(list)
<1>1. N \in Nat /\ \A n \in 1 .. N : list[n] \in T /\ list[n] \in S
    BY DEF ToSet
<1>2. PICK f : /\ f[0] = <<>>
               /\ \A n \in 1 .. N :
                    f[n] = (IF list[n] \in S THEN Append(f[n - 1], list[n])
                                             ELSE f[n - 1])
               /\ Kept(list, S) = f[N]
    <2>1. PICK f : KeptTurns(list, S, f)
        BY TurnsOfKept
    <2>2. QED
        BY <2>1 DEF KeptTurns
<1> DEFINE Same(s, n) == /\ s \in Seq(T)
                         /\ Len(s) = n
                         /\ \A i \in 1 .. n : s[i] = list[i]
           R == {n \in Nat : n <= N => Same(f[n], n)}
<1> HIDE DEF N
<1>3. 0 \in R
    <2>1. Same(<<>>, 0)
        OBVIOUS
    <2>2. QED
        BY <1>2, <2>1
<1>4. ASSUME NEW n \in Nat, n \in R
      PROVE  n + 1 \in R
    <2>1. CASE n + 1 <= N
        <3>1. n + 1 \in 1 .. N /\ (n + 1) - 1 = n
            BY <1>1, <2>1
        <3>2. Same(f[n], n)
            BY <1>1, <1>4, <2>1
        <3>3. f[n + 1] = Append(f[n], list[n + 1]) /\ list[n + 1] \in T
            BY <1>1, <1>2, <3>1
        <3>4. Same(Append(f[n], list[n + 1]), n + 1)
            BY <3>2, <3>3
        <3> HIDE DEF Same
        <3>5. Same(f[n + 1], n + 1)
            BY <3>3, <3>4
        <3>6. QED
            BY <3>5
    <2>2. CASE ~(n + 1 <= N)
        BY <2>2
    <2>3. QED
        BY <2>1, <2>2
<1>5. N \in R
    <2> HIDE DEF R
    <2>1. Nat \subseteq R
        BY <1>3, <1>4, SetInduction
    <2>2. QED
        BY <1>1, <2>1
<1>6. Same(Kept(list, S), N)
    BY <1>1, <1>2, <1>5
<1>7. QED
    BY <1>6 DEF N
-----------------------------------------------------------------------------
(* A component more or less, in every part of the model. *)

\* The lists of the attributes of any model.
LEMMA VerticesFound ==
    ASSUME NEW r, NEW n \in Nat,
           r.component_vertices
                = [u \in IndexRange(n) |-> r.component_vertices[u]],
           r.unique_vertex
                = [id \in MeshComponents(r) |-> r.unique_vertex[id]],
           \A id \in MeshComponents(r) : IsVertexVector(r.unique_vertex[id], n),
           \A u \in IndexRange(n) : \A x :
                x \in r.component_vertices[u]
                    <=> IsVertexOf(r, x) /\ UniqueOf(r, x) = u
    PROVE  VerticesHold(r) /\ NbUniqueVertices(r) = n
<1>1. DOMAIN r.unique_vertex = MeshComponents(r)
    OBVIOUS
<1>2. \A x, u : IsListed(r, x, u)
            <=> IsVertexOf(r, x) /\ UniqueOf(r, x) = u
    BY <1>1 DEF IsListed, IsVertexOf, UniqueOf
<1>3. VerticesHold(r)
    BY <1>2 DEF VerticesHold
<1>4. DOMAIN r.component_vertices = IndexRange(n)
    OBVIOUS
<1>5. QED
    BY <1>3, <1>4, SizeOfVector DEF NbUniqueVertices

\* The lists of a storage are without repetition.
LEMMA StoredLists ==
    ASSUME NEW m, StorageHolds(m), NEW k \in Kinds
    PROVE  /\ m.components[k] \in Seq(Ids)
           /\ NoRepeat(m.components[k])
           /\ Stored(m, k) = ToSet(m.components[k])
           /\ Stored(m, k) \subseteq Ids
<1>1. m.components[k] \in Seq(Ids)
    BY DEF StorageHolds
<1>2. Stored(m, k) \subseteq Ids
    BY <1>1, ElementOfSeq DEF Stored, ToSet
<1>3. QED
    BY <1>1, <1>2 DEF StorageHolds, NoRepeat, IsInjective, Stored

\* add_...() puts a new component in every part.
LEMMA ComponentAdded ==
    ASSUME NEW m, IsModel(m), NEW kind \in Kinds,
           NEW id \in Ids \ AllStored(m)
    PROVE  LET r == AddComponent(m, kind, id)
           IN  /\ IsModel(r)
               /\ r.dim = m.dim
               /\ r.registered = m.registered
               /\ r.relations = m.relations
               /\ \A k \in Kinds : Stored(r, k) =
                    IF k = kind THEN Stored(m, k) \cup {id} ELSE Stored(m, k)
               /\ r.components[kind] = Append(m.components[kind], id)
<1> DEFINE r == AddComponent(m, kind, id)
           uv == m.unique_vertex
           cvs == m.component_vertices
           n == NbUniqueVertices(m)
           mesh == kind \in MeshKinds
<1>1. /\ IsRecord(m)
      /\ StorageHolds(m)
      /\ RelationsHold(m)
    BY PartsOfModel
<1>2. /\ IsRecord(r)
      /\ r.dim = m.dim
      /\ r.components =
            [m.components EXCEPT ![kind] = Append(m.components[kind], id)]
      /\ r.inactive = m.inactive
      /\ r.mesh_components =
            IF mesh THEN [m.mesh_components EXCEPT
                            ![kind] = Append(m.mesh_components[kind], id)]
            ELSE m.mesh_components
      /\ r.collection_components =
            IF mesh THEN m.collection_components
            ELSE [m.collection_components EXCEPT
                    ![kind] = Append(m.collection_components[kind], id)]
      /\ r.registered = m.registered
      /\ r.relations = m.relations
      /\ r.unique_vertex =
            IF mesh THEN Joined([c \in {id} |-> Unset(0)], uv) ELSE uv
      /\ r.component_vertices = cvs
    <2>1. CASE mesh
        BY <1>1, <2>1 DEF AddComponent, AddMeshComponent, RegisterMesh, Create,
                          IsRecord, Fields
    <2>2. CASE ~mesh
        BY <1>1, <2>2 DEF AddComponent, AddCollectionComponent, Create,
                          IsRecord, Fields
    <2>3. QED
        BY <2>1, <2>2
<1> HIDE DEF r
<1>3. \A k \in Kinds : /\ m.components[k] \in Seq(Ids)
                       /\ NoRepeat(m.components[k])
                       /\ Stored(m, k) = ToSet(m.components[k])
                       /\ id \notin Stored(m, k)
    BY <1>1, StoredLists DEF AllStored
<1>4. /\ Append(m.components[kind], id) \in Seq(Ids)
      /\ NoRepeat(Append(m.components[kind], id))
      /\ ToSet(Append(m.components[kind], id)) = Stored(m, kind) \cup {id}
    <2> DEFINE list == m.components[kind]
    <2>1. list \in Seq(Ids) /\ NoRepeat(list) /\ id \notin ToSet(list)
        BY <1>3
    <2>2. id \in Ids
        OBVIOUS
    <2> HIDE DEF list
    <2>3. /\ Append(list, id) \in Seq(Ids)
          /\ NoRepeat(Append(list, id))
          /\ ToSet(Append(list, id)) = ToSet(list) \cup {id}
        BY <2>1, <2>2, AddedToList
    <2>4. QED
        BY <1>3, <2>3 DEF list
<1>5. /\ DOMAIN m.components = Kinds
      /\ DOMAIN m.mesh_components = Kinds
      /\ DOMAIN m.collection_components = Kinds
    BY <1>1 DEF StorageHolds, Listed
<1>6. /\ r.components \in [Kinds -> Seq(Ids)]
      /\ \A k \in Kinds : r.components[k] =
            IF k = kind THEN Append(m.components[k], id) ELSE m.components[k]
    BY <1>1, <1>2, <1>4 DEF StorageHolds
<1>7. \A k \in Kinds : Stored(r, k) =
            IF k = kind THEN Stored(m, k) \cup {id} ELSE Stored(m, k)
    BY <1>3, <1>4, <1>6 DEF Stored
<1>8. \A k \in Kinds : IsInjective(r.components[k])
    BY <1>3, <1>4, <1>6 DEF NoRepeat, IsInjective
<1>9. /\ r.mesh_components = Listed(r.components, MeshKinds)
      /\ r.collection_components = Listed(r.components, Kinds \ MeshKinds)
    <2>1. \A k \in Kinds :
            /\ m.mesh_components[k] =
                    IF k \in MeshKinds THEN m.components[k] ELSE <<>>
            /\ m.collection_components[k] =
                    IF k \in MeshKinds THEN <<>> ELSE m.components[k]
        BY <1>1 DEF StorageHolds, Listed
    <2>2. /\ r.mesh_components = [k \in Kinds |-> r.mesh_components[k]]
          /\ r.collection_components
                = [k \in Kinds |-> r.collection_components[k]]
        <3>1. /\ m.mesh_components = [k \in Kinds |-> m.mesh_components[k]]
              /\ m.collection_components
                    = [k \in Kinds |-> m.collection_components[k]]
            BY <1>1 DEF StorageHolds, Listed
        <3>2. QED
            BY <1>2, <3>1
    <2>3. \A k \in Kinds :
            /\ r.mesh_components[k] =
                    IF k \in MeshKinds THEN r.components[k] ELSE <<>>
            /\ r.collection_components[k] =
                    IF k \in MeshKinds THEN <<>> ELSE r.components[k]
        <3>1. CASE mesh
            BY <1>2, <1>5, <1>6, <2>1, <3>1
        <3>2. CASE ~mesh
            BY <1>2, <1>5, <1>6, <2>1, <3>2
        <3>3. QED
            BY <3>1, <3>2
    <2>4. QED
        BY <2>2, <2>3 DEF Listed
<1>10. StorageHolds(r)
    <2>1. AllStored(m) \subseteq AllStored(r)
        BY <1>7 DEF AllStored
    <2>2. \A k, l \in Kinds : k # l => Stored(r, k) \cap Stored(r, l) = {}
        BY <1>1, <1>3, <1>7 DEF StorageHolds
    <2>3. r.dim \in {2, 3} /\ r.inactive \subseteq AllStored(r)
        BY <1>1, <1>2, <2>1 DEF StorageHolds
    <2>4. QED
        BY <1>6, <1>8, <1>9, <2>2, <2>3 DEF StorageHolds
<1>11. RelationsHold(r)
    <2>1. \A c \in DOMAIN r.registered : c \in Stored(r, r.registered[c])
        BY <1>1, <1>2, <1>7 DEF RelationsHold
    <2>2. RelationsFit(r)
        BY <1>1, <1>2 DEF RelationsHold, RelationsFit
    <2>3. QED
        BY <1>1, <1>2, <2>1, <2>2 DEF RelationsHold
<1>12. \A c \in AllStored(m) : StoredKind(r, c) = StoredKind(m, c)
    <2>1. ASSUME NEW k \in Kinds, NEW c \in Stored(m, k)
          PROVE  StoredKind(r, c) = StoredKind(m, c)
        <3>1. c \in Stored(r, k)
            BY <1>7
        <3>2. QED
            BY <1>1, <1>10, <3>1, KindOfStored
    <2>2. QED
        BY <2>1 DEF AllStored
<1>13. /\ n \in Nat
       /\ cvs = [u \in IndexRange(n) |-> cvs[u]]
       /\ DOMAIN cvs = IndexRange(n)
       /\ DOMAIN uv = MeshComponents(m)
       /\ uv = [c \in MeshComponents(m) |-> uv[c]]
       /\ \A c \in MeshComponents(m) : IsVertexVector(uv[c], n)
       /\ MeshComponents(m) \subseteq AllStored(m)
    BY VerticesOfModel, ComponentsAreFinite
<1>14. \A u \in IndexRange(n) : \A x :
            x \in cvs[u] <=> IsVertexOf(m, x) /\ UniqueOf(m, x) = u
    BY <1>13, ListedVertices
<1>15. MeshComponents(r) = IF mesh THEN MeshComponents(m) \cup {id}
                                  ELSE MeshComponents(m)
    <2>1. MeshKinds \subseteq Kinds
        BY DEF MeshKinds
    <2>2. QED
        BY <1>7, <2>1 DEF MeshComponents
<1> HIDE DEF n, uv, cvs
<1>16. /\ r.unique_vertex = [c \in MeshComponents(r) |-> r.unique_vertex[c]]
       /\ \A c \in MeshComponents(m) : r.unique_vertex[c] = uv[c]
       /\ mesh => r.unique_vertex[id] = Unset(0)
    <2>1. id \notin MeshComponents(m)
        BY <1>13
    <2>2. CASE mesh
        <3>1. r.unique_vertex = Joined([c \in {id} |-> Unset(0)], uv)
            BY <1>2, <2>2
        <3>2. QED
            BY <1>13, <1>15, <2>1, <2>2, <3>1 DEF Joined
    <2>3. CASE ~mesh
        BY <1>2, <1>13, <1>15, <2>3
    <2>4. QED
        BY <2>2, <2>3
<1>17. DOMAIN Unset(0) = {}
    BY DEF Unset, IndexRange
<1>18. \A x : /\ IsVertexOf(r, x) <=> IsVertexOf(m, x)
              /\ IsVertexOf(m, x) => UniqueOf(r, x) = UniqueOf(m, x)
    <2>1. ASSUME NEW x
          PROVE  /\ IsVertexOf(r, x) <=> IsVertexOf(m, x)
                 /\ IsVertexOf(m, x) => UniqueOf(r, x) = UniqueOf(m, x)
        <3>1. CASE x[2] \in MeshComponents(m)
            <4>1. /\ x[2] \in MeshComponents(r)
                  /\ r.unique_vertex[x[2]] = m.unique_vertex[x[2]]
                  /\ StoredKind(r, x[2]) = StoredKind(m, x[2])
                BY <1>12, <1>13, <1>15, <1>16, <3>1 DEF uv
            <4>2. QED
                BY <3>1, <4>1 DEF IsVertexOf, UniqueOf
        <3>2. CASE x[2] \notin MeshComponents(m)
            <4>1. ~IsVertexOf(m, x)
                BY <3>2 DEF IsVertexOf
            <4>2. x[2] \in MeshComponents(r) => DOMAIN r.unique_vertex[x[2]] = {}
                BY <1>15, <1>16, <1>17, <3>2
            <4>3. QED
                BY <4>1, <4>2 DEF IsVertexOf
        <3>3. QED
            BY <3>1, <3>2
    <2>2. QED
        BY <2>1
<1>19. \A c \in MeshComponents(r) : IsVertexVector(r.unique_vertex[c], n)
    <2>1. IsVertexVector(Unset(0), n)
        BY DEF IsVertexVector, Unset
    <2>2. QED
        BY <1>13, <1>15, <1>16, <2>1
<1>20. \A u \in IndexRange(n) : \A x :
            x \in r.component_vertices[u]
                <=> IsVertexOf(r, x) /\ UniqueOf(r, x) = u
    BY <1>2, <1>14, <1>18
<1>21. r.component_vertices = [u \in IndexRange(n) |-> r.component_vertices[u]]
    BY <1>2, <1>13
<1>22. VerticesHold(r)
    BY <1>13, <1>16, <1>19, <1>20, <1>21, VerticesFound
<1>23. IsModel(r)
    BY <1>2, <1>10, <1>11, <1>22, PartsOfModel
<1>24. QED
    BY <1>2, <1>6, <1>7, <1>23 DEF r
\* Of the set, only the elements of the list make a difference.
LEMMA KeptSame ==
    ASSUME NEW T, NEW list \in Seq(T), NEW S, NEW U,
           ToSet(list) \cap S = ToSet(list) \cap U
    PROVE  Kept(list, S) = Kept(list, U)
<1>1. Kept(list, ToSet(list)) = list
    BY KeptWhole
<1>2. /\ Kept(list, S) = Kept(list, ToSet(list) \cap S)
      /\ Kept(list, U) = Kept(list, ToSet(list) \cap U)
    <2> DEFINE all == ToSet(list)
    <2>1. /\ Kept(Kept(list, all), S) = Kept(list, all \cap S)
          /\ Kept(Kept(list, all), U) = Kept(list, all \cap U)
        BY KeptOfKept
    <2>2. QED
        BY <1>1, <2>1
<1>3. QED
    BY <1>2

\* r is m without the components that are not in S.
KeepsOnly(m, r, S) ==
    /\ r.dim = m.dim
    /\ \A k \in Kinds : r.components[k] = Kept(m.components[k], S)
    /\ r.inactive = m.inactive \cap S
    /\ DOMAIN r.registered = DOMAIN m.registered \cap S
    /\ \A id \in DOMAIN r.registered : r.registered[id] = m.registered[id]
    /\ \A q : q \in r.relations <=>
            q \in m.relations /\ q[1] \in S /\ q[2] \in S
    /\ \A x : IsVertexOf(r, x) <=> IsVertexOf(m, x) /\ x[2] \in S
    /\ \A x : IsVertexOf(r, x) => UniqueOf(r, x) = UniqueOf(m, x)

\* The components that are left are those of S.
LEMMA StoredAfterKept ==
    ASSUME NEW m, IsModel(m), NEW S, NEW r,
           \A k \in Kinds : r.components[k] = Kept(m.components[k], S)
    PROVE  /\ \A k \in Kinds : Stored(r, k) = Stored(m, k) \cap S
           /\ AllStored(r) = AllStored(m) \cap S
           /\ MeshComponents(r) = MeshComponents(m) \cap S
<1>1. StorageHolds(m)
    BY PartsOfModel
<1>2. \A k \in Kinds : Stored(r, k) = Stored(m, k) \cap S
    BY <1>1, StoredLists, KeptList DEF Stored
<1>3. QED
    BY <1>2 DEF AllStored, MeshComponents, MeshKinds

\* What is kept of what was kept of a model.
LEMMA KeptFurther ==
    ASSUME NEW m, IsModel(m), NEW a, IsModel(a), NEW r, NEW S, NEW U,
           KeepsOnly(m, a, S), KeepsOnly(a, r, U)
    PROVE  KeepsOnly(m, r, S \cap U)
<1>1. ASSUME NEW k \in Kinds
      PROVE  r.components[k] = Kept(m.components[k], S \cap U)
    <2>1. m.components[k] \in Seq(Ids)
        BY PartsOfModel, StoredLists
    <2>2. QED
        BY <2>1, KeptOfKept DEF KeepsOnly
<1>2. QED
    BY <1>1 DEF KeepsOnly

\* remove_...() takes a component out of every part.
LEMMA ComponentRemoved ==
    ASSUME NEW m, IsModel(m), NEW kind \in Kinds, NEW id \in Stored(m, kind)
    PROVE  LET r == RemoveComponent(m, kind, id)
           IN  IsModel(r) /\ KeepsOnly(m, r, AllStored(m) \ {id})
<1> DEFINE r == RemoveComponent(m, kind, id)
           uv == m.unique_vertex
           cvs == m.component_vertices
           n == NbUniqueVertices(m)
           S == AllStored(m) \ {id}
           mesh == kind \in MeshKinds
           without(cv) == {x \in cv : x[2] # id}
<1>1. /\ IsRecord(m)
      /\ StorageHolds(m)
      /\ RelationsHold(m)
    BY PartsOfModel
<1>2. /\ IsRecord(r)
      /\ r.dim = m.dim
      /\ r.components =
            [m.components EXCEPT ![kind] = Without(m.components[kind], id)]
      /\ r.inactive = m.inactive \ {id}
      /\ r.mesh_components =
            IF mesh THEN [m.mesh_components EXCEPT
                            ![kind] = Without(m.mesh_components[kind], id)]
            ELSE m.mesh_components
      /\ r.collection_components =
            IF mesh THEN m.collection_components
            ELSE [m.collection_components EXCEPT
                    ![kind] = Without(m.collection_components[kind], id)]
      /\ r.registered = Restrict(m.registered, DOMAIN m.registered \ {id})
      /\ r.relations = {q \in m.relations : id \notin {q[1], q[2]}}
      /\ r.unique_vertex = IF mesh THEN Restrict(uv, DOMAIN uv \ {id}) ELSE uv
      /\ r.component_vertices =
            IF mesh THEN [u \in DOMAIN cvs |-> without(cvs[u])] ELSE cvs
    <2>1. CASE mesh
        <3> DEFINE a == UnregisterComponent(m, id)
                   b == UnregisterMesh(a, id)
                   c == [b EXCEPT !.mesh_components[kind] = Without(@, id)]
        <3>1. /\ IsRecord(a)
              /\ a.dim = m.dim
              /\ a.components = m.components
              /\ a.inactive = m.inactive
              /\ a.mesh_components = m.mesh_components
              /\ a.collection_components = m.collection_components
              /\ a.registered = Restrict(m.registered,
                                        DOMAIN m.registered \ {id})
              /\ a.relations = {q \in m.relations : id \notin {q[1], q[2]}}
              /\ a.unique_vertex = uv
              /\ a.component_vertices = cvs
            BY <1>1 DEF UnregisterComponent, IsRecord, Fields
        <3> HIDE DEF a
        <3>2. /\ DifferInVertices(a, b)
              /\ b.unique_vertex = Restrict(uv, DOMAIN uv \ {id})
              /\ b.component_vertices
                    = [u \in DOMAIN cvs |-> without(cvs[u])]
            BY <3>1 DEF DifferInVertices, UnregisterMesh, IsRecord, Fields
        <3> HIDE DEF b
        <3>3. /\ IsRecord(c)
              /\ c.dim = m.dim
              /\ c.components = m.components
              /\ c.inactive = m.inactive
              /\ c.mesh_components = [m.mesh_components EXCEPT
                            ![kind] = Without(m.mesh_components[kind], id)]
              /\ c.collection_components = m.collection_components
              /\ c.registered = a.registered
              /\ c.relations = a.relations
              /\ c.unique_vertex = b.unique_vertex
              /\ c.component_vertices = b.component_vertices
            BY <3>1, <3>2 DEF DifferInVertices, IsRecord, Fields
        <3>4. r = Delete(c, kind, id)
            BY <2>1 DEF RemoveComponent, RemoveMeshComponent, a, b
        <3> HIDE DEF c
        <3>5. /\ IsRecord(r)
              /\ r.dim = c.dim
              /\ r.components = [c.components EXCEPT
                                    ![kind] = Without(c.components[kind], id)]
              /\ r.inactive = c.inactive \ {id}
              /\ r.mesh_components = c.mesh_components
              /\ r.collection_components = c.collection_components
              /\ r.registered = c.registered
              /\ r.relations = c.relations
              /\ r.unique_vertex = c.unique_vertex
              /\ r.component_vertices = c.component_vertices
            BY <3>3, <3>4 DEF Delete, IsRecord, Fields
        <3> HIDE DEF r
        <3>6. QED
            BY <2>1, <3>1, <3>2, <3>3, <3>5 DEF DifferInVertices
    <2>2. CASE ~mesh
        BY <1>1, <2>2 DEF RemoveComponent, RemoveCollectionComponent,
                          UnregisterComponent, Delete, IsRecord, Fields
    <2>3. QED
        BY <2>1, <2>2
<1> HIDE DEF r
<1>3. \A k \in Kinds : /\ m.components[k] \in Seq(Ids)
                       /\ NoRepeat(m.components[k])
                       /\ Stored(m, k) = ToSet(m.components[k])
                       /\ Stored(m, k) \subseteq AllStored(m)
                       /\ id \in Stored(m, k) <=> k = kind
    BY <1>1, StoredLists DEF AllStored, StorageHolds
<1>4. /\ DOMAIN m.components = Kinds
      /\ DOMAIN m.mesh_components = Kinds
      /\ DOMAIN m.collection_components = Kinds
    BY <1>1 DEF StorageHolds, Listed
<1>5. ASSUME NEW k \in Kinds
      PROVE  r.components[k] = Kept(m.components[k], S)
    <2>1. CASE k = kind
        <3>1. r.components[k] = Kept(m.components[k], Stored(m, k) \ {id})
            BY <1>2, <1>3, <1>4, <2>1 DEF Without
        <3>2. ToSet(m.components[k]) \cap S
                = ToSet(m.components[k]) \cap (Stored(m, k) \ {id})
            BY <1>3
        <3> HIDE DEF S
        <3>3. Kept(m.components[k], S)
                = Kept(m.components[k], Stored(m, k) \ {id})
            BY <1>3, <3>2, KeptSame
        <3>4. QED
            BY <3>1, <3>3
    <2>2. CASE k # kind
        <3>1. r.components[k] = m.components[k]
            BY <1>2, <1>4, <2>2
        <3>2. ToSet(m.components[k]) \subseteq S
            BY <1>3, <2>2
        <3> HIDE DEF S
        <3>3. Kept(m.components[k], S) = m.components[k]
            BY <1>3, <3>2, KeptWhole
        <3>4. QED
            BY <3>1, <3>3
    <2>3. QED
        BY <2>1, <2>2
<1>6. /\ \A k \in Kinds : Stored(r, k) = Stored(m, k) \ {id}
      /\ AllStored(r) = AllStored(m) \ {id}
      /\ MeshComponents(r) = MeshComponents(m) \ {id}
    <2>1. MeshComponents(m) \subseteq AllStored(m)
        BY ComponentsAreFinite
    <2>2. /\ \A k \in Kinds : Stored(r, k) = Stored(m, k) \cap S
          /\ AllStored(r) = AllStored(m) \cap S
          /\ MeshComponents(r) = MeshComponents(m) \cap S
        <3> HIDE DEF S
        <3>1. QED
            BY <1>5, StoredAfterKept
    <2>3. QED
        BY <1>3, <2>1, <2>2
<1>7. \A k \in Kinds : /\ r.components[k] \in Seq(Ids)
                       /\ IsInjective(r.components[k])
    <2> HIDE DEF S
    <2>1. ASSUME NEW k \in Kinds
          PROVE  /\ Kept(m.components[k], S) \in Seq(Ids)
                 /\ NoRepeat(Kept(m.components[k], S))
        <3>1. m.components[k] \in Seq(Ids) /\ NoRepeat(m.components[k])
            BY <1>3
        <3>2. QED
            BY <3>1, KeptList
    <2>2. QED
        BY <1>5, <2>1 DEF NoRepeat, IsInjective
<1>8. /\ r.mesh_components = Listed(r.components, MeshKinds)
      /\ r.collection_components = Listed(r.components, Kinds \ MeshKinds)
    <2>1. \A k \in Kinds :
            /\ m.mesh_components[k] =
                    IF k \in MeshKinds THEN m.components[k] ELSE <<>>
            /\ m.collection_components[k] =
                    IF k \in MeshKinds THEN <<>> ELSE m.components[k]
        BY <1>1 DEF StorageHolds, Listed
    <2>2. /\ r.mesh_components = [k \in Kinds |-> r.mesh_components[k]]
          /\ r.collection_components
                = [k \in Kinds |-> r.collection_components[k]]
        <3>1. /\ m.mesh_components = [k \in Kinds |-> m.mesh_components[k]]
              /\ m.collection_components
                    = [k \in Kinds |-> m.collection_components[k]]
            BY <1>1 DEF StorageHolds, Listed
        <3>2. QED
            BY <1>2, <3>1
    <2>3. \A k \in Kinds :
            /\ r.mesh_components[k] =
                    IF k \in MeshKinds THEN r.components[k] ELSE <<>>
            /\ r.collection_components[k] =
                    IF k \in MeshKinds THEN <<>> ELSE r.components[k]
        <3>1. CASE mesh
            BY <1>2, <1>4, <2>1, <3>1
        <3>2. CASE ~mesh
            BY <1>2, <1>4, <2>1, <3>2
        <3>3. QED
            BY <3>1, <3>2
    <2>4. QED
        BY <2>2, <2>3 DEF Listed
<1>9. StorageHolds(r)
    <2>1. r.components \in [Kinds -> Seq(Ids)]
        <3>1. r.components = [k \in Kinds |-> r.components[k]]
            BY <1>1, <1>2 DEF StorageHolds
        <3>2. QED
            BY <1>7, <3>1
    <2>2. \A k, l \in Kinds : k # l => Stored(r, k) \cap Stored(r, l) = {}
        BY <1>1, <1>6 DEF StorageHolds
    <2>3. r.dim \in {2, 3} /\ r.inactive \subseteq AllStored(r)
        BY <1>1, <1>2, <1>6 DEF StorageHolds
    <2>4. QED
        BY <1>7, <1>8, <2>1, <2>2, <2>3 DEF StorageHolds
<1>10. /\ DOMAIN m.registered \subseteq AllStored(m)
       /\ DOMAIN r.registered = DOMAIN m.registered \ {id}
       /\ r.registered = [c \in DOMAIN r.registered |-> r.registered[c]]
       /\ \A c \in DOMAIN r.registered : r.registered[c] = m.registered[c]
    BY <1>1, <1>2, <1>3 DEF RelationsHold, Restrict
<1>11. RelationsHold(r)
    <2>1. \A c \in DOMAIN r.registered : c \in Stored(r, r.registered[c])
        BY <1>1, <1>6, <1>10 DEF RelationsHold
    <2>2. \A q \in r.relations :
                IsTriple(q, DOMAIN r.registered, RelationTypes)
        BY <1>1, <1>2, <1>10 DEF RelationsHold, IsTriple
    <2>3. RelationsFit(r)
        <3>1. \A q \in r.relations :
                    q \in m.relations /\ r.registered[q[1]] = m.registered[q[1]]
                                      /\ r.registered[q[2]] = m.registered[q[2]]
            BY <1>2, <1>10, <2>2 DEF IsTriple
        <3>2. QED
            BY <1>1, <1>2, <3>1 DEF RelationsHold, RelationsFit
    <2>4. r.registered \in [DOMAIN r.registered -> Kinds]
        BY <1>1, <1>10 DEF RelationsHold
    <2>5. QED
        BY <2>1, <2>2, <2>3, <2>4 DEF RelationsHold
<1>12. \A c \in AllStored(r) : StoredKind(r, c) = StoredKind(m, c)
    <2>1. ASSUME NEW k \in Kinds, NEW c \in Stored(r, k)
          PROVE  StoredKind(r, c) = StoredKind(m, c)
        BY <1>1, <1>6, <1>9, KindOfStored
    <2>2. QED
        BY <2>1 DEF AllStored
<1>13. /\ n \in Nat
       /\ cvs = [u \in IndexRange(n) |-> cvs[u]]
       /\ DOMAIN cvs = IndexRange(n)
       /\ DOMAIN uv = MeshComponents(m)
       /\ uv = [c \in MeshComponents(m) |-> uv[c]]
       /\ \A c \in MeshComponents(m) : IsVertexVector(uv[c], n)
       /\ MeshComponents(m) \subseteq AllStored(m)
    BY VerticesOfModel, ComponentsAreFinite
<1>14. \A u \in IndexRange(n) : \A x :
            x \in cvs[u] <=> IsVertexOf(m, x) /\ UniqueOf(m, x) = u
    BY <1>13, ListedVertices
<1>15. ~mesh => id \notin MeshComponents(m)
    BY <1>3 DEF MeshComponents, MeshKinds
<1> HIDE DEF n, uv, cvs
<1>16. /\ r.unique_vertex = [c \in MeshComponents(r) |-> r.unique_vertex[c]]
       /\ \A c \in MeshComponents(r) : r.unique_vertex[c] = uv[c]
    <2>1. CASE mesh
        <3>1. r.unique_vertex = Restrict(uv, MeshComponents(r))
            BY <1>2, <1>6, <1>13, <2>1
        <3>2. QED
            BY <3>1 DEF Restrict
    <2>2. CASE ~mesh
        BY <1>2, <1>6, <1>13, <1>15, <2>2
    <2>3. QED
        BY <2>1, <2>2
<1>17. \A x : /\ IsVertexOf(r, x) <=> IsVertexOf(m, x) /\ x[2] # id
              /\ IsVertexOf(r, x) => UniqueOf(r, x) = UniqueOf(m, x)
    <2>1. MeshComponents(r) \subseteq AllStored(r)
        BY <1>6, <1>13
    <2>2. QED
        BY <1>6, <1>12, <1>16, <2>1 DEF IsVertexOf, UniqueOf, uv
<1>18. \A c \in MeshComponents(r) : IsVertexVector(r.unique_vertex[c], n)
    BY <1>6, <1>13, <1>16
<1>19. ASSUME NEW u \in IndexRange(n), NEW x
       PROVE  x \in r.component_vertices[u]
                <=> IsVertexOf(r, x) /\ UniqueOf(r, x) = u
    <2>1. CASE mesh
        <3>1. r.component_vertices[u] = without(cvs[u])
            BY <1>2, <1>13, <2>1
        <3>2. QED
            BY <1>14, <1>17, <3>1
    <2>2. CASE ~mesh
        <3>1. r.component_vertices[u] = cvs[u]
            BY <1>2, <2>2
        <3>2. IsVertexOf(m, x) => x[2] # id
            BY <1>15, <2>2 DEF IsVertexOf
        <3>3. QED
            BY <1>14, <1>17, <3>1, <3>2
    <2>3. QED
        BY <2>1, <2>2
<1>20. r.component_vertices = [u \in IndexRange(n) |-> r.component_vertices[u]]
    <2>1. CASE mesh
        BY <1>2, <1>13, <2>1
    <2>2. CASE ~mesh
        BY <1>2, <1>13, <2>2
    <2>3. QED
        BY <2>1, <2>2
<1>21. VerticesHold(r)
    BY <1>13, <1>16, <1>18, <1>19, <1>20, VerticesFound
<1>22. IsModel(r)
    BY <1>2, <1>9, <1>11, <1>21, PartsOfModel
<1>23. KeepsOnly(m, r, S)
    <2>1. \A q : q \in r.relations <=>
                q \in m.relations /\ q[1] \in S /\ q[2] \in S
        <3>1. \A q \in m.relations : q[1] \in AllStored(m) /\ q[2] \in AllStored(m)
            BY <1>1, <1>10 DEF RelationsHold, IsTriple
        <3>2. QED
            BY <1>2, <3>1
    <2>2. \A x : IsVertexOf(m, x) => x[2] \in AllStored(m)
        BY <1>13 DEF IsVertexOf
    <2>3. \A x : IsVertexOf(r, x) <=> IsVertexOf(m, x) /\ x[2] \in S
        BY <1>17, <2>2
    <2>4. /\ r.inactive = m.inactive \cap S
          /\ DOMAIN r.registered = DOMAIN m.registered \cap S
        <3>1. m.inactive \subseteq AllStored(m)
            BY <1>1 DEF StorageHolds
        <3>2. QED
            BY <1>2, <1>10, <3>1
    <2> HIDE DEF S
    <2>5. QED
        BY <1>2, <1>5, <1>10, <1>17, <2>1, <2>3, <2>4 DEF KeepsOnly
<1>24. QED
    BY <1>22, <1>23 DEF r
\* A model is what it keeps of itself.
LEMMA KeepsAll ==
    ASSUME NEW m, IsModel(m)
    PROVE  KeepsOnly(m, m, AllStored(m))
<1>1. StorageHolds(m) /\ RelationsHold(m)
    BY PartsOfModel
<1>2. ASSUME NEW k \in Kinds
      PROVE  m.components[k] = Kept(m.components[k], AllStored(m))
    <2>1. /\ m.components[k] \in Seq(Ids)
          /\ ToSet(m.components[k]) \subseteq AllStored(m)
        BY <1>1, StoredLists DEF AllStored
    <2>2. QED
        BY <2>1, KeptWhole
<1>3. m.inactive = m.inactive \cap AllStored(m)
    BY <1>1 DEF StorageHolds
<1>4. DOMAIN m.registered \subseteq AllStored(m)
    BY <1>1 DEF RelationsHold, AllStored
<1>5. \A q \in m.relations : q[1] \in AllStored(m) /\ q[2] \in AllStored(m)
    BY <1>1, <1>4 DEF RelationsHold, IsTriple
<1>6. \A x : IsVertexOf(m, x) => x[2] \in AllStored(m)
    BY ComponentsAreFinite DEF IsVertexOf
<1>7. QED
    BY <1>2, <1>3, <1>4, <1>5, <1>6 DEF KeepsOnly

\* Components of one kind are removed one after the other.
LEMMA ComponentsRemoved ==
    ASSUME NEW m, IsModel(m), NEW kind \in Kinds,
           NEW ids, ids \subseteq Stored(m, kind)
    PROVE  LET r == RemoveComponents(m, kind, ids)
           IN  IsModel(r) /\ KeepsOnly(m, r, AllStored(m) \ ids)
<1> DEFINE A == AllStored(m)
<1>1. IsFiniteSet(ids)
    <2>1. Stored(m, kind) \subseteq A
        BY DEF AllStored
    <2>2. QED
        BY <2>1, ComponentsAreFinite, FS_Subset
<1>2. PICK N \in Nat : \E list, f :
            RemoveComponentsTurns(m, kind, ids, N, list, f)
    BY <1>1, TurnsOfRemoveComponents
<1>3. PICK list, f :
        /\ ListsAll(list, N, ids)
        /\ f[0] = m
        /\ \A n \in 1 .. N : f[n] = RemoveComponent(f[n - 1], kind, list[n])
        /\ RemoveComponents(m, kind, ids) = f[N]
    <2>1. PICK list, f : RemoveComponentsTurns(m, kind, ids, N, list, f)
        BY <1>2
    <2>2. QED
        BY <2>1 DEF RemoveComponentsTurns
<1> DEFINE D(n) == {list[i] : i \in 1 .. n}
           P(n) == IsModel(f[n]) /\ KeepsOnly(m, f[n], A \ D(n))
           R == {n \in Nat : n <= N => P(n)}
<1>4. 0 \in R
    <2>1. A \ D(0) = A
        OBVIOUS
    <2> HIDE DEF D
    <2>2. P(0)
        BY <1>3, <2>1, KeepsAll
    <2>3. QED
        BY <2>2
<1>5. ASSUME NEW n \in Nat, n \in R
      PROVE  n + 1 \in R
    <2>1. CASE n + 1 <= N
        <3> DEFINE id == list[n + 1]
                   a == f[n]
                   r == f[n + 1]
        <3>1. P(n)
            BY <1>2, <1>5, <2>1
        <3>2. n + 1 \in 1 .. N /\ (n + 1) - 1 = n
            BY <1>2, <2>1
        <3>3. r = RemoveComponent(a, kind, id)
            BY <1>3, <3>2
        <3>4. id \in ids /\ id \notin D(n)
            <4>1. \A i \in 1 .. n : i \in 1 .. N /\ i # n + 1
                BY <1>2, <2>1
            <4>2. QED
                BY <1>3, <3>2, <4>1 DEF ListsAll
        <3>5. D(n + 1) = D(n) \cup {id}
            OBVIOUS
        <3> HIDE DEF D, id, r, a
        <3>6. IsModel(a) /\ KeepsOnly(m, a, A \ D(n))
            BY <3>1 DEF a
        <3>7. /\ \A k \in Kinds : Stored(a, k) = Stored(m, k) \cap (A \ D(n))
              /\ AllStored(a) = A \cap (A \ D(n))
            <4>1. \A k \in Kinds :
                    a.components[k] = Kept(m.components[k], A \ D(n))
                BY <3>6 DEF KeepsOnly
            <4> HIDE DEF A
            <4>2. QED
                BY <4>1, StoredAfterKept DEF A
        <3>8. id \in Stored(a, kind)
            BY <3>4, <3>7 DEF AllStored
        <3>9. IsModel(r) /\ KeepsOnly(a, r, AllStored(a) \ {id})
            BY <3>3, <3>6, <3>8, ComponentRemoved
        <3>10. (A \ D(n)) \cap (AllStored(a) \ {id}) = A \ D(n + 1)
            BY <3>5, <3>7
        <3> HIDE DEF A
        <3>11. KeepsOnly(m, r, (A \ D(n)) \cap (AllStored(a) \ {id}))
            BY <3>6, <3>9, KeptFurther
        <3>12. P(n + 1)
            BY <3>9, <3>10, <3>11 DEF r
        <3>13. QED
            BY <3>12
    <2>2. CASE ~(n + 1 <= N)
        BY <2>2
    <2>3. QED
        BY <2>1, <2>2
<1>6. N \in R
    <2> HIDE DEF R
    <2>1. Nat \subseteq R
        BY <1>4, <1>5, SetInduction
    <2>2. QED
        BY <1>2, <2>1
<1>7. D(N) = ids
    BY <1>3 DEF ListsAll
<1> HIDE DEF D
<1>8. P(N)
    BY <1>2, <1>6
<1>9. QED
    BY <1>3, <1>7, <1>8
-----------------------------------------------------------------------------
(* Relations, copies and concatenations. *)

\* The models m and r differ in the relations of their components.
DifferInRelations(m, r) ==
    /\ IsRecord(r)
    /\ r.dim = m.dim
    /\ r.components = m.components
    /\ r.inactive = m.inactive
    /\ r.mesh_components = m.mesh_components
    /\ r.collection_components = m.collection_components
    /\ r.unique_vertex = m.unique_vertex
    /\ r.component_vertices = m.component_vertices

\* If only the relations change, only they have to be looked at.
LEMMA RelationsChanged ==
    ASSUME NEW m, IsModel(m), NEW r, DifferInRelations(m, r), RelationsHold(r)
    PROVE  IsModel(r)
<1>1. StorageHolds(m) /\ VerticesHold(m)
    BY PartsOfModel
<1>2. StorageHolds(r) /\ VerticesHold(r)
    BY <1>1, SameStorage, SameVertices DEF DifferInRelations
<1>3. QED
    BY <1>2, PartsOfModel DEF DifferInRelations

\* The components from and to, of these kinds, may have a relation of a type.
MayRelate(m, from, to, type) ==
    /\ from[1] \in Kinds /\ from[2] \in Stored(m, from[1])
    /\ to[1] \in Kinds /\ to[2] \in Stored(m, to[1])
    /\ type \in RelationTypes
    /\ <<from[1], to[1]>> \in RelatedKinds(m.dim, type)

Unrelated(m, c, d) == \A q \in m.relations : {q[1], q[2]} # {c, d}

\* add_relation() adds a relation, unless there is one.
LEMMA RelationAdded ==
    ASSUME NEW m, IsModel(m), NEW from, NEW to, NEW type,
           MayRelate(m, from, to, type)
    PROVE  LET r == Relate(m, from, to, type)
           IN  /\ IsModel(r)
               /\ DifferInRelations(m, r)
               /\ Unrelated(m, from[2], to[2]) =>
                    r.relations = m.relations \cup {<<from[2], to[2], type>>}
<1> DEFINE r == Relate(m, from, to, type)
           c == from[2]
           d == to[2]
           new == <<c, d, type>>
           given == [x \in {c, d} |-> IF x = c THEN from[1] ELSE to[1]]
<1>1. IsRecord(m) /\ StorageHolds(m) /\ RelationsHold(m)
    BY PartsOfModel
<1>2. DifferInRelations(m, m)
    BY <1>1 DEF DifferInRelations
<1>3. CASE ~Unrelated(m, c, d)
    <2>1. r = m
        BY <1>3 DEF Relate, Between, Unrelated
    <2>2. QED
        BY <1>2, <1>3, <2>1
<1>4. CASE Unrelated(m, c, d)
    <2>1. Between(m, c, d) = {}
        BY <1>4 DEF Between, Unrelated
    <2>2. /\ DifferInRelations(m, r)
          /\ r.registered = Joined(m.registered, given)
          /\ r.relations = m.relations \cup {new}
        <3>1. r = [m EXCEPT !.registered = Joined(@, given),
                            !.relations = @ \cup {new}]
            BY <2>1 DEF Relate
        <3> HIDE DEF r, given, new
        <3>2. QED
            BY <1>1, <3>1 DEF DifferInRelations, IsRecord, Fields
    <2> HIDE DEF r
    <2>3. \A k : Stored(r, k) = Stored(m, k)
        BY <2>2, SameComponents DEF DifferInRelations
    <2>4. \A x \in DOMAIN m.registered : /\ m.registered[x] \in Kinds
                                         /\ x \in Stored(m, m.registered[x])
        BY <1>1 DEF RelationsHold
    <2>5. \A k, l \in Kinds : \A x \in Stored(m, k) \cap Stored(m, l) : k = l
        BY <1>1 DEF StorageHolds
    <2>6. /\ c \in Stored(m, from[1]) /\ from[1] \in Kinds
          /\ d \in Stored(m, to[1]) /\ to[1] \in Kinds
        BY DEF MayRelate
    <2>7. /\ DOMAIN r.registered = DOMAIN m.registered \cup {c, d}
          /\ r.registered = [x \in DOMAIN r.registered |-> r.registered[x]]
          /\ \A x \in DOMAIN m.registered : r.registered[x] = m.registered[x]
          /\ r.registered[c] = from[1]
          /\ r.registered[d] = to[1]
        <3>1. c \in DOMAIN m.registered => m.registered[c] = from[1]
            BY <2>4, <2>5, <2>6
        <3>2. d \in DOMAIN m.registered => m.registered[d] = to[1]
            BY <2>4, <2>5, <2>6
        <3>3. c = d => from[1] = to[1]
            BY <2>5, <2>6
        <3>4. QED
            BY <2>2, <3>1, <3>2, <3>3 DEF Joined
    <2> HIDE DEF c, d, given
    <2>8. /\ r.registered \in [DOMAIN r.registered -> Kinds]
          /\ \A x \in DOMAIN r.registered : x \in Stored(r, r.registered[x])
        <3>1. \A x \in DOMAIN r.registered :
                r.registered[x] \in Kinds /\ x \in Stored(r, r.registered[x])
            BY <2>3, <2>4, <2>6, <2>7
        <3>2. QED
            BY <2>7, <3>1
    <2>9. \A q \in r.relations : IsTriple(q, DOMAIN r.registered, RelationTypes)
        <3>1. IsTriple(new, DOMAIN r.registered, RelationTypes)
            BY <2>7 DEF IsTriple, MayRelate
        <3>2. \A q \in m.relations :
                    IsTriple(q, DOMAIN r.registered, RelationTypes)
            BY <1>1, <2>7 DEF RelationsHold, IsTriple
        <3>3. QED
            BY <2>2, <3>1, <3>2
    <2>10. RelationsFit(r)
        <3>1. \A q, p \in r.relations : {q[1], q[2]} = {p[1], p[2]} => q = p
            <4>1. \A q, p \in m.relations : {q[1], q[2]} = {p[1], p[2]} => q = p
                BY <1>1 DEF RelationsHold, RelationsFit
            <4>2. \A q \in m.relations : {q[1], q[2]} # {new[1], new[2]}
                BY <1>4 DEF Unrelated
            <4> HIDE DEF new
            <4>3. QED
                BY <2>2, <4>1, <4>2
        <3>2. \A q \in r.relations :
                    <<r.registered[q[1]], r.registered[q[2]]>>
                        \in RelatedKinds(r.dim, q[3])
            <4>1. r.dim = m.dim
                BY <2>2 DEF DifferInRelations
            <4>2. <<r.registered[new[1]], r.registered[new[2]]>>
                        \in RelatedKinds(r.dim, new[3])
                BY <2>7, <4>1 DEF MayRelate
            <4>3. \A q \in m.relations :
                    /\ q[1] \in DOMAIN m.registered
                    /\ q[2] \in DOMAIN m.registered
                    /\ <<m.registered[q[1]], m.registered[q[2]]>>
                            \in RelatedKinds(m.dim, q[3])
                BY <1>1 DEF RelationsHold, IsTriple, RelationsFit
            <4>4. \A q \in m.relations :
                    <<r.registered[q[1]], r.registered[q[2]]>>
                        \in RelatedKinds(r.dim, q[3])
                BY <2>7, <4>1, <4>3
            <4> HIDE DEF new
            <4>5. QED
                BY <2>2, <4>2, <4>4
        <3>3. QED
            BY <3>1, <3>2 DEF RelationsFit
    <2>11. RelationsHold(r)
        BY <2>8, <2>9, <2>10 DEF RelationsHold
    <2>12. IsModel(r)
        BY <2>2, <2>11, RelationsChanged
    <2>13. QED
        BY <2>2, <2>12 DEF r, c, d
<1>5. QED
    BY <1>3, <1>4

\* No two of these relations are between the same components, nor is one of m.
AreApart(m, relations) ==
    /\ \A q \in relations : Unrelated(m, q[1][2], q[2][2])
    /\ \A p, q \in relations :
            {p[1][2], p[2][2]} = {q[1][2], q[2][2]} => p = q

\* Relations are added one after the other.
LEMMA RelationsAdded ==
    ASSUME NEW m, IsModel(m), NEW relations, IsFiniteSet(relations),
           \A q \in relations : MayRelate(m, q[1], q[2], q[3])
    PROVE  LET r == RelateAll(m, relations)
           IN  /\ IsModel(r)
               /\ DifferInRelations(m, r)
               /\ AreApart(m, relations) => \A t : t \in r.relations <=>
                        \/ t \in m.relations
                        \/ \E q \in relations : t = <<q[1][2], q[2][2], q[3]>>
<1> DEFINE apart == AreApart(m, relations)
           ends(q) == {q[1][2], q[2][2]}
           new(q) == <<q[1][2], q[2][2], q[3]>>
<1>1. PICK N \in Nat : \E list, f : RelateAllTurns(m, relations, N, list, f)
    BY TurnsOfRelateAll
<1>2. PICK list, f :
        /\ ListsAll(list, N, relations)
        /\ f[0] = m
        /\ \A n \in 1 .. N : f[n] =
              Relate(f[n - 1], list[n][1], list[n][2], list[n][3])
        /\ RelateAll(m, relations) = f[N]
    <2>1. PICK list, f : RelateAllTurns(m, relations, N, list, f)
        BY <1>1
    <2>2. QED
        BY <2>1 DEF RelateAllTurns
<1> DEFINE Exact(n) == \A t : t \in f[n].relations <=>
                            \/ t \in m.relations
                            \/ \E i \in 1 .. n : t = new(list[i])
           P(n) == /\ IsModel(f[n])
                   /\ DifferInRelations(m, f[n])
                   /\ apart => Exact(n)
           R == {n \in Nat : n <= N => P(n)}
<1> HIDE DEF P
<1>3. 0 \in R
    <2>1. DifferInRelations(m, m)
        BY PartsOfModel DEF DifferInRelations
    <2>2. P(0)
        BY <1>2, <2>1 DEF P
    <2>3. QED
        BY <2>2
<1>4. ASSUME NEW n \in Nat, n \in R
      PROVE  n + 1 \in R
    <2>1. CASE n + 1 <= N
        <3> DEFINE q == list[n + 1]
                   a == f[n]
                   r == f[n + 1]
        <3>1. P(n)
            BY <1>1, <1>4, <2>1
        <3>2. n + 1 \in 1 .. N /\ (n + 1) - 1 = n
            BY <1>1, <2>1
        <3>3. r = Relate(a, q[1], q[2], q[3])
            BY <1>2, <3>2
        <3>4. q \in relations
            BY <1>2, <3>2 DEF ListsAll
        <3>5. IsModel(a) /\ DifferInRelations(m, a)
            BY <3>1 DEF P
        <3>6. apart => Exact(n)
            BY <3>1 DEF P
        <3>7. MayRelate(m, q[1], q[2], q[3])
            BY <3>4
        <3>8. apart => Unrelated(a, q[1][2], q[2][2])
            <4>1. SUFFICES ASSUME apart, NEW t \in a.relations
                           PROVE  {t[1], t[2]} # ends(q)
                BY DEF Unrelated
            <4>2. CASE t \in m.relations
                BY <3>4, <4>1, <4>2 DEF Unrelated, AreApart
            <4>3. CASE \E i \in 1 .. n : t = new(list[i])
                <5>1. PICK i \in 1 .. n : t = new(list[i])
                    BY <4>3
                <5>2. i \in 1 .. N /\ i # n + 1
                    BY <1>1, <2>1
                <5>3. list[i] \in relations /\ list[i] # q
                    BY <1>2, <3>2, <5>2 DEF ListsAll
                <5>4. {t[1], t[2]} = ends(list[i])
                    BY <5>1
                <5> HIDE DEF q
                <5>5. QED
                    BY <3>4, <4>1, <5>3, <5>4 DEF AreApart
            <4>4. QED
                BY <3>6, <4>1, <4>2, <4>3
        <3> HIDE DEF q, r, a, apart
        <3>9. MayRelate(a, q[1], q[2], q[3])
            BY <3>5, <3>7, SameComponents DEF MayRelate, DifferInRelations
        <3>10. /\ IsModel(r)
               /\ DifferInRelations(a, r)
               /\ Unrelated(a, q[1][2], q[2][2]) =>
                     r.relations = a.relations \cup {new(q)}
            BY <3>3, <3>5, <3>9, RelationAdded
        <3>11. DifferInRelations(m, r)
            BY <3>5, <3>10 DEF DifferInRelations
        <3>12. ASSUME apart
               PROVE  Exact(n + 1)
            <4>1. r.relations = a.relations \cup {new(q)}
                BY <3>8, <3>10, <3>12
            <4>2. Exact(n)
                BY <3>6, <3>12
            <4>3. 1 .. n + 1 = (1 .. n) \cup {n + 1}
                OBVIOUS
            <4> HIDE DEF new
            <4>4. QED
                BY <4>1, <4>2, <4>3 DEF q, r, a
        <3> HIDE DEF Exact
        <3>13. P(n + 1)
            BY <3>10, <3>11, <3>12 DEF P, r
        <3>14. QED
            BY <3>13
    <2>2. CASE ~(n + 1 <= N)
        BY <2>2
    <2>3. QED
        BY <2>1, <2>2
<1>5. N \in R
    <2> HIDE DEF R
    <2>1. Nat \subseteq R
        BY <1>3, <1>4, SetInduction
    <2>2. QED
        BY <1>1, <2>1
<1>6. P(N)
    BY <1>1, <1>5
<1>7. ASSUME apart, NEW t
      PROVE  t \in f[N].relations <=>
                \/ t \in m.relations
                \/ \E q \in relations : t = new(q)
    <2>1. Exact(N)
        BY <1>6, <1>7 DEF P
    <2>2. (\E i \in 1 .. N : t = new(list[i]))
            <=> \E q \in relations : t = new(q)
        BY <1>2 DEF ListsAll
    <2>3. QED
        BY <2>1, <2>2
<1>8. QED
    BY <1>2, <1>6, <1>7 DEF P

\* remove_relation()
LEMMA RelationRemoved ==
    ASSUME NEW m, IsModel(m), NEW c, NEW d
    PROVE  IsModel(Unrelate(m, c, d))
<1> DEFINE r == Unrelate(m, c, d)
<1>1. IsRecord(m) /\ RelationsHold(m)
    BY PartsOfModel
<1>2. /\ DifferInRelations(m, r)
      /\ r.registered = m.registered
      /\ r.relations = m.relations \ Between(m, c, d)
    BY <1>1 DEF Unrelate, DifferInRelations, IsRecord, Fields
<1> HIDE DEF r
<1>3. \A k : Stored(r, k) = Stored(m, k)
    BY <1>2, SameComponents DEF DifferInRelations
<1>4. RelationsFit(r)
    BY <1>1, <1>2 DEF RelationsHold, RelationsFit, DifferInRelations
<1>5. RelationsHold(r)
    BY <1>1, <1>2, <1>3, <1>4 DEF RelationsHold
<1>6. IsModel(r)
    BY <1>2, <1>5, RelationsChanged
<1>7. QED
    BY <1>6 DEF r
\* set_..._active() changes the flags of components that are stored.
LEMMA FlagsChanged ==
    ASSUME NEW m, IsModel(m), NEW S, S \subseteq AllStored(m)
    PROVE  IsModel([m EXCEPT !.inactive = S])
<1> DEFINE r == [m EXCEPT !.inactive = S]
<1>1. IsRecord(m) /\ StorageHolds(m) /\ RelationsHold(m) /\ VerticesHold(m)
    BY PartsOfModel
<1>2. /\ IsRecord(r)
      /\ r.dim = m.dim
      /\ r.components = m.components
      /\ r.inactive = S
      /\ r.mesh_components = m.mesh_components
      /\ r.collection_components = m.collection_components
      /\ r.registered = m.registered
      /\ r.relations = m.relations
      /\ r.unique_vertex = m.unique_vertex
      /\ r.component_vertices = m.component_vertices
    BY <1>1 DEF IsRecord, Fields
<1> HIDE DEF r
<1>3. AllStored(r) = AllStored(m) /\ \A k : Stored(r, k) = Stored(m, k)
    BY <1>2, SameComponents
<1>4. StorageHolds(r)
    BY <1>1, <1>2, <1>3 DEF StorageHolds
<1>5. RelationsHold(r)
    BY <1>1, <1>2, SameRelations
<1>6. VerticesHold(r)
    BY <1>1, <1>2, SameVertices
<1>7. QED
    BY <1>2, <1>4, <1>5, <1>6, PartsOfModel DEF r

\* A model without components.
LEMMA EmptyModelIsModel ==
    ASSUME NEW d \in {2, 3}
    PROVE  /\ IsModel(EmptyModel(d))
           /\ EmptyModel(d).dim = d
           /\ AllStored(EmptyModel(d)) = {}
           /\ EmptyModel(d).registered = <<>>
           /\ EmptyModel(d).relations = {}
           /\ NbUniqueVertices(EmptyModel(d)) = 0
<1> DEFINE m == EmptyModel(d)
<1>1. /\ IsRecord(m)
      /\ m.dim = d
      /\ m.components = [k \in Kinds |-> <<>>]
      /\ m.inactive = {}
      /\ m.mesh_components = [k \in Kinds |-> <<>>]
      /\ m.collection_components = [k \in Kinds |-> <<>>]
      /\ m.registered = <<>>
      /\ m.relations = {}
      /\ m.unique_vertex = <<>>
      /\ m.component_vertices = <<>>
    BY DEF EmptyModel, IsRecord, Fields
<1> HIDE DEF m
<1>2. \A k \in Kinds : Stored(m, k) = {}
    BY <1>1 DEF Stored, ToSet
<1>3. AllStored(m) = {} /\ MeshComponents(m) = {}
    BY <1>2 DEF AllStored, MeshComponents, MeshKinds
<1>4. StorageHolds(m)
    <2>1. \A k \in Kinds : m.components[k] = <<>> /\ IsInjective(m.components[k])
        BY <1>1 DEF IsInjective
    <2>2. m.components \in [Kinds -> Seq(Ids)]
        BY <1>1
    <2>3. /\ m.mesh_components = Listed(m.components, MeshKinds)
          /\ m.collection_components = Listed(m.components, Kinds \ MeshKinds)
        BY <1>1 DEF Listed
    <2>4. QED
        BY <1>1, <1>2, <2>1, <2>2, <2>3 DEF StorageHolds
<1>5. RelationsHold(m)
    BY <1>1 DEF RelationsHold, RelationsFit
<1>6. VerticesHold(m) /\ NbUniqueVertices(m) = 0
    <2>1. IndexRange(0) = {}
        BY DEF IndexRange
    <2>2. /\ m.component_vertices
                = [u \in IndexRange(0) |-> m.component_vertices[u]]
          /\ m.unique_vertex
                = [id \in MeshComponents(m) |-> m.unique_vertex[id]]
        BY <1>1, <1>3, <2>1
    <2>3. QED
        BY <1>3, <2>1, <2>2, VerticesFound
<1>7. IsModel(m)
    BY <1>1, <1>4, <1>5, <1>6, PartsOfModel
<1>8. QED
    BY <1>1, <1>3, <1>6, <1>7 DEF m

\* Saving and loading unregister the components without relations.
LEMMA ModelSavedAndLoaded ==
    ASSUME NEW m, IsModel(m)
    PROVE  LET r == SavedAndLoaded(m)
           IN  /\ IsModel(r)
               /\ DifferInRelations(m, r)
               /\ r.relations = m.relations
<1> DEFINE related == UNION {{q[1], q[2]} : q \in m.relations}
           registered == Restrict(m.registered, related)
           r == SavedAndLoaded(m)
<1>1. IsRecord(m) /\ StorageHolds(m) /\ RelationsHold(m) /\ VerticesHold(m)
    BY PartsOfModel
<1>2. related \subseteq DOMAIN m.registered
    BY <1>1 DEF RelationsHold, IsTriple
<1>3. /\ registered = [id \in related |-> m.registered[id]]
      /\ registered \in [related -> Kinds]
    BY <1>1, <1>2 DEF Restrict, RelationsHold
<1>4. /\ m.mesh_components = [k \in Kinds |->
                IF k \in MeshKinds THEN m.components[k] ELSE <<>>]
      /\ m.collection_components = [k \in Kinds |->
                IF k \in MeshKinds THEN <<>> ELSE m.components[k]]
    BY <1>1 DEF StorageHolds, Listed
<1> DEFINE a == [m EXCEPT !.registered = registered]
<1>5. r = a
    <2>1. r = [m EXCEPT !.registered = registered,
                        !.mesh_components = m.mesh_components,
                        !.collection_components = m.collection_components]
        BY <1>4 DEF SavedAndLoaded
    <2> HIDE DEF r, registered
    <2>2. QED
        BY <1>1, <2>1 DEF IsRecord, Fields
<1> HIDE DEF registered
<1>6. /\ IsRecord(a)
      /\ a.dim = m.dim
      /\ a.components = m.components
      /\ a.inactive = m.inactive
      /\ a.mesh_components = m.mesh_components
      /\ a.collection_components = m.collection_components
      /\ a.registered = registered
      /\ a.relations = m.relations
      /\ a.unique_vertex = m.unique_vertex
      /\ a.component_vertices = m.component_vertices
    BY <1>1 DEF IsRecord, Fields
<1> HIDE DEF a, r
<1>7. \A k : Stored(a, k) = Stored(m, k)
    BY <1>6, SameComponents
<1>8. RelationsHold(a)
    <2>1. \A id \in related : a.registered[id] = m.registered[id]
        BY <1>3, <1>6
    <2>2. a.registered \in [DOMAIN a.registered -> Kinds]
            /\ DOMAIN a.registered = related
        BY <1>3, <1>6
    <2>3. \A id \in DOMAIN a.registered : id \in Stored(a, a.registered[id])
        BY <1>1, <1>2, <1>7, <2>1, <2>2 DEF RelationsHold
    <2>4. \A q \in a.relations : IsTriple(q, DOMAIN a.registered, RelationTypes)
        <3>1. \A q \in m.relations : q[1] \in related /\ q[2] \in related
            OBVIOUS
        <3> HIDE DEF related
        <3>2. QED
            BY <1>1, <1>6, <2>2, <3>1 DEF RelationsHold, IsTriple
    <2>5. RelationsFit(a)
        <3>1. \A q \in m.relations : q[1] \in related /\ q[2] \in related
            OBVIOUS
        <3> HIDE DEF related
        <3>2. \A q \in a.relations :
                <<a.registered[q[1]], a.registered[q[2]]>>
                    \in RelatedKinds(a.dim, q[3])
            BY <1>1, <1>6, <2>1, <3>1 DEF RelationsHold, RelationsFit
        <3>3. QED
            BY <1>1, <1>6, <3>2 DEF RelationsHold, RelationsFit
    <2>6. QED
        BY <2>2, <2>3, <2>4, <2>5 DEF RelationsHold
<1>9. DifferInRelations(m, a)
    BY <1>6 DEF DifferInRelations
<1>10. QED
    BY <1>5, <1>6, <1>8, <1>9, RelationsChanged DEF r

\* There is a uuid for a new component, and there are for several.
LEMMA FreshIsNew ==
    ASSUME NEW m, IsModel(m), Cardinality(AllStored(m)) < MaxComponents
    PROVE  Fresh(m) \in Ids \ AllStored(m)
<1>1. AllStored(m) \in SUBSET Ids /\ IsFiniteSet(Ids)
    BY ComponentsAreFinite, IdsAssumption
<1>2. Cardinality(AllStored(m)) \in Nat /\ Cardinality(Ids) \in Nat
    BY <1>1, FS_Subset, FS_CardinalityType
<1>3. AllStored(m) # Ids
    BY <1>2, IdsAssumption
<1>4. \E id \in Ids : id \notin AllStored(m)
    BY <1>1, <1>3
<1>5. QED
    BY <1>4 DEF Fresh

\* There are new uuids for as many components as there are uuids left.
LEMMA FreshMappingIsNew ==
    ASSUME NEW m, IsModel(m), NEW ids, ids \subseteq Ids,
           Cardinality(AllStored(m)) + Cardinality(ids) <= Cardinality(Ids)
    PROVE  FreshMapping(m, ids) \in Injection(ids, Ids \ AllStored(m))
<1> DEFINE U == Ids \ AllStored(m)
           n == Cardinality(ids)
           k == Cardinality(U)
<1>1. AllStored(m) \in SUBSET Ids /\ IsFiniteSet(Ids) /\ ids \in SUBSET Ids
    BY ComponentsAreFinite, IdsAssumption
<1>2. IsFiniteSet(ids) /\ IsFiniteSet(AllStored(m)) /\ IsFiniteSet(U)
    BY <1>1, FS_Subset, FS_Difference
<1>3. Cardinality(U) = Cardinality(Ids) - Cardinality(AllStored(m))
    <2>1. Ids \cap AllStored(m) = AllStored(m)
        BY <1>1
    <2>2. QED
        BY <1>1, <2>1, FS_Difference
<1>4. /\ n \in Nat /\ k \in Nat
      /\ Cardinality(Ids) \in Nat /\ Cardinality(AllStored(m)) \in Nat
    BY <1>1, <1>2, FS_CardinalityType
<1>5. n <= k
    BY <1>3, <1>4
<1>6. ExistsBijection(ids, 1 .. n) /\ ExistsBijection(1 .. k, U)
    <2> HIDE DEF U
    <2>1. ExistsBijection(1 .. n, ids) /\ ExistsBijection(1 .. k, U)
        BY <1>2, FS_CardinalityType
    <2>2. QED
        BY <2>1, Fun_ExistsBijSymmetric
<1> HIDE DEF U, n, k
<1>7. /\ ExistsInjection(ids, 1 .. n)
      /\ ExistsInjection(1 .. k, U)
    BY <1>6 DEF ExistsBijection, ExistsInjection, Bijection
<1>8. ExistsInjection(1 .. n, 1 .. k)
    BY <1>4, <1>5, Fun_NatInjLeq
<1>9. ExistsInjection(ids, 1 .. k)
    BY <1>7, <1>8, Fun_ExistsInjTransitive
<1>10. ExistsInjection(ids, U)
    BY <1>7, <1>9, Fun_ExistsInjTransitive
<1>11. \E f : f \in Injection(ids, Ids \ AllStored(m))
    BY <1>10 DEF ExistsInjection, U
<1>12. QED
    BY <1>11 DEF FreshMapping
\* The images of a list without repetition.
LEMMA ImagesOfList ==
    ASSUME NEW T, NEW list \in Seq(T), NoRepeat(list), NEW mapping, NEW U,
           \A c \in ToSet(list) : mapping[c] \in U,
           \A c, d \in ToSet(list) : mapping[c] = mapping[d] => c = d
    PROVE  /\ Images(list, mapping) \in Seq(U)
           /\ NoRepeat(Images(list, mapping))
           /\ ToSet(Images(list, mapping))
                = {mapping[c] : c \in ToSet(list)}
<1> DEFINE n == Len(list)
           images == Images(list, mapping)
<1>1. n \in Nat /\ DOMAIN list = 1 .. n
    BY LenProperties
<1>2. \A i \in 1 .. n : list[i] \in ToSet(list)
    BY <1>1 DEF ToSet
<1>3. images = [i \in 1 .. n |-> mapping[list[i]]]
    BY <1>1 DEF Images
<1>4. images \in [1 .. n -> U]
    BY <1>2, <1>3
<1>5. images \in Seq(U) /\ DOMAIN images = 1 .. n
    BY <1>1, <1>4, SeqDef
<1>6. NoRepeat(images)
    BY <1>1, <1>2, <1>3 DEF NoRepeat
<1>7. ToSet(images) = {mapping[c] : c \in ToSet(list)}
    BY <1>1, <1>3 DEF ToSet
<1>8. QED
    BY <1>5, <1>6, <1>7

\* Two lists that have nothing in common, one after the other.
LEMMA ListsJoined ==
    ASSUME NEW T, NEW a \in Seq(T), NEW b \in Seq(T), NoRepeat(a), NoRepeat(b),
           ToSet(a) \cap ToSet(b) = {}
    PROVE  /\ a \o b \in Seq(T)
           /\ NoRepeat(a \o b)
           /\ ToSet(a \o b) = ToSet(a) \cup ToSet(b)
<1> DEFINE p == Len(a)
           q == Len(b)
           c == a \o b
<1>1. /\ p \in Nat /\ q \in Nat
      /\ DOMAIN a = 1 .. p /\ DOMAIN b = 1 .. q
    BY LenProperties
<1>2. /\ c \in Seq(T) /\ DOMAIN c = 1 .. p + q
      /\ \A i \in 1 .. p + q :
            c[i] = IF i <= p THEN a[i] ELSE b[i - p]
    BY <1>1
<1> HIDE DEF c, p, q
<1>3. /\ \A i \in 1 .. p : i \in 1 .. p + q /\ c[i] = a[i]
      /\ \A i \in 1 .. q : p + i \in 1 .. p + q /\ c[p + i] = b[i]
    <2>1. ASSUME NEW i \in 1 .. q
          PROVE  p + i \in 1 .. p + q /\ c[p + i] = b[i]
        <3>1. p + i \in 1 .. p + q /\ ~(p + i <= p) /\ (p + i) - p = i
            BY <1>1
        <3>2. QED
            BY <1>2, <3>1
    <2>2. ASSUME NEW i \in 1 .. p
          PROVE  i \in 1 .. p + q /\ c[i] = a[i]
        <3>1. i \in 1 .. p + q /\ i <= p
            BY <1>1
        <3>2. QED
            BY <1>2, <3>1
    <2>3. QED
        BY <2>1, <2>2
<1>4. \A i \in 1 .. p + q : \/ i \in 1 .. p
                            \/ i - p \in 1 .. q /\ p + (i - p) = i
    BY <1>1
<1>5. ToSet(c) = ToSet(a) \cup ToSet(b)
    <2>1. ASSUME NEW x \in ToSet(c)
          PROVE  x \in ToSet(a) \cup ToSet(b)
        <3>1. PICK i \in 1 .. p + q : x = c[i]
            BY <1>2, <2>1 DEF ToSet
        <3>2. CASE i \in 1 .. p
            BY <1>1, <1>3, <3>1, <3>2 DEF ToSet
        <3>3. CASE i - p \in 1 .. q /\ p + (i - p) = i
            BY <1>1, <1>3, <3>1, <3>3 DEF ToSet
        <3>4. QED
            BY <1>4, <3>2, <3>3
    <2>2. ToSet(a) \subseteq ToSet(c)
        <3>1. SUFFICES ASSUME NEW i \in 1 .. p
                       PROVE  a[i] \in ToSet(c)
            BY <1>1 DEF ToSet
        <3>2. QED
            BY <1>2, <1>3 DEF ToSet
    <2>3. ToSet(b) \subseteq ToSet(c)
        <3>1. SUFFICES ASSUME NEW i \in 1 .. q
                       PROVE  b[i] \in ToSet(c)
            BY <1>1 DEF ToSet
        <3>2. QED
            BY <1>2, <1>3 DEF ToSet
    <2>4. QED
        BY <2>1, <2>2, <2>3
<1>6. NoRepeat(c)
    <2>1. SUFFICES ASSUME NEW i \in 1 .. p + q, NEW j \in 1 .. p + q,
                          c[i] = c[j]
                   PROVE  i = j
        BY <1>2 DEF NoRepeat
    <2>2. \A k \in 1 .. p : a[k] \in ToSet(a)
        BY <1>1 DEF ToSet
    <2>3. \A k \in 1 .. q : b[k] \in ToSet(b)
        BY <1>1 DEF ToSet
    <2>4. CASE i \in 1 .. p /\ j \in 1 .. p
        BY <1>1, <1>3, <2>1, <2>4 DEF NoRepeat
    <2>5. CASE i - p \in 1 .. q /\ j - p \in 1 .. q
        <3>1. i - p = j - p
            <4>1. c[i] = b[i - p] /\ c[j] = b[j - p]
                BY <1>1, <1>3, <1>4, <2>5
            <4>2. QED
                BY <1>1, <2>1, <2>5, <4>1 DEF NoRepeat
        <3>2. QED
            BY <1>1, <3>1
    <2>6. CASE i \in 1 .. p /\ j - p \in 1 .. q
        <3>1. c[i] = a[i] /\ c[j] = b[j - p]
            BY <1>1, <1>3, <1>4, <2>6
        <3>2. QED
            BY <2>1, <2>2, <2>3, <2>6, <3>1
    <2>7. CASE i - p \in 1 .. q /\ j \in 1 .. p
        <3>1. c[j] = a[j] /\ c[i] = b[i - p]
            BY <1>1, <1>3, <1>4, <2>7
        <3>2. QED
            BY <2>1, <2>2, <2>3, <2>7, <3>1
    <2>8. QED
        BY <1>4, <2>4, <2>5, <2>6, <2>7
<1>7. QED
    BY <1>2, <1>5, <1>6 DEF c

\* The mapping gives components of the other uuids that m has not.
MapsInto(m, other, mapping) ==
    /\ mapping \in Injection(DOMAIN mapping, Ids \ AllStored(m))
    /\ DOMAIN mapping \subseteq AllStored(other)

\* What the mapping makes of a set of components.
ImageOf(mapping, S) == {mapping[c] : c \in S \cap DOMAIN mapping}

\* The copies of the components of one kind.
LEMMA ListsCopied ==
    ASSUME NEW m, IsModel(m), NEW other, IsModel(other),
           NEW mapping, MapsInto(m, other, mapping), NEW k \in Kinds
    PROVE  LET list == m.components[k] \o
                        Images(Kept(other.components[k], DOMAIN mapping), mapping)
           IN  /\ list \in Seq(Ids)
               /\ NoRepeat(list)
               /\ ToSet(list)
                    = Stored(m, k) \cup ImageOf(mapping, Stored(other, k))
<1> DEFINE S == DOMAIN mapping
           l == m.components[k]
           o == other.components[k]
           kept == Kept(o, S)
           images == Images(kept, mapping)
<1>1. /\ StorageHolds(m) /\ StorageHolds(other)
      /\ \A c \in S : mapping[c] \in Ids \ AllStored(m)
      /\ \A c, d \in S : mapping[c] = mapping[d] => c = d
    BY PartsOfModel, Fun_InjectionProperties DEF MapsInto
<1>2. /\ l \in Seq(Ids) /\ NoRepeat(l) /\ Stored(m, k) = ToSet(l)
      /\ o \in Seq(Ids) /\ NoRepeat(o) /\ Stored(other, k) = ToSet(o)
      /\ Stored(m, k) \subseteq AllStored(m)
    BY <1>1, StoredLists DEF AllStored
<1> HIDE DEF S, l, o
<1>3. kept \in Seq(Ids) /\ NoRepeat(kept) /\ ToSet(kept) = ToSet(o) \cap S
    BY <1>2, KeptList
<1> HIDE DEF kept
<1>4. /\ images \in Seq(Ids)
      /\ NoRepeat(images)
      /\ ToSet(images) = {mapping[c] : c \in ToSet(kept)}
    <2>1. /\ \A c \in ToSet(kept) : mapping[c] \in Ids
          /\ \A c, d \in ToSet(kept) : mapping[c] = mapping[d] => c = d
        BY <1>1, <1>3
    <2>2. QED
        BY <1>3, <2>1, ImagesOfList
<1> HIDE DEF images
<1>5. ToSet(l) \cap ToSet(images) = {}
    BY <1>1, <1>2, <1>3, <1>4
<1>6. /\ l \o images \in Seq(Ids)
      /\ NoRepeat(l \o images)
      /\ ToSet(l \o images) = ToSet(l) \cup ToSet(images)
    BY <1>2, <1>4, <1>5, ListsJoined
<1>7. ToSet(images) = ImageOf(mapping, Stored(other, k))
    BY <1>2, <1>3, <1>4 DEF ImageOf, S
<1>8. QED
    BY <1>2, <1>6, <1>7 DEF l, o, kept, images, S
\* The components of r are those of m and, after them, the copies.
CopiesComponents(r, m, other, mapping) ==
    /\ r.dim = m.dim
    /\ \A k \in Kinds : r.components[k] = m.components[k] \o
            Images(Kept(other.components[k], DOMAIN mapping), mapping)
    /\ \A k \in Kinds : Stored(r, k) =
            Stored(m, k) \cup ImageOf(mapping, Stored(other, k))
    /\ r.inactive = m.inactive \cup ImageOf(mapping, other.inactive)

\* copy_..._components(): the copies come after the components of m, with
\* meshes that have no vertex.
LEMMA ComponentsCopied ==
    ASSUME NEW m, IsModel(m), NEW other, IsModel(other),
           NEW mapping, MapsInto(m, other, mapping)
    PROVE  LET r == CopyComponents(m, other, mapping)
           IN  /\ IsModel(r)
               /\ CopiesComponents(r, m, other, mapping)
               /\ r.registered = m.registered
               /\ r.relations = m.relations
               /\ NbUniqueVertices(r) = NbUniqueVertices(m)
               /\ \A c \in MeshComponents(m) :
                    /\ r.unique_vertex[c] = m.unique_vertex[c]
                    /\ StoredKind(r, c) = StoredKind(m, c)
               /\ \A c \in ImageOf(mapping, MeshComponents(other)) :
                    r.unique_vertex[c] = Unset(0)
<1> DEFINE r == CopyComponents(m, other, mapping)
           S == DOMAIN mapping
           copies(k) == Images(Kept(other.components[k], S), mapping)
           list(k) == m.components[k] \o copies(k)
           meshes == ImageOf(mapping, MeshComponents(other))
           uv == m.unique_vertex
           cvs == m.component_vertices
           n == NbUniqueVertices(m)
<1>1. /\ IsRecord(m)
      /\ StorageHolds(m)
      /\ RelationsHold(m)
      /\ StorageHolds(other)
    BY PartsOfModel
<1>2. /\ IsRecord(r)
      /\ r.dim = m.dim
      /\ r.components = [k \in Kinds |-> list(k)]
      /\ r.inactive = m.inactive \cup ImageOf(mapping, other.inactive)
      /\ r.mesh_components = [k \in Kinds |->
            IF k \in MeshKinds THEN m.mesh_components[k] \o copies(k)
                               ELSE m.mesh_components[k]]
      /\ r.collection_components = [k \in Kinds |->
            IF k \in Kinds \ MeshKinds
            THEN m.collection_components[k] \o copies(k)
            ELSE m.collection_components[k]]
      /\ r.registered = m.registered
      /\ r.relations = m.relations
      /\ r.unique_vertex = Joined(uv, [id \in meshes |-> Unset(0)])
      /\ r.component_vertices = cvs
    <2> DEFINE A == [k \in Kinds |-> list(k)]
               B == [k \in Kinds |->
                        IF k \in MeshKinds THEN m.mesh_components[k] \o copies(k)
                                           ELSE m.mesh_components[k]]
               C == [k \in Kinds |->
                        IF k \in Kinds \ MeshKinds
                        THEN m.collection_components[k] \o copies(k)
                        ELSE m.collection_components[k]]
               D == Joined(uv, [id \in meshes |-> Unset(0)])
               I == m.inactive \cup ImageOf(mapping, other.inactive)
               x == [m EXCEPT !.components = A, !.mesh_components = B]
               y == [x EXCEPT !.collection_components = C]
               z == [y EXCEPT !.unique_vertex = D, !.inactive = I]
    <2>1. r = [m EXCEPT !.components = A, !.mesh_components = B,
                        !.collection_components = C, !.unique_vertex = D,
                        !.inactive = I]
        <3>1. A = [k \in Kinds |-> IF k \in Kinds
                        THEN m.components[k] \o copies(k) ELSE m.components[k]]
            OBVIOUS
        <3>2. meshes = {mapping[c] : c \in MeshComponents(other) \cap S}
            BY DEF ImageOf
        <3>3. I = m.inactive \cup {mapping[c] : c \in other.inactive \cap S}
            BY DEF ImageOf
        <3> HIDE DEF A, I, meshes
        <3>4. QED
            BY <3>1, <3>2, <3>3 DEF CopyComponents
    <2> HIDE DEF A, B, C, D, I, r
    <2>2. r = z
        BY <2>1
    <2>3. /\ IsRecord(x)
          /\ x.dim = m.dim /\ x.components = A /\ x.inactive = m.inactive
          /\ x.mesh_components = B
          /\ x.collection_components = m.collection_components
          /\ x.registered = m.registered /\ x.relations = m.relations
          /\ x.unique_vertex = uv /\ x.component_vertices = cvs
        BY <1>1 DEF IsRecord, Fields
    <2> HIDE DEF x
    <2>4. /\ IsRecord(y)
          /\ y.dim = m.dim /\ y.components = A /\ y.inactive = m.inactive
          /\ y.mesh_components = B
          /\ y.collection_components = C
          /\ y.registered = m.registered /\ y.relations = m.relations
          /\ y.unique_vertex = uv /\ y.component_vertices = cvs
        BY <2>3 DEF IsRecord, Fields
    <2> HIDE DEF y
    <2>5. /\ IsRecord(z)
          /\ z.dim = m.dim /\ z.components = A /\ z.inactive = I
          /\ z.mesh_components = B
          /\ z.collection_components = C
          /\ z.registered = m.registered /\ z.relations = m.relations
          /\ z.unique_vertex = D /\ z.component_vertices = cvs
        BY <2>4 DEF IsRecord, Fields
    <2> HIDE DEF z
    <2>6. QED
        BY <2>2, <2>5 DEF A, B, C, D, I
<1>3. \A k \in Kinds : /\ list(k) \in Seq(Ids)
                       /\ NoRepeat(list(k))
                       /\ ToSet(list(k))
                            = Stored(m, k) \cup ImageOf(mapping, Stored(other, k))
    BY ListsCopied
<1> HIDE DEF r, list
<1>4. /\ r.components \in [Kinds -> Seq(Ids)]
      /\ \A k \in Kinds : r.components[k] = list(k)
    BY <1>2, <1>3
<1>5. \A k \in Kinds : Stored(r, k) =
            Stored(m, k) \cup ImageOf(mapping, Stored(other, k))
    BY <1>3, <1>4 DEF Stored
<1>6. \A k \in Kinds : IsInjective(r.components[k])
    BY <1>3, <1>4 DEF NoRepeat, IsInjective
<1>7. /\ r.mesh_components = Listed(r.components, MeshKinds)
      /\ r.collection_components = Listed(r.components, Kinds \ MeshKinds)
    <2>1. \A k \in Kinds :
            /\ m.mesh_components[k] =
                    IF k \in MeshKinds THEN m.components[k] ELSE <<>>
            /\ m.collection_components[k] =
                    IF k \in MeshKinds THEN <<>> ELSE m.components[k]
        BY <1>1 DEF StorageHolds, Listed
    <2>2. \A k \in Kinds :
            /\ r.mesh_components[k] =
                    IF k \in MeshKinds THEN r.components[k] ELSE <<>>
            /\ r.collection_components[k] =
                    IF k \in MeshKinds THEN <<>> ELSE r.components[k]
        BY <1>2, <1>4, <2>1 DEF list
    <2>3. /\ r.mesh_components = [k \in Kinds |-> r.mesh_components[k]]
          /\ r.collection_components
                = [k \in Kinds |-> r.collection_components[k]]
        BY <1>2
    <2>4. QED
        BY <2>2, <2>3 DEF Listed
<1>8. /\ \A c \in S : mapping[c] \in Ids \ AllStored(m)
      /\ \A c, d \in S : mapping[c] = mapping[d] => c = d
    BY Fun_InjectionProperties DEF MapsInto
<1>9. StorageHolds(r)
    <2>1. \A k, l \in Kinds : k # l => Stored(r, k) \cap Stored(r, l) = {}
        <3>1. ASSUME NEW k \in Kinds, NEW l \in Kinds, k # l
              PROVE  Stored(r, k) \cap Stored(r, l) = {}
            <4>1. /\ Stored(m, k) \cap Stored(m, l) = {}
                  /\ Stored(other, k) \cap Stored(other, l) = {}
                BY <1>1, <3>1 DEF StorageHolds
            <4>2. Stored(m, k) \subseteq AllStored(m)
                    /\ Stored(m, l) \subseteq AllStored(m)
                BY DEF AllStored
            <4>3. QED
                BY <1>5, <1>8, <4>1, <4>2 DEF ImageOf
        <3>2. QED
            BY <3>1
    <2>2. r.inactive \subseteq AllStored(r)
        <3>1. /\ m.inactive \subseteq AllStored(m)
              /\ other.inactive \subseteq AllStored(other)
            BY <1>1 DEF StorageHolds
        <3>2. AllStored(m) \subseteq AllStored(r)
            BY <1>5 DEF AllStored
        <3>3. ImageOf(mapping, AllStored(other)) \subseteq AllStored(r)
            BY <1>5 DEF AllStored, ImageOf
        <3>4. ImageOf(mapping, other.inactive)
                \subseteq ImageOf(mapping, AllStored(other))
            BY <3>1 DEF ImageOf
        <3>5. QED
            BY <1>2, <3>1, <3>2, <3>3, <3>4
    <2>3. r.dim \in {2, 3}
        BY <1>1, <1>2 DEF StorageHolds
    <2>4. QED
        BY <1>4, <1>6, <1>7, <2>1, <2>2, <2>3 DEF StorageHolds
<1>10. RelationsHold(r)
    <2>1. \A c \in DOMAIN r.registered : c \in Stored(r, r.registered[c])
        BY <1>1, <1>2, <1>5 DEF RelationsHold
    <2>2. RelationsFit(r)
        BY <1>1, <1>2 DEF RelationsHold, RelationsFit
    <2>3. QED
        BY <1>1, <1>2, <2>1, <2>2 DEF RelationsHold
<1>11. \A c \in AllStored(m) : StoredKind(r, c) = StoredKind(m, c)
    <2>1. ASSUME NEW k \in Kinds, NEW c \in Stored(m, k)
          PROVE  StoredKind(r, c) = StoredKind(m, c)
        <3>1. c \in Stored(r, k)
            BY <1>5
        <3>2. QED
            BY <1>1, <1>9, <3>1, KindOfStored
    <2>2. QED
        BY <2>1 DEF AllStored
<1>12. /\ n \in Nat
       /\ cvs = [u \in IndexRange(n) |-> cvs[u]]
       /\ DOMAIN cvs = IndexRange(n)
       /\ DOMAIN uv = MeshComponents(m)
       /\ uv = [c \in MeshComponents(m) |-> uv[c]]
       /\ \A c \in MeshComponents(m) : IsVertexVector(uv[c], n)
       /\ MeshComponents(m) \subseteq AllStored(m)
    BY VerticesOfModel, ComponentsAreFinite
<1>13. \A u \in IndexRange(n) : \A x :
            x \in cvs[u] <=> IsVertexOf(m, x) /\ UniqueOf(m, x) = u
    BY <1>12, ListedVertices
<1>14. MeshComponents(r) = MeshComponents(m) \cup meshes
    <2>1. MeshKinds \subseteq Kinds
        BY DEF MeshKinds
    <2>2. QED
        BY <1>5, <2>1 DEF MeshComponents, ImageOf
<1>15. meshes \cap MeshComponents(m) = {}
    BY <1>8, <1>12 DEF ImageOf
<1> HIDE DEF n, uv, cvs, meshes
<1>16. /\ r.unique_vertex = [c \in MeshComponents(r) |-> r.unique_vertex[c]]
       /\ \A c \in MeshComponents(m) : r.unique_vertex[c] = uv[c]
       /\ \A c \in meshes : r.unique_vertex[c] = Unset(0)
    BY <1>2, <1>12, <1>14, <1>15 DEF Joined
<1>17. Unset(0) = [v \in IndexRange(0) |-> NoId] /\ IndexRange(0) = {}
    BY DEF Unset, IndexRange
<1>18. \A c \in MeshComponents(r) : IsVertexVector(r.unique_vertex[c], n)
    <2>1. IsVertexVector(Unset(0), n)
        BY <1>17 DEF IsVertexVector
    <2>2. QED
        BY <1>12, <1>14, <1>16, <2>1
<1>19. \A x : IsVertexOf(r, x) <=> IsVertexOf(m, x)
    <2>1. ASSUME NEW x, IsVertexOf(r, x)
          PROVE  IsVertexOf(m, x)
        <3>1. x[2] \notin meshes
            BY <1>16, <1>17, <2>1 DEF IsVertexOf
        <3>2. x[2] \in MeshComponents(m)
            BY <1>14, <2>1, <3>1 DEF IsVertexOf
        <3>3. QED
            BY <1>11, <1>12, <1>16, <2>1, <3>2 DEF IsVertexOf, uv
    <2>2. ASSUME NEW x, IsVertexOf(m, x)
          PROVE  IsVertexOf(r, x)
        BY <1>11, <1>12, <1>14, <1>16, <2>2 DEF IsVertexOf, uv
    <2>3. QED
        BY <2>1, <2>2
<1>20. \A x : IsVertexOf(m, x) => UniqueOf(r, x) = UniqueOf(m, x)
    BY <1>16 DEF UniqueOf, IsVertexOf, uv
<1>21. VerticesHold(r) /\ NbUniqueVertices(r) = n
    <2>1. r.component_vertices = [u \in IndexRange(n) |-> r.component_vertices[u]]
        BY <1>2, <1>12
    <2>2. \A u \in IndexRange(n) : \A x :
            x \in r.component_vertices[u]
                <=> IsVertexOf(r, x) /\ UniqueOf(r, x) = u
        BY <1>2, <1>13, <1>19, <1>20
    <2>3. QED
        BY <1>12, <1>16, <1>18, <2>1, <2>2, VerticesFound
<1>22. IsModel(r)
    BY <1>2, <1>9, <1>10, <1>21, PartsOfModel
<1>23. CopiesComponents(r, m, other, mapping)
    BY <1>2, <1>4, <1>5 DEF CopiesComponents, list
<1>24. QED
    BY <1>2, <1>11, <1>12, <1>16, <1>21, <1>22, <1>23 DEF r, meshes, uv, n
\* copy_relationships() replaces what a model knows of relations.
LEMMA RelationshipsCopied ==
    ASSUME NEW m, IsModel(m), NEW other, IsModel(other), NEW mapping,
           \A c, d \in DOMAIN mapping : mapping[c] = mapping[d] => c = d,
           \A c \in DOMAIN other.registered \cap DOMAIN mapping :
                mapping[c] \in Stored(m, other.registered[c]),
           \A q \in other.relations :
                q[1] \in DOMAIN mapping /\ q[2] \in DOMAIN mapping =>
                    <<other.registered[q[1]], other.registered[q[2]]>>
                        \in RelatedKinds(m.dim, q[3])
    PROVE  LET r == CopyRelationships(m, other, mapping)
           IN  /\ IsModel(r)
               /\ DifferInRelations(m, r)
               /\ r.relations =
                    {<<mapping[q[1]], mapping[q[2]], q[3]>> :
                        q \in {p \in other.relations :
                                {p[1], p[2]} \subseteq DOMAIN mapping}}
<1> DEFINE kept == DOMAIN other.registered \cap DOMAIN mapping
           origin(c) == CHOOSE k \in kept : mapping[k] = c
           registered == [c \in {mapping[k] : k \in kept} |->
                                other.registered[origin(c)]]
           copied == {q \in other.relations : {q[1], q[2]} \subseteq kept}
           copy(q) == <<mapping[q[1]], mapping[q[2]], q[3]>>
           relations == {copy(q) : q \in copied}
           r == CopyRelationships(m, other, mapping)
<1>1. /\ IsRecord(m) /\ RelationsHold(m) /\ RelationsHold(other)
    BY PartsOfModel
<1>2. /\ IsRecord(r)
      /\ DifferInRelations(m, r)
      /\ r.registered = registered
      /\ r.relations = relations
    <2>1. r = [m EXCEPT !.registered = registered, !.relations = relations]
        BY DEF CopyRelationships
    <2> HIDE DEF r, registered, relations
    <2>2. QED
        BY <1>1, <2>1 DEF IsRecord, Fields, DifferInRelations
<1> HIDE DEF r
<1>3. ASSUME NEW k \in kept
      PROVE  /\ mapping[k] \in DOMAIN registered
             /\ registered[mapping[k]] = other.registered[k]
    <2>1. origin(mapping[k]) = k
        <3>1. \E d \in kept : mapping[d] = mapping[k]
            OBVIOUS
        <3>2. origin(mapping[k]) \in kept
                /\ mapping[origin(mapping[k])] = mapping[k]
            BY <3>1
        <3> HIDE DEF origin
        <3>3. QED
            BY <3>2
    <2> HIDE DEF origin
    <2>2. QED
        BY <2>1
<1>4. DOMAIN registered = {mapping[k] : k \in kept}
    OBVIOUS
<1> HIDE DEF registered
<1>5. \A k \in kept : other.registered[k] \in Kinds
    BY <1>1 DEF RelationsHold
<1>6. \A k : Stored(r, k) = Stored(m, k)
    BY <1>2, SameComponents DEF DifferInRelations
<1>7. r.registered \in [DOMAIN r.registered -> Kinds]
    <2>1. registered = [c \in DOMAIN registered |-> registered[c]]
        BY DEF registered
    <2>2. \A c \in DOMAIN registered : registered[c] \in Kinds
        BY <1>3, <1>4, <1>5
    <2>3. QED
        BY <1>2, <2>1, <2>2
<1>8. \A c \in DOMAIN r.registered : c \in Stored(r, r.registered[c])
    BY <1>2, <1>3, <1>4, <1>6
<1>9. \A q \in copied : /\ q \in other.relations
                        /\ q[1] \in kept /\ q[2] \in kept
                        /\ q = <<q[1], q[2], q[3]>>
                        /\ q[3] \in RelationTypes
    BY <1>1 DEF RelationsHold, IsTriple
<1>10. \A q : /\ copy(q)[1] = mapping[q[1]]
              /\ copy(q)[2] = mapping[q[2]]
              /\ copy(q)[3] = q[3]
              /\ copy(q) = <<copy(q)[1], copy(q)[2], copy(q)[3]>>
    OBVIOUS
<1> HIDE DEF copied
<1>11. \A t \in r.relations : \E q \in copied : t = copy(q)
    BY <1>2
<1> HIDE DEF copy, relations
<1>12. \A t \in r.relations : IsTriple(t, DOMAIN r.registered, RelationTypes)
    BY <1>2, <1>3, <1>9, <1>10, <1>11 DEF IsTriple
<1>13. RelationsFit(r)
    <2>1. ASSUME NEW s \in r.relations, NEW t \in r.relations,
                 {s[1], s[2]} = {t[1], t[2]}
          PROVE  s = t
        <3>1. PICK p \in copied, q \in copied : s = copy(p) /\ t = copy(q)
            BY <1>11
        <3>2. {mapping[p[1]], mapping[p[2]]} = {mapping[q[1]], mapping[q[2]]}
            BY <1>10, <2>1, <3>1
        <3>3. {p[1], p[2]} = {q[1], q[2]}
            BY <1>9, <3>2
        <3>4. p = q
            BY <1>1, <1>9, <3>3 DEF RelationsHold, RelationsFit
        <3>5. QED
            BY <3>1, <3>4
    <2>2. ASSUME NEW t \in r.relations
          PROVE  <<r.registered[t[1]], r.registered[t[2]]>>
                    \in RelatedKinds(r.dim, t[3])
        <3>1. PICK q \in copied : t = copy(q)
            BY <1>11
        <3>2. /\ r.registered[t[1]] = other.registered[q[1]]
              /\ r.registered[t[2]] = other.registered[q[2]]
              /\ t[3] = q[3]
            BY <1>2, <1>3, <1>9, <1>10, <3>1
        <3>3. r.dim = m.dim
            BY <1>2 DEF DifferInRelations
        <3>4. QED
            BY <1>9, <3>2, <3>3
    <2>3. QED
        BY <2>1, <2>2 DEF RelationsFit
<1>14. RelationsHold(r)
    BY <1>7, <1>8, <1>12, <1>13 DEF RelationsHold
<1>15. IsModel(r)
    BY <1>2, <1>14, RelationsChanged
<1>16. copied = {q \in other.relations :
                    {q[1], q[2]} \subseteq DOMAIN mapping}
    BY <1>1 DEF copied, RelationsHold, IsTriple
<1>17. r.relations = {<<mapping[q[1]], mapping[q[2]], q[3]>> : q \in copied}
    BY <1>2 DEF relations, copy
<1>18. QED
    BY <1>2, <1>15, <1>16, <1>17 DEF r
\* A model has finitely many vertices.
LEMMA VerticesAreFinite ==
    ASSUME NEW m, IsModel(m)
    PROVE  /\ IsFiniteSet(ComponentVertices(m))
           /\ \A x : x \in ComponentVertices(m) <=> IsVertexOf(m, x)
           /\ \A c \in MeshComponents(m) :
                /\ Size(m.unique_vertex[c]) \in Nat
                /\ DOMAIN m.unique_vertex[c]
                    = IndexRange(Size(m.unique_vertex[c]))
<1> DEFINE ids == MeshComponents(m)
           x(c, v) == <<StoredKind(m, c), c, v>>
           vertices == [c \in ids |-> {x(c, v) : v \in DOMAIN m.unique_vertex[c]}]
           all == {vertices[c] : c \in ids}
<1>1. /\ IsFiniteSet(ids)
      /\ DOMAIN m.unique_vertex = ids
      /\ \A c \in ids : IsVertexVector(m.unique_vertex[c], NbUniqueVertices(m))
    BY ComponentsAreFinite, VerticesOfModel
<1>2. ASSUME NEW c \in ids
      PROVE  /\ Size(m.unique_vertex[c]) \in Nat
             /\ DOMAIN m.unique_vertex[c] = IndexRange(Size(m.unique_vertex[c]))
             /\ IsFiniteSet(DOMAIN m.unique_vertex[c])
    <2>1. PICK p \in Nat : m.unique_vertex[c] \in
                [IndexRange(p) -> IndexRange(NbUniqueVertices(m)) \cup {NoId}]
        BY <1>1 DEF IsVertexVector
    <2>2. QED
        BY <2>1, SizeOfVector
<1>3. ASSUME NEW c \in ids
      PROVE  IsFiniteSet(vertices[c])
    <2> DEFINE D == DOMAIN m.unique_vertex[c]
               f == [v \in D |-> x(c, v)]
    <2>1. DOMAIN f = D /\ IsFiniteSet(D)
        BY <1>2
    <2>2. \A v \in D : f[v] = x(c, v)
        OBVIOUS
    <2>3. vertices[c] = {x(c, v) : v \in D}
        OBVIOUS
    <2> HIDE DEF f, D, x, vertices
    <2>4. vertices[c] = {f[v] : v \in D}
        BY <2>2, <2>3
    <2> HIDE DEF f, D
    <2>5. QED
        BY <2>1, <2>4, ImageIsFinite
<1>4. IsFiniteSet(all)
    <2>1. DOMAIN vertices = ids
        OBVIOUS
    <2> HIDE DEF vertices, ids
    <2>2. QED
        BY <1>1, <2>1, ImageIsFinite
<1>5. IsFiniteSet(UNION all)
    <2>1. \A T \in all : IsFiniteSet(T)
        BY <1>3
    <2> HIDE DEF all
    <2>2. QED
        BY <1>4, <2>1, FS_UNION
<1>6. \A y : y \in UNION all <=>
            \E c \in ids : \E v \in DOMAIN m.unique_vertex[c] : y = x(c, v)
    <2>1. \A c \in ids : \A y : y \in vertices[c] <=>
                \E v \in DOMAIN m.unique_vertex[c] : y = x(c, v)
        OBVIOUS
    <2> HIDE DEF x, vertices, ids
    <2>2. QED
        BY <2>1
<1> HIDE DEF all
<1>7. ComponentVertices(m) = UNION all
    <2>1. \A y : y \in ComponentVertices(m) <=>
            \E c \in ids : \E v \in DOMAIN m.unique_vertex[c] : y = x(c, v)
        BY <1>1 DEF ComponentVertices
    <2> HIDE DEF all, x
    <2>2. QED
        BY <1>6, <2>1
<1>8. \A y : y \in UNION all <=> IsVertexOf(m, y)
    <2>1. \A y : IsVertexOf(m, y) <=>
            \E c \in ids : \E v \in DOMAIN m.unique_vertex[c] : y = x(c, v)
        BY DEF IsVertexOf
    <2> HIDE DEF x
    <2>2. QED
        BY <1>6, <2>1
<1>9. QED
    BY <1>2, <1>5, <1>7, <1>8

\* The vertices of a copy, of the components that the mapping does not give
\* and of the copies, whose unique vertices come after the others.
HasCopies(r, m, other, mapping) ==
    /\ \A y : IsVertexOf(r, y) <=>
            \/ /\ IsVertexOf(m, y)
               /\ y[2] \notin ImageOf(mapping, MeshComponents(other))
            \/ \E x : Comes(other, mapping, x) /\ y = Moved(x, mapping)
    /\ \A y : /\ IsVertexOf(m, y)
              /\ y[2] \notin ImageOf(mapping, MeshComponents(other))
              => UniqueOf(r, y) = UniqueOf(m, y)
    /\ \A x : Comes(other, mapping, x) =>
            UniqueOf(r, Moved(x, mapping)) =
                IF UniqueOf(other, x) = NoId
                THEN NoId ELSE NbUniqueVertices(m) + UniqueOf(other, x)

\* copy_..._geometry() and copy_vertex_identifier_components(), when the
\* mapping has every component that has an identified vertex.
LEMMA GeometryCopied ==
    ASSUME NEW m, IsModel(m), NEW other, IsModel(other), NEW mapping,
           \A c, d \in DOMAIN mapping : mapping[c] = mapping[d] => c = d,
           \A c \in MeshComponents(other) \cap DOMAIN mapping :
                /\ mapping[c] \in MeshComponents(m)
                /\ StoredKind(m, mapping[c]) = StoredKind(other, c),
           \A x : IsVertexOf(other, x) /\ UniqueOf(other, x) # NoId =>
                    x[2] \in DOMAIN mapping
    PROVE  LET r == CopyGeometry(m, other, mapping)
           IN  /\ IsModel(r)
               /\ DifferInVertices(m, r)
               /\ HasCopies(r, m, other, mapping)
<1> DEFINE ids == MeshComponents(other) \cap DOMAIN mapping
           size(c) == Size(other.unique_vertex[c])
           mesh == [c \in ids |-> <<mapping[c], size(c)>>]
           meshes == {mesh[c] : c \in ids}
           S == ImageOf(mapping, MeshComponents(other))
           a == UpdateMeshes(m, meshes)
           k == NbUniqueVertices(other)
           n == NbUniqueVertices(m)
           b == CreateUniqueVertices(a, k)
           used == {x \in ComponentVertices(other) : UniqueOf(other, x) # NoId}
           pair == [x \in used |-> <<Moved(x, mapping), n + UniqueOf(other, x)>>]
           pairs == {pair[x] : x \in used}
           P == {Moved(x, mapping) : x \in used}
           r == CopyGeometry(m, other, mapping)
<1>1. /\ k \in Nat
      /\ n \in Nat
      /\ DOMAIN other.component_vertices = IndexRange(k)
      /\ \A x : x \in ComponentVertices(other) <=> IsVertexOf(other, x)
      /\ IsFiniteSet(ComponentVertices(other))
      /\ \A c \in MeshComponents(other) :
            size(c) \in Nat
                /\ DOMAIN other.unique_vertex[c] = IndexRange(size(c))
      /\ IsFiniteSet(ids)
    <2>1. IsFiniteSet(MeshComponents(other))
        BY ComponentsAreFinite
    <2>2. IsFiniteSet(ids)
        BY <2>1, FS_Subset
    <2>3. QED
        BY <2>2, VerticesOfModel, VerticesAreFinite
<1> HIDE DEF size, n, k
<1>2. /\ IsModel(a)
      /\ DifferInVertices(m, a)
      /\ NbUniqueVertices(a) = n
      /\ \A c \in MeshComponents(m) \ S :
            a.unique_vertex[c] = m.unique_vertex[c]
      /\ \A c \in ids : a.unique_vertex[mapping[c]] = Unset(size(c))
    <2>1. IsFiniteSet(meshes)
        <3>1. DOMAIN mesh = ids
            OBVIOUS
        <3> HIDE DEF mesh, ids
        <3>2. QED
            BY <1>1, <3>1, ImageIsFinite
    <2>2. /\ \A p \in meshes : \E c \in ids : p = <<mapping[c], size(c)>>
          /\ \A c \in ids : <<mapping[c], size(c)>> \in meshes
        OBVIOUS
    <2>3. \A c \in ids : mapping[c] \in S
        BY DEF ImageOf
    <2>4. \A p \in meshes : p[1] \in S \cap MeshComponents(m) /\ p[2] \in Nat
        BY <1>1, <2>2, <2>3
    <2>5. \A p, q \in meshes : p[1] = q[1] => p[2] = q[2]
        BY <2>2
    <2> HIDE DEF meshes, S, ids
    <2>6. /\ IsModel(UpdateMeshes(m, meshes))
          /\ DifferInVertices(m, UpdateMeshes(m, meshes))
          /\ NbUniqueVertices(UpdateMeshes(m, meshes)) = NbUniqueVertices(m)
          /\ \A c \in MeshComponents(m) \ S :
                UpdateMeshes(m, meshes).unique_vertex[c] = m.unique_vertex[c]
          /\ \A p \in meshes :
                UpdateMeshes(m, meshes).unique_vertex[p[1]] = Unset(p[2])
        BY <2>1, <2>4, <2>5, MeshesUpdated
    <2> DEFINE u == UpdateMeshes(m, meshes)
    <2>7. \A c \in ids : u.unique_vertex[mapping[c]] = Unset(size(c))
        BY <2>2, <2>6
    <2>8. QED
        BY <2>6, <2>7 DEF n
<1>3. r = SetUniqueVertices(b, pairs)
    <2>1. meshes = {<<mapping[c], size(c)>> : c \in ids}
        OBVIOUS
    <2>2. pairs = CopiedVertices(other, mapping, n)
        <3>1. \A p : p \in pairs <=> \E x \in used :
                    p = <<Moved(x, mapping), n + UniqueOf(other, x)>>
            OBVIOUS
        <3>2. \A p : p \in CopiedVertices(other, mapping, n) <=>
                \E u \in IndexRange(k) : \E x \in other.component_vertices[u] :
                    p = <<Moved(x, mapping), n + u>>
            BY <1>1 DEF CopiedVertices, Moved
        <3>3. \A u \in IndexRange(k) : \A x :
                x \in other.component_vertices[u]
                    <=> IsVertexOf(other, x) /\ UniqueOf(other, x) = u
            BY <1>1, ListedVertices
        <3>4. \A x \in used : UniqueOf(other, x) \in IndexRange(k)
            BY <1>1, ListedVertices
        <3>5. \A u \in IndexRange(k) : u # NoId
            BY DEF IndexRange, NoId
        <3> HIDE DEF pairs
        <3>6. \A p : p \in pairs <=> p \in CopiedVertices(other, mapping, n)
            BY <1>1, <3>1, <3>2, <3>3, <3>4, <3>5
        <3>7. QED
            BY <3>6
    <2> HIDE DEF meshes, pairs
    <2>3. r = CopyUniqueVertices(a, other, mapping)
        BY <2>1 DEF CopyGeometry, size
    <2>4. QED
        BY <1>2, <2>2, <2>3 DEF CopyUniqueVertices, k
<1> HIDE DEF a, r
<1>4. /\ IsModel(b)
      /\ DifferInVertices(a, b)
      /\ b.unique_vertex = a.unique_vertex
      /\ NbUniqueVertices(b) = n + k
    BY <1>1, <1>2, CreatedVertices
<1> HIDE DEF b
<1>5. /\ DifferInVertices(m, b)
      /\ MeshComponents(b) = MeshComponents(m)
      /\ \A c : StoredKind(b, c) = StoredKind(m, c)
      /\ DOMAIN b.component_vertices = IndexRange(n + k)
    <2>1. DifferInVertices(m, b)
        BY <1>2, <1>4 DEF DifferInVertices
    <2>2. QED
        <3>1. DOMAIN b.component_vertices = IndexRange(n + k)
            BY <1>4, VerticesOfModel
        <3>2. b.components = m.components
            BY <2>1 DEF DifferInVertices
        <3>3. QED
            BY <2>1, <3>1, <3>2, SameComponents
<1>6. \A x : Comes(other, mapping, x) =>
            /\ x[2] \in ids
            /\ Moved(x, mapping)[1] = x[1]
            /\ Moved(x, mapping)[2] = mapping[x[2]]
            /\ Moved(x, mapping)[3] = x[3]
            /\ mapping[x[2]] \in S
    BY DEF Comes, IsVertexOf, Moved, ImageOf
<1>7. \A x : Comes(other, mapping, x) =>
            /\ IsVertexOf(b, Moved(x, mapping))
            /\ UniqueOf(b, Moved(x, mapping)) = NoId
    <2>1. SUFFICES ASSUME NEW x, Comes(other, mapping, x)
                   PROVE  /\ IsVertexOf(b, Moved(x, mapping))
                          /\ UniqueOf(b, Moved(x, mapping)) = NoId
        OBVIOUS
    <2> DEFINE c == x[2]
               d == mapping[c]
    <2>2. /\ c \in ids
          /\ x[3] \in IndexRange(size(c))
          /\ x[1] = StoredKind(other, c)
        BY <1>1, <1>6, <2>1 DEF Comes, IsVertexOf
    <2>3. /\ d \in MeshComponents(b)
          /\ StoredKind(b, d) = x[1]
          /\ b.unique_vertex[d] = Unset(size(c))
        BY <1>2, <1>4, <1>5, <2>2
    <2>4. /\ x[3] \in DOMAIN b.unique_vertex[d]
          /\ b.unique_vertex[d][x[3]] = NoId
        BY <2>2, <2>3 DEF Unset
    <2>5. QED
        BY <2>3, <2>4 DEF IsVertexOf, UniqueOf, Moved
<1>8. \A x, z : /\ Comes(other, mapping, x) /\ Comes(other, mapping, z)
                /\ Moved(x, mapping) = Moved(z, mapping)
                => x = z
    <2>1. SUFFICES ASSUME NEW x, NEW z, Comes(other, mapping, x),
                          Comes(other, mapping, z),
                          Moved(x, mapping) = Moved(z, mapping)
                   PROVE  x = z
        OBVIOUS
    <2>2. mapping[x[2]] = mapping[z[2]] /\ x[3] = z[3]
        BY <1>6, <2>1
    <2>3. x[2] = z[2]
        BY <2>1, <2>2 DEF Comes
    <2>4. QED
        BY <2>1, <2>2, <2>3 DEF Comes, IsVertexOf
<1>9. \A x : x \in used <=> Comes(other, mapping, x)
                              /\ UniqueOf(other, x) # NoId
    BY <1>1 DEF Comes
<1>10. \A x \in used : UniqueOf(other, x) \in IndexRange(k)
    BY <1>1, <1>9, ListedVertices DEF Comes
<1>11. IsFiniteSet(pairs)
    <2>1. IsFiniteSet(used)
        BY <1>1, FS_Subset
    <2>2. DOMAIN pair = used
        OBVIOUS
    <2> HIDE DEF pair, used
    <2>3. QED
        BY <2>1, <2>2, ImageIsFinite
<1> HIDE DEF used, ids, S
<1>12. /\ \A x \in used :
            <<Moved(x, mapping), n + UniqueOf(other, x)>> \in pairs
       /\ \A p \in pairs : \E x \in used :
            p = <<Moved(x, mapping), n + UniqueOf(other, x)>>
    OBVIOUS
<1>13. \A y : y \in P <=> \E x \in used : y = Moved(x, mapping)
    OBVIOUS
<1> HIDE DEF pairs, P
<1>14. /\ \A p \in pairs : /\ p[1] \in P
                            /\ IsVertexOf(b, p[1])
                            /\ p[2] \in DOMAIN b.component_vertices
       /\ \A p, q \in pairs : p[1] = q[1] => p[2] = q[2]
    <2>1. \A u \in IndexRange(k) : n + u \in IndexRange(n + k)
        BY <1>1 DEF IndexRange
    <2>2. ASSUME NEW p \in pairs
          PROVE  /\ p[1] \in P
                 /\ IsVertexOf(b, p[1])
                 /\ p[2] \in DOMAIN b.component_vertices
        <3>1. PICK x \in used :
                    p = <<Moved(x, mapping), n + UniqueOf(other, x)>>
            BY <1>12
        <3>2. n + UniqueOf(other, x) \in IndexRange(n + k)
            BY <1>10, <2>1
        <3>3. p[1] = Moved(x, mapping) /\ p[2] = n + UniqueOf(other, x)
            BY <3>1
        <3>4. QED
            BY <1>5, <1>7, <1>9, <1>13, <3>2, <3>3
    <2>3. ASSUME NEW p \in pairs, NEW q \in pairs, p[1] = q[1]
          PROVE  p[2] = q[2]
        <3>1. PICK x \in used, z \in used :
                    /\ p = <<Moved(x, mapping), n + UniqueOf(other, x)>>
                    /\ q = <<Moved(z, mapping), n + UniqueOf(other, z)>>
            BY <1>12
        <3>2. x = z
            BY <1>8, <1>9, <2>3, <3>1
        <3>3. QED
            BY <3>1, <3>2
    <2>4. QED
        BY <2>2, <2>3
<1>15. /\ IsModel(SetUniqueVertices(b, pairs))
       /\ DifferInVertices(b, SetUniqueVertices(b, pairs))
       /\ SameVerticesBut(b, SetUniqueVertices(b, pairs), P)
       /\ \A p \in pairs : UniqueOf(SetUniqueVertices(b, pairs), p[1]) = p[2]
    BY <1>4, <1>11, <1>14, SetVertices
<1>16. /\ IsModel(r)
       /\ DifferInVertices(b, r)
       /\ SameVerticesBut(b, r, P)
       /\ \A x \in used :
            UniqueOf(r, Moved(x, mapping)) = n + UniqueOf(other, x)
    BY <1>3, <1>12, <1>15
<1>17. DifferInVertices(m, r)
    BY <1>5, <1>16 DEF DifferInVertices
<1>18. ASSUME NEW y, y[2] \notin S
       PROVE  /\ IsVertexOf(r, y) <=> IsVertexOf(m, y)
              /\ IsVertexOf(m, y) => UniqueOf(r, y) = UniqueOf(m, y)
    <2>1. IsVertexOf(b, y) <=> IsVertexOf(m, y)
        BY <1>2, <1>4, <1>5, <1>18 DEF IsVertexOf
    <2>2. y \notin P
        BY <1>6, <1>9, <1>13, <1>18
    <2>3. IsVertexOf(m, y) => UniqueOf(b, y) = UniqueOf(m, y)
        BY <1>2, <1>4, <1>18 DEF UniqueOf, IsVertexOf
    <2>4. QED
        BY <1>16, <2>1, <2>2, <2>3 DEF SameVerticesBut
<1>19. ASSUME NEW y, IsVertexOf(r, y), y[2] \in S
       PROVE  \E x : Comes(other, mapping, x) /\ y = Moved(x, mapping)
    <2>1. PICK c \in ids : y[2] = mapping[c]
        BY <1>19 DEF S, ids, ImageOf
    <2>2. IsVertexOf(b, y)
        BY <1>16, <1>19 DEF SameVerticesBut
    <2>3. b.unique_vertex[y[2]] = Unset(size(c))
        BY <1>2, <1>4, <2>1
    <2>4. /\ y = <<StoredKind(other, c), mapping[c], y[3]>>
          /\ y[3] \in DOMAIN other.unique_vertex[c]
        BY <1>1, <1>5, <2>1, <2>2, <2>3 DEF IsVertexOf, ids, Unset
    <2> DEFINE x == <<StoredKind(other, c), c, y[3]>>
    <2>5. Comes(other, mapping, x)
        BY <2>1, <2>4 DEF Comes, IsVertexOf, ids
    <2>6. y = Moved(x, mapping)
        BY <2>4 DEF Moved
    <2>7. QED
        BY <2>5, <2>6
<1>20. ASSUME NEW x, Comes(other, mapping, x)
       PROVE  /\ IsVertexOf(r, Moved(x, mapping))
              /\ UniqueOf(r, Moved(x, mapping)) =
                    IF UniqueOf(other, x) = NoId
                    THEN NoId ELSE n + UniqueOf(other, x)
    <2>1. /\ IsVertexOf(b, Moved(x, mapping))
          /\ UniqueOf(b, Moved(x, mapping)) = NoId
        BY <1>7, <1>20
    <2>2. IsVertexOf(r, Moved(x, mapping))
        BY <1>16, <2>1 DEF SameVerticesBut
    <2>3. CASE x \in used
        BY <1>9, <1>16, <2>2, <2>3
    <2>4. CASE x \notin used
        <3>1. UniqueOf(other, x) = NoId
            BY <1>9, <1>20, <2>4
        <3>2. Moved(x, mapping) \notin P
            BY <1>8, <1>9, <1>13, <1>20, <2>4
        <3>3. QED
            BY <1>16, <2>1, <2>2, <3>1, <3>2 DEF SameVerticesBut
    <2>5. QED
        BY <2>3, <2>4
<1>21. \A x : Comes(other, mapping, x) => Moved(x, mapping)[2] \in S
    BY <1>6
<1>22. HasCopies(r, m, other, mapping)
    <2>1. ASSUME NEW y
          PROVE  IsVertexOf(r, y) <=>
                    \/ IsVertexOf(m, y) /\ y[2] \notin S
                    \/ \E x : Comes(other, mapping, x) /\ y = Moved(x, mapping)
        BY <1>18, <1>19, <1>20
    <2>2. QED
        BY <1>18, <1>20, <2>1 DEF HasCopies, S, n
<1>23. QED
    BY <1>16, <1>17, <1>22 DEF r
\* A model has finitely many relations.
LEMMA RelationsAreFinite ==
    ASSUME NEW m, IsModel(m)
    PROVE  IsFiniteSet(m.relations)
<1> DEFINE P == (Ids \X Ids) \X (0 .. 2)
           f == [p \in P |-> <<p[1][1], p[1][2], p[2]>>]
           S == {f[p] : p \in P}
<1>1. IsFiniteSet(P)
    <2>1. IsFiniteSet(0 .. 2)
        <3> DEFINE last == 2
        <3>1. last \in Int
            OBVIOUS
        <3> HIDE DEF last
        <3>2. IsFiniteSet(0 .. last)
            BY <3>1, FS_Interval
        <3>3. QED
            BY <3>2 DEF last
    <2>2. IsFiniteSet(Ids \X Ids)
        BY IdsAssumption, FS_Product
    <2> DEFINE Q == Ids \X Ids
               V == 0 .. 2
    <2> HIDE DEF Q, V
    <2>3. IsFiniteSet(Q \X V)
        BY <2>1, <2>2, FS_Product DEF Q, V
    <2>4. QED
        BY <2>3 DEF Q, V
<1>2. IsFiniteSet(S)
    <2>1. DOMAIN f = P
        OBVIOUS
    <2> HIDE DEF f, P
    <2>2. QED
        BY <1>1, <2>1, ImageIsFinite
<1>3. ASSUME NEW q \in m.relations
      PROVE  q \in S
    <2>1. IsTriple(q, Ids, 0 .. 2)
        <3>1. RelationsHold(m) /\ StorageHolds(m)
            BY PartsOfModel
        <3>2. \A c \in DOMAIN m.registered : c \in Ids
            BY <3>1, KindOfStored DEF RelationsHold
        <3>3. RelationTypes = 0 .. 2
            BY DEF RelationTypes, BOUNDARY_RELATION, INTERNAL_RELATION,
                   ITEM_RELATION
        <3>4. QED
            BY <3>1, <3>2, <3>3 DEF RelationsHold, IsTriple
    <2>2. <<<<q[1], q[2]>>, q[3]>> \in P
        BY <2>1 DEF IsTriple
    <2>3. f[<<<<q[1], q[2]>>, q[3]>>] = q
        BY <2>1, <2>2 DEF IsTriple
    <2>4. QED
        BY <2>2, <2>3
<1>4. QED
    BY <1>2, <1>3, FS_Subset

\* The components that are registered in Relationships are stored, under the
\* kind they are registered with.
LEMMA KindOfRegistered ==
    ASSUME NEW m, IsModel(m)
    PROVE  /\ \A c \in DOMAIN m.registered :
                /\ c \in AllStored(m)
                /\ m.registered[c] \in Kinds
                /\ c \in Stored(m, m.registered[c])
                /\ StoredKind(m, c) = m.registered[c]
           /\ \A q \in m.relations :
                /\ q[1] \in DOMAIN m.registered
                /\ q[2] \in DOMAIN m.registered
                /\ q[3] \in RelationTypes
                /\ q = <<q[1], q[2], q[3]>>
                /\ <<m.registered[q[1]], m.registered[q[2]]>>
                        \in RelatedKinds(m.dim, q[3])
<1>1. RelationsHold(m) /\ StorageHolds(m)
    BY PartsOfModel
<1>2. \A c \in DOMAIN m.registered :
            /\ m.registered[c] \in Kinds
            /\ c \in Stored(m, m.registered[c])
    BY <1>1 DEF RelationsHold
<1>3. QED
    BY <1>1, <1>2, KindOfStored DEF RelationsHold, RelationsFit, IsTriple

\* Every identified vertex of other is of a component that is mapped.
MapsIdentified(other, mapping) ==
    \A x : IsVertexOf(other, x) /\ UniqueOf(other, x) # NoId =>
            x[2] \in DOMAIN mapping

\* copy_component_geometry() after the components were copied.
LEMMA CopiedWithGeometry ==
    ASSUME NEW m, IsModel(m), NEW other, IsModel(other),
           NEW mapping, MapsInto(m, other, mapping),
           MapsIdentified(other, mapping),
           NEW a, IsModel(a),
           DifferInRelations(CopyComponents(m, other, mapping), a)
    PROVE  LET r == CopyGeometry(a, other, mapping)
           IN  /\ IsModel(r)
               /\ CopiesComponents(r, m, other, mapping)
               /\ r.registered = a.registered
               /\ r.relations = a.relations
               /\ IsMadeOf(r, m, AllStored(m), other, mapping)
<1> DEFINE b == CopyComponents(m, other, mapping)
           r == CopyGeometry(a, other, mapping)
           n == NbUniqueVertices(m)
           S == ImageOf(mapping, MeshComponents(other))
<1>1. /\ IsModel(b)
      /\ CopiesComponents(b, m, other, mapping)
      /\ NbUniqueVertices(b) = n
      /\ \A c \in MeshComponents(m) :
            /\ b.unique_vertex[c] = m.unique_vertex[c]
            /\ StoredKind(b, c) = StoredKind(m, c)
    BY ComponentsCopied
<1> HIDE DEF b
<1>2. /\ a.dim = b.dim /\ a.components = b.components
      /\ a.inactive = b.inactive
      /\ a.unique_vertex = b.unique_vertex
      /\ a.component_vertices = b.component_vertices
    BY DEF DifferInRelations, b
<1>3. /\ \A k : Stored(a, k) = Stored(b, k)
      /\ MeshComponents(a) = MeshComponents(b)
      /\ \A c : StoredKind(a, c) = StoredKind(b, c)
      /\ NbUniqueVertices(a) = n
    BY <1>1, <1>2, SameComponents DEF NbUniqueVertices
<1>4. /\ \A c \in DOMAIN mapping : mapping[c] \in Ids \ AllStored(m)
      /\ \A c, d \in DOMAIN mapping : mapping[c] = mapping[d] => c = d
    BY Fun_InjectionProperties DEF MapsInto
<1>5. MeshComponents(a) = MeshComponents(m) \cup S
    <2>1. MeshKinds \subseteq Kinds
        BY DEF MeshKinds
    <2>2. MeshComponents(b) = MeshComponents(m) \cup S
        BY <1>1, <2>1 DEF MeshComponents, ImageOf, CopiesComponents
    <2>3. QED
        BY <1>3, <2>2
<1>6. /\ MeshComponents(m) \subseteq AllStored(m)
      /\ MeshComponents(other) \subseteq AllStored(other)
    BY ComponentsAreFinite
<1>7. \A c \in MeshComponents(m) : c \notin S
    BY <1>4, <1>6 DEF ImageOf
<1>8. ASSUME NEW c \in MeshComponents(other) \cap DOMAIN mapping
      PROVE  /\ mapping[c] \in MeshComponents(a)
             /\ StoredKind(a, mapping[c]) = StoredKind(other, c)
    <2> DEFINE k == StoredKind(other, c)
    <2>1. k \in Kinds /\ c \in Stored(other, k)
        BY <1>6, KindOfMesh
    <2>2. mapping[c] \in Stored(a, k)
        BY <1>1, <1>3, <2>1 DEF ImageOf, CopiesComponents
    <2>3. StorageHolds(a)
        BY PartsOfModel
    <2> HIDE DEF k
    <2>4. StoredKind(a, mapping[c]) = k
        BY <2>1, <2>2, <2>3, KindOfStored
    <2>5. mapping[c] \in MeshComponents(a)
        BY <1>5 DEF ImageOf
    <2>6. QED
        BY <2>4, <2>5 DEF k
<1>9. \A x : IsVertexOf(other, x) /\ UniqueOf(other, x) # NoId =>
            x[2] \in DOMAIN mapping
    BY DEF MapsIdentified
<1>10. IsModel(r) /\ DifferInVertices(a, r) /\ HasCopies(r, a, other, mapping)
    BY <1>4, <1>8, <1>9, GeometryCopied
<1> HIDE DEF r
<1>11. CopiesComponents(r, m, other, mapping)
    <2>1. /\ r.dim = b.dim /\ r.components = b.components
          /\ r.inactive = b.inactive
        BY <1>2, <1>10 DEF DifferInVertices
    <2>2. \A k : Stored(r, k) = Stored(b, k)
        BY <2>1, SameComponents
    <2>3. QED
        BY <1>1, <2>1, <2>2 DEF CopiesComponents
<1>12. \A y : Stays(m, AllStored(m), y) <=> IsVertexOf(a, y) /\ y[2] \notin S
    <2>1. \A y : Stays(m, AllStored(m), y) <=> IsVertexOf(m, y)
        BY <1>6 DEF Stays, IsVertexOf
    <2>2. \A c \in MeshComponents(m) :
            /\ a.unique_vertex[c] = m.unique_vertex[c]
            /\ StoredKind(a, c) = StoredKind(m, c)
        BY <1>1, <1>2, <1>3
    <2>3. \A y : IsVertexOf(m, y) <=> IsVertexOf(a, y) /\ y[2] \notin S
        BY <1>5, <1>7, <2>2 DEF IsVertexOf
    <2>4. QED
        BY <2>1, <2>3
<1>13. ASSUME NEW y, Stays(m, AllStored(m), y)
       PROVE  /\ UniqueOf(r, y) = UniqueOf(m, y)
              /\ UniqueOf(m, y) \in IndexRange(n) \cup {NoId}
    <2>1. UniqueOf(r, y) = UniqueOf(a, y)
        BY <1>10, <1>12, <1>13 DEF HasCopies, S
    <2>2. UniqueOf(a, y) = UniqueOf(m, y)
        BY <1>1, <1>2, <1>13 DEF UniqueOf, Stays, IsVertexOf
    <2>3. UniqueOf(m, y) \in DOMAIN m.component_vertices \cup {NoId}
        BY <1>13, ListedVertices DEF Stays
    <2>4. QED
        BY <2>1, <2>2, <2>3, VerticesOfModel DEF n
<1>14. ASSUME NEW x, Comes(other, mapping, x)
       PROVE  /\ UniqueOf(r, Moved(x, mapping)) =
                    IF UniqueOf(other, x) = NoId
                    THEN NoId ELSE n + UniqueOf(other, x)
              /\ UniqueOf(other, x) = NoId \/ UniqueOf(other, x) \in Nat
    <2>1. UniqueOf(other, x) \in DOMAIN other.component_vertices \cup {NoId}
        BY <1>14, ListedVertices DEF Comes
    <2>2. UniqueOf(other, x) = NoId \/ UniqueOf(other, x) \in Nat
        <3>1. UniqueOf(other, x) \in IndexRange(NbUniqueVertices(other)) \cup {NoId}
            BY <2>1, VerticesOfModel
        <3>2. QED
            BY <3>1 DEF IndexRange
    <2>3. QED
        BY <1>3, <1>10, <1>14, <2>2 DEF HasCopies
<1>15. \A y : IsVertexOf(r, y) <=>
            \/ Stays(m, AllStored(m), y)
            \/ \E x : Comes(other, mapping, x) /\ y = Moved(x, mapping)
    BY <1>10, <1>12 DEF HasCopies, S
<1>16. n \in Nat /\ NoId = -1 /\ \A u \in IndexRange(n) : u \in Nat /\ u < n
    <2>1. n \in Nat
        BY VerticesOfModel
    <2> HIDE DEF n
    <2>2. QED
        BY <2>1 DEF IndexRange, NoId
<1> HIDE DEF n
<1>17. IsMadeOf(r, m, AllStored(m), other, mapping)
    <2>1. \A x, z : Comes(other, mapping, x) /\ Comes(other, mapping, z) =>
            (UniqueOf(r, Moved(x, mapping)) = UniqueOf(r, Moved(z, mapping))
                <=> UniqueOf(other, x) = UniqueOf(other, z))
        <3>1. SUFFICES ASSUME NEW x, NEW z, Comes(other, mapping, x),
                              Comes(other, mapping, z)
                       PROVE  UniqueOf(r, Moved(x, mapping))
                                    = UniqueOf(r, Moved(z, mapping))
                                <=> UniqueOf(other, x) = UniqueOf(other, z)
            OBVIOUS
        <3> DEFINE u == UniqueOf(other, x)
                   v == UniqueOf(other, z)
        <3>2. /\ UniqueOf(r, Moved(x, mapping)) = IF u = NoId THEN NoId ELSE n + u
              /\ UniqueOf(r, Moved(z, mapping)) = IF v = NoId THEN NoId ELSE n + v
              /\ u = NoId \/ u \in Nat
              /\ v = NoId \/ v \in Nat
            BY <1>14, <3>1
        <3> HIDE DEF u, v
        <3>3. QED
            BY <1>16, <3>2 DEF u, v
    <2>2. \A x : Comes(other, mapping, x) =>
            (UniqueOf(r, Moved(x, mapping)) = NoId <=> UniqueOf(other, x) = NoId)
        BY <1>14, <1>16
    <2>3. \A y, x : Stays(m, AllStored(m), y) /\ Comes(other, mapping, x) =>
            \/ UniqueOf(r, y) = NoId
            \/ UniqueOf(r, y) # UniqueOf(r, Moved(x, mapping))
        <3>1. SUFFICES ASSUME NEW y, NEW x, Stays(m, AllStored(m), y),
                              Comes(other, mapping, x)
                       PROVE  \/ UniqueOf(r, y) = NoId
                              \/ UniqueOf(r, y) # UniqueOf(r, Moved(x, mapping))
            OBVIOUS
        <3> DEFINE u == UniqueOf(other, x)
                   v == UniqueOf(m, y)
        <3>2. /\ UniqueOf(r, Moved(x, mapping)) = IF u = NoId THEN NoId ELSE n + u
              /\ u = NoId \/ u \in Nat
              /\ UniqueOf(r, y) = v
              /\ v \in IndexRange(n) \cup {NoId}
            BY <1>13, <1>14, <3>1
        <3> HIDE DEF u, v
        <3>3. QED
            BY <1>16, <3>2
    <2>4. \A y : Stays(m, AllStored(m), y) => UniqueOf(r, y) = UniqueOf(m, y)
        BY <1>13
    <2>5. QED
        BY <1>15, <2>1, <2>2, <2>3, <2>4 DEF IsMadeOf
<1>18. r.registered = a.registered /\ r.relations = a.relations
    BY <1>10 DEF DifferInVertices
<1>19. QED
    BY <1>10, <1>11, <1>17, <1>18 DEF r
\* The copies of these relations.
ImagesOfRelations(relations, mapping) ==
    {<<mapping[q[1]], mapping[q[2]], q[3]>> : q \in relations}

\* copy_components(), copy_relationships(), copy_component_geometry().
LEMMA ModelCopied ==
    ASSUME NEW m, IsModel(m), NEW other, IsModel(other),
           NEW mapping, MapsInto(m, other, mapping),
           MapsIdentified(other, mapping),
           \A q \in other.relations :
                q[1] \in DOMAIN mapping /\ q[2] \in DOMAIN mapping =>
                    <<other.registered[q[1]], other.registered[q[2]]>>
                        \in RelatedKinds(m.dim, q[3])
    PROVE  LET r == CopyGeometry(CopyRelationships(
                        CopyComponents(m, other, mapping), other, mapping),
                        other, mapping)
           IN  /\ IsModel(r)
               /\ CopiesComponents(r, m, other, mapping)
               /\ r.relations = ImagesOfRelations(
                    {q \in other.relations :
                        {q[1], q[2]} \subseteq DOMAIN mapping}, mapping)
               /\ IsMadeOf(r, m, AllStored(m), other, mapping)
<1> DEFINE b == CopyComponents(m, other, mapping)
           a == CopyRelationships(b, other, mapping)
           r == CopyGeometry(a, other, mapping)
<1>1. IsModel(b) /\ CopiesComponents(b, m, other, mapping)
    BY ComponentsCopied
<1>2. \A c, d \in DOMAIN mapping : mapping[c] = mapping[d] => c = d
    BY Fun_InjectionProperties DEF MapsInto
<1> HIDE DEF b
<1>3. \A c \in DOMAIN other.registered \cap DOMAIN mapping :
            mapping[c] \in Stored(b, other.registered[c])
    <2>1. \A c \in DOMAIN other.registered :
            /\ other.registered[c] \in Kinds
            /\ c \in Stored(other, other.registered[c])
        BY KindOfRegistered
    <2>2. QED
        BY <1>1, <2>1 DEF CopiesComponents, ImageOf
<1>4. b.dim = m.dim
    BY <1>1 DEF CopiesComponents
<1>5. /\ IsModel(a)
      /\ DifferInRelations(b, a)
      /\ a.relations = ImagesOfRelations(
            {q \in other.relations :
                {q[1], q[2]} \subseteq DOMAIN mapping}, mapping)
    <2>1. \A q \in other.relations :
            q[1] \in DOMAIN mapping /\ q[2] \in DOMAIN mapping =>
                <<other.registered[q[1]], other.registered[q[2]]>>
                    \in RelatedKinds(b.dim, q[3])
        BY <1>4
    <2>2. QED
        BY <1>1, <1>2, <1>3, <2>1, RelationshipsCopied DEF ImagesOfRelations
<1> HIDE DEF a
<1>6. DifferInRelations(CopyComponents(m, other, mapping), a)
    BY <1>5 DEF b
<1>7. /\ IsModel(r)
      /\ CopiesComponents(r, m, other, mapping)
      /\ r.relations = a.relations
      /\ IsMadeOf(r, m, AllStored(m), other, mapping)
    BY <1>5, <1>6, CopiedWithGeometry
<1>8. QED
    BY <1>5, <1>7 DEF a, b

\* ModelConcatener::concatenate() of a model of the same dimension.
LEMMA ModelConcatenated ==
    ASSUME NEW m, IsModel(m), NEW other, IsModel(other), other.dim = m.dim,
           NEW mapping, MapsInto(m, other, mapping),
           DOMAIN mapping = AllStored(other),
           NEW relations, relations \subseteq other.relations
    PROVE  LET r == Concatenated(m, other, mapping, relations)
           IN  /\ IsModel(r)
               /\ CopiesComponents(r, m, other, mapping)
               /\ r.relations
                    = m.relations \cup ImagesOfRelations(relations, mapping)
               /\ IsMadeOf(r, m, AllStored(m), other, mapping)
<1> DEFINE b == CopyComponents(m, other, mapping)
           a == CopyGeometry(b, other, mapping)
           kind(c) == StoredKind(other, c)
           new == [q \in relations |-> <<<<kind(q[1]), mapping[q[1]]>>,
                                         <<kind(q[2]), mapping[q[2]]>>, q[3]>>]
           added == {new[q] : q \in relations}
           r == RelateAll(a, added)
           image(q) == <<mapping[q[1]], mapping[q[2]], q[3]>>
<1>1. /\ IsModel(b)
      /\ CopiesComponents(b, m, other, mapping)
      /\ b.relations = m.relations
    BY ComponentsCopied
<1> HIDE DEF b
<1>2. /\ \A c \in DOMAIN mapping : mapping[c] \in Ids \ AllStored(m)
      /\ \A c, d \in DOMAIN mapping : mapping[c] = mapping[d] => c = d
    BY Fun_InjectionProperties DEF MapsInto
<1>3. MapsIdentified(other, mapping)
    <2>1. MeshComponents(other) \subseteq AllStored(other)
        BY ComponentsAreFinite
    <2>2. QED
        BY <2>1 DEF MapsIdentified, IsVertexOf
<1>4. DifferInRelations(CopyComponents(m, other, mapping), b)
    <2>1. IsRecord(b)
        BY <1>1, PartsOfModel
    <2>2. DifferInRelations(b, b)
        BY <2>1 DEF DifferInRelations
    <2>3. QED
        BY <2>2 DEF b
<1>5. /\ IsModel(a)
      /\ CopiesComponents(a, m, other, mapping)
      /\ a.relations = b.relations
      /\ IsMadeOf(a, m, AllStored(m), other, mapping)
    BY <1>1, <1>3, <1>4, CopiedWithGeometry
<1> HIDE DEF a
<1>6. \A q \in relations :
            /\ q[1] \in DOMAIN mapping /\ q[2] \in DOMAIN mapping
            /\ q[3] \in RelationTypes
            /\ kind(q[1]) = other.registered[q[1]]
            /\ kind(q[2]) = other.registered[q[2]]
            /\ kind(q[1]) \in Kinds /\ q[1] \in Stored(other, kind(q[1]))
            /\ kind(q[2]) \in Kinds /\ q[2] \in Stored(other, kind(q[2]))
            /\ <<kind(q[1]), kind(q[2])>> \in RelatedKinds(other.dim, q[3])
    BY KindOfRegistered
<1> HIDE DEF kind
<1>7. \A q \in relations :
            /\ mapping[q[1]] \in Stored(a, kind(q[1])) \ AllStored(m)
            /\ mapping[q[2]] \in Stored(a, kind(q[2])) \ AllStored(m)
    <2>1. \A c \in DOMAIN mapping : \A k \in Kinds :
                c \in Stored(other, k) => mapping[c] \in Stored(a, k)
        BY <1>5 DEF CopiesComponents, ImageOf
    <2>2. ASSUME NEW q \in relations
          PROVE  /\ mapping[q[1]] \in Stored(a, kind(q[1])) \ AllStored(m)
                 /\ mapping[q[2]] \in Stored(a, kind(q[2])) \ AllStored(m)
        <3> DEFINE c == q[1]
                   d == q[2]
        <3>1. /\ c \in DOMAIN mapping /\ d \in DOMAIN mapping
              /\ kind(c) \in Kinds /\ c \in Stored(other, kind(c))
              /\ kind(d) \in Kinds /\ d \in Stored(other, kind(d))
            BY <1>6
        <3> HIDE DEF c, d
        <3>2. /\ mapping[c] \in Stored(a, kind(c)) \ AllStored(m)
              /\ mapping[d] \in Stored(a, kind(d)) \ AllStored(m)
            BY <1>2, <2>1, <3>1
        <3>3. QED
            BY <3>2 DEF c, d
    <2>3. QED
        BY <2>2
<1>8. /\ \A t \in added : \E q \in relations :
            /\ t[1][1] = kind(q[1]) /\ t[1][2] = mapping[q[1]]
            /\ t[2][1] = kind(q[2]) /\ t[2][2] = mapping[q[2]]
            /\ t[3] = q[3]
            /\ t = new[q]
      /\ \A q \in relations :
            /\ new[q] \in added
            /\ new[q][1][2] = mapping[q[1]]
            /\ new[q][2][2] = mapping[q[2]]
            /\ new[q][3] = q[3]
    OBVIOUS
<1>9. IsFiniteSet(added)
    <2>1. IsFiniteSet(relations)
        BY RelationsAreFinite, FS_Subset
    <2>2. DOMAIN new = relations
        OBVIOUS
    <2> HIDE DEF new
    <2>3. QED
        BY <2>1, <2>2, ImageIsFinite
<1>10. r = Concatenated(m, other, mapping, relations)
    <2>1. added = {<<<<kind(q[1]), mapping[q[1]]>>,
                     <<kind(q[2]), mapping[q[2]]>>, q[3]>> : q \in relations}
        OBVIOUS
    <2> HIDE DEF added
    <2>2. QED
        BY <2>1 DEF Concatenated, a, b, kind
<1> HIDE DEF added, new
<1>11. ASSUME NEW t \in added
       PROVE  MayRelate(a, t[1], t[2], t[3])
    <2>1. PICK q \in relations :
            /\ t[1][1] = kind(q[1]) /\ t[1][2] = mapping[q[1]]
            /\ t[2][1] = kind(q[2]) /\ t[2][2] = mapping[q[2]]
            /\ t[3] = q[3]
        BY <1>8
    <2>2. /\ t[1][1] \in Kinds /\ t[1][2] \in Stored(a, t[1][1])
          /\ t[2][1] \in Kinds /\ t[2][2] \in Stored(a, t[2][1])
        BY <1>7, <1>6, <2>1
    <2>3. a.dim = other.dim
        BY <1>5 DEF CopiesComponents
    <2>4. <<t[1][1], t[2][1]>> \in RelatedKinds(a.dim, t[3])
        BY <1>6, <2>1, <2>3
    <2>5. t[3] \in RelationTypes
        BY <1>6, <2>1
    <2>6. QED
        BY <2>2, <2>4, <2>5 DEF MayRelate
<1>12. \A t \in added : Unrelated(a, t[1][2], t[2][2])
    <2>1. \A q \in m.relations : q[1] \in AllStored(m) /\ q[2] \in AllStored(m)
        BY KindOfRegistered
    <2>2. \A t \in added : t[1][2] \notin AllStored(m)
        BY <1>7, <1>8
    <2>3. a.relations = m.relations
        BY <1>1, <1>5
    <2>4. QED
        BY <2>1, <2>2, <2>3 DEF Unrelated
<1>13. ASSUME NEW s \in added, NEW t \in added,
              {s[1][2], s[2][2]} = {t[1][2], t[2][2]}
       PROVE  s = t
    <2>1. PICK p \in relations, q \in relations :
            /\ s = new[p] /\ s[1][2] = mapping[p[1]] /\ s[2][2] = mapping[p[2]]
            /\ t = new[q] /\ t[1][2] = mapping[q[1]] /\ t[2][2] = mapping[q[2]]
        BY <1>8
    <2>2. {mapping[p[1]], mapping[p[2]]} = {mapping[q[1]], mapping[q[2]]}
        BY <1>13, <2>1
    <2>3. {p[1], p[2]} = {q[1], q[2]}
        <3> DEFINE c == p[1]
                   d == p[2]
                   e == q[1]
                   f == q[2]
        <3>1. /\ c \in DOMAIN mapping /\ d \in DOMAIN mapping
              /\ e \in DOMAIN mapping /\ f \in DOMAIN mapping
              /\ {mapping[c], mapping[d]} = {mapping[e], mapping[f]}
            BY <1>6, <2>2
        <3> HIDE DEF c, d, e, f
        <3>2. {c, d} = {e, f}
            BY <1>2, <3>1
        <3>3. QED
            BY <3>2 DEF c, d, e, f
    <2>4. p = q
        <3>1. RelationsFit(other)
            BY DEF IsModel
        <3>2. QED
            BY <2>3, <3>1 DEF RelationsFit
    <2>5. QED
        BY <2>1, <2>4
<1>14. /\ IsModel(r)
       /\ DifferInRelations(a, r)
       /\ \A t : t \in r.relations <=>
            \/ t \in a.relations
            \/ \E q \in added : t = <<q[1][2], q[2][2], q[3]>>
    <2>1. AreApart(a, added)
        BY <1>12, <1>13 DEF AreApart
    <2>2. QED
        BY <1>5, <1>9, <1>11, <2>1, RelationsAdded
<1> HIDE DEF r
<1>15. \A t : t \in r.relations <=>
            \/ t \in m.relations
            \/ \E q \in relations : t = image(q)
    <2>1. a.relations = m.relations
        BY <1>1, <1>5
    <2>2. \A t : (\E q \in added : t = <<q[1][2], q[2][2], q[3]>>)
                    <=> \E q \in relations : t = image(q)
        BY <1>8
    <2>3. QED
        BY <1>14, <2>1, <2>2
<1>16. r.relations = m.relations \cup ImagesOfRelations(relations, mapping)
    <2>1. \A t : t \in ImagesOfRelations(relations, mapping)
                    <=> \E q \in relations : t = image(q)
        BY DEF ImagesOfRelations
    <2> HIDE DEF image
    <2>2. QED
        BY <1>15, <2>1
<1>17. /\ r.dim = a.dim /\ r.components = a.components
       /\ r.inactive = a.inactive /\ r.unique_vertex = a.unique_vertex
    BY <1>14 DEF DifferInRelations
<1>18. /\ \A k : Stored(r, k) = Stored(a, k)
       /\ \A x : IsVertexOf(r, x) <=> IsVertexOf(a, x)
       /\ \A x : UniqueOf(r, x) = UniqueOf(a, x)
    BY <1>17, SameComponents DEF IsVertexOf, UniqueOf
<1>19. CopiesComponents(r, m, other, mapping)
    BY <1>5, <1>17, <1>18 DEF CopiesComponents
<1>20. IsMadeOf(r, m, AllStored(m), other, mapping)
    BY <1>5, <1>18 DEF IsMadeOf
<1>21. QED
    BY <1>10, <1>14, <1>16, <1>19, <1>20
-----------------------------------------------------------------------------
\* What the operations of the builders make of a BRep or a Section.

\* A model has the kinds of the one it has the components of, or fewer.
LEMMA KindsKept ==
    ASSUME NEW m, IsBRepOrSection(m), NEW r, IsModel(r), r.dim = m.dim,
           \A k \in Kinds : Stored(r, k) \subseteq Stored(m, k)
    PROVE  IsBRepOrSection(r)
BY DEF IsBRepOrSection

\* In particular one that has the same components.
LEMMA SameKinds ==
    ASSUME NEW m, IsBRepOrSection(m), NEW r, IsModel(r), r.dim = m.dim,
           r.components = m.components
    PROVE  IsBRepOrSection(r)
BY SameComponents DEF IsBRepOrSection

\* The models without components.
LEMMA EmptyModelsFit ==
    ASSUME NEW d \in {2, 3}
    PROVE  IsBRepOrSection(EmptyModel(d))
<1>1. IsModel(EmptyModel(d)) /\ AllStored(EmptyModel(d)) = {}
    BY EmptyModelIsModel
<1>2. QED
    BY <1>1 DEF IsBRepOrSection, AllStored

\* Kinds of components.
LEMMA KindsOfModels ==
    /\ SectionKinds \subseteq Kinds
    /\ {"Corner", "Line", "Surface", "ModelBoundary"} \subseteq SectionKinds
    /\ MeshKinds \subseteq Kinds
    /\ "ModelBoundary" \notin MeshKinds
BY KindsAssumption DEF SectionKinds, MeshKinds

\* A copy of a model of the same dimension, of all its components.
LEMMA WholeModelCopied ==
    ASSUME NEW m, IsBRepOrSection(m), NEW other, IsBRepOrSection(other),
           other.dim = m.dim,
           NEW mapping, MapsInto(m, other, mapping),
           DOMAIN mapping = AllStored(other)
    PROVE  LET r == CopyGeometry(CopyRelationships(
                        CopyComponents(m, other, mapping), other, mapping),
                        other, mapping)
           IN  /\ IsBRepOrSection(r)
               /\ CopiesComponents(r, m, other, mapping)
               /\ r.relations = ImagesOfRelations(other.relations, mapping)
               /\ IsMadeOf(r, m, AllStored(m), other, mapping)
<1> DEFINE r == CopyGeometry(CopyRelationships(
                    CopyComponents(m, other, mapping), other, mapping),
                    other, mapping)
           mapped == {q \in other.relations :
                        {q[1], q[2]} \subseteq DOMAIN mapping}
<1>1. IsModel(m) /\ IsModel(other)
    BY DEF IsBRepOrSection
<1>2. MapsIdentified(other, mapping)
    <2>1. MeshComponents(other) \subseteq AllStored(other)
        BY <1>1, ComponentsAreFinite
    <2>2. QED
        BY <2>1 DEF MapsIdentified, IsVertexOf
<1>3. \A q \in other.relations :
            /\ q[1] \in DOMAIN mapping /\ q[2] \in DOMAIN mapping
            /\ <<other.registered[q[1]], other.registered[q[2]]>>
                    \in RelatedKinds(m.dim, q[3])
    BY <1>1, KindOfRegistered
<1>4. mapped = other.relations
    BY <1>3
<1> HIDE DEF mapped
<1>5. /\ IsModel(r)
      /\ CopiesComponents(r, m, other, mapping)
      /\ r.relations = ImagesOfRelations(mapped, mapping)
      /\ IsMadeOf(r, m, AllStored(m), other, mapping)
    BY <1>1, <1>2, <1>3, ModelCopied DEF mapped
<1> HIDE DEF r
<1>6. IsBRepOrSection(r)
    BY <1>5 DEF IsBRepOrSection, CopiesComponents, ImageOf
<1>7. QED
    BY <1>4, <1>5, <1>6 DEF r

\* The mapping that gives every component itself.
LEMMA CloneMappingMaps ==
    ASSUME NEW m, IsModel(m), NEW d \in {2, 3}
    PROVE  /\ MapsInto(EmptyModel(d), m, CloneMapping(m))
           /\ DOMAIN CloneMapping(m) = AllStored(m)
<1> DEFINE f == CloneMapping(m)
<1>1. AllStored(EmptyModel(d)) = {} /\ AllStored(m) \subseteq Ids
    BY EmptyModelIsModel, ComponentsAreFinite
<1>2. f = [id \in AllStored(m) |-> id]
    BY DEF CloneMapping
<1>3. f \in [DOMAIN f -> Ids \ AllStored(EmptyModel(d))]
    BY <1>1, <1>2
<1>4. QED
    BY <1>2, <1>3 DEF MapsInto, Injection, IsInjective

\* New uuids for the components of a model that fits.
LEMMA FreshMappingMaps ==
    ASSUME NEW m, IsModel(m), NEW other, IsModel(other),
           Cardinality(AllStored(m)) + Cardinality(AllStored(other))
                <= Cardinality(Ids)
    PROVE  LET f == FreshMapping(m, AllStored(other))
           IN  MapsInto(m, other, f) /\ DOMAIN f = AllStored(other)
<1> DEFINE f == FreshMapping(m, AllStored(other))
<1>1. AllStored(other) \subseteq Ids
    BY ComponentsAreFinite
<1>2. f \in Injection(AllStored(other), Ids \ AllStored(m))
    BY <1>1, FreshMappingIsNew
<1> HIDE DEF f
<1>3. DOMAIN f = AllStored(other)
    BY <1>2 DEF Injection
<1>4. QED
    BY <1>2, <1>3 DEF MapsInto, f

\* As many components as there are uuids.
LEMMA CardinalityOfStored ==
    ASSUME NEW m, IsModel(m)
    PROVE  /\ Cardinality(AllStored(m)) \in Nat
           /\ Cardinality(AllStored(m)) <= Cardinality(Ids)
           /\ Cardinality(Ids) \in Nat
<1>1. AllStored(m) \in SUBSET Ids /\ IsFiniteSet(AllStored(m))
    BY ComponentsAreFinite
<1>2. QED
    BY <1>1, IdsAssumption, FS_Subset, FS_CardinalityType
\* The components of one kind that are active, bound nothing and are embedded
\* in nothing.
Unused(m, kind) ==
    {id \in Stored(m, kind) \ m.inactive :
        /\ Targets(m, id, BOUNDARY_RELATION) = {}
        /\ Targets(m, id, INTERNAL_RELATION) = {}}

\* filter_surfaces(), filter_lines(), filter_corners()
LEMMA UnusedRemoved ==
    ASSUME NEW m, IsModel(m), NEW kind \in Kinds
    PROVE  LET r == RemoveUnused(m, kind)
           IN  IsModel(r) /\ KeepsOnly(m, r, AllStored(m) \ Unused(m, kind))
<1> DEFINE ids == Unused(m, kind)
<1>1. ids \subseteq Stored(m, kind)
    BY DEF Unused
<1>2. RemoveUnused(m, kind) = RemoveComponents(m, kind, ids)
    BY DEF RemoveUnused, Unused
<1> HIDE DEF ids
<1>3. /\ IsModel(RemoveComponents(m, kind, ids))
      /\ KeepsOnly(m, RemoveComponents(m, kind, ids), AllStored(m) \ ids)
    BY <1>1, ComponentsRemoved
<1>4. QED
    BY <1>2, <1>3 DEF ids

\* A model some of whose components are left is of its kinds.
LEMMA KeptModel ==
    ASSUME NEW m, IsBRepOrSection(m), NEW r, IsModel(r), NEW S,
           KeepsOnly(m, r, S)
    PROVE  IsBRepOrSection(r)
<1>1. \A k \in Kinds : Stored(r, k) \subseteq Stored(m, k)
    BY StoredAfterKept DEF KeepsOnly, IsBRepOrSection
<1>2. QED
    BY <1>1, KindsKept DEF KeepsOnly

\* filter_surfaces(), filter_lines(), filter_corners() of a BRep or a Section.
LEMMA UnusedRemovedFrom ==
    ASSUME NEW m, IsBRepOrSection(m), NEW kind \in Kinds
    PROVE  /\ IsBRepOrSection(RemoveUnused(m, kind))
           /\ RemoveUnused(m, kind).dim = m.dim
<1> DEFINE r == RemoveUnused(m, kind)
           S == AllStored(m) \ Unused(m, kind)
<1>1. IsModel(r) /\ KeepsOnly(m, r, S)
    BY UnusedRemoved DEF IsBRepOrSection
<1> HIDE DEF r, S
<1>2. IsBRepOrSection(r) /\ r.dim = m.dim
    BY <1>1, KeptModel DEF KeepsOnly
<1>3. QED
    BY <1>2 DEF r

\* delete_isolated_vertices() of a BRep or a Section.
LEMMA IsolatedDeletedFrom ==
    ASSUME NEW m, IsBRepOrSection(m)
    PROVE  LET r == DeleteIsolatedVertices(m)
           IN  IsBRepOrSection(r) /\ r.dim = m.dim
<1> DEFINE r == DeleteIsolatedVertices(m)
<1>1. IsModel(r) /\ DifferInVertices(m, r)
    BY IsolatedDeleted DEF IsBRepOrSection
<1> HIDE DEF r
<1>2. IsBRepOrSection(r) /\ r.dim = m.dim
    BY <1>1, SameKinds DEF DifferInVertices
<1>3. QED
    BY <1>2 DEF r

\* The filters.
LEMMA ModelFiltered ==
    ASSUME NEW m, IsBRepOrSection(m)
    PROVE  IsBRepOrSection(FilteredBRep(m)) /\ IsBRepOrSection(FilteredSection(m))
<1>1. \A n, k : IsBRepOrSection(n) /\ k \in {"Surface", "Line", "Corner"} =>
                IsBRepOrSection(RemoveUnused(n, k))
    BY UnusedRemovedFrom, KindsOfModels
<1>2. \A n : IsBRepOrSection(n) => IsBRepOrSection(DeleteIsolatedVertices(n))
    BY IsolatedDeletedFrom
<1>3. QED
    BY <1>1, <1>2 DEF FilteredBRep, FilteredSection

-----------------------------------------------------------------------------
(* Conversions. *)

\* Which kinds may be related, type by type.
LEMMA KindsRelated ==
    ASSUME NEW d
    PROVE  /\ RelatedKinds(d, BOUNDARY_RELATION)
                = IF d = 3 THEN BRepBoundaryPairs ELSE SectionBoundaryPairs
           /\ RelatedKinds(d, INTERNAL_RELATION)
                = IF d = 3 THEN BRepInternalPairs ELSE SectionInternalPairs
           /\ RelatedKinds(d, ITEM_RELATION)
                = IF d = 3 THEN BRepItemPairs ELSE SectionItemPairs
BY DEF RelatedKinds, BOUNDARY_RELATION, INTERNAL_RELATION, ITEM_RELATION

\* The pairs of kinds that a model has.
LEMMA AmongPairs ==
    ASSUME NEW pairs, NEW k, NEW l
    PROVE  <<k, l>> \in Among(pairs)
                <=> <<k, l>> \in pairs /\ k \in Kinds /\ l \in Kinds
BY DEF Among

\* Corners, lines and surfaces may have the same relations in a BRep and in a
\* Section.
LEMMA SharedKinds ==
    ASSUME NEW d \in {2, 3}, NEW e \in {2, 3},
           NEW k \in {"Corner", "Line", "Surface"},
           NEW l \in {"Corner", "Line", "Surface"},
           NEW type \in RelationTypes, <<k, l>> \in RelatedKinds(d, type)
    PROVE  <<k, l>> \in RelatedKinds(e, type)
<1>1. <<k, l>> \in RelatedKinds(d, type) /\ k \in Kinds /\ l \in Kinds
    BY KindsAssumption
<1>2. CASE type = BOUNDARY_RELATION
    BY <1>1, <1>2, KindsRelated, AmongPairs
       DEF BRepBoundaryPairs, SectionBoundaryPairs
<1>3. CASE type = INTERNAL_RELATION
    BY <1>1, <1>3, KindsRelated, AmongPairs
       DEF BRepInternalPairs, SectionInternalPairs
<1>4. CASE type = ITEM_RELATION
    BY <1>1, <1>4, KindsRelated, AmongPairs
       DEF BRepItemPairs, SectionItemPairs
<1>5. QED
    BY <1>2, <1>3, <1>4 DEF RelationTypes

\* The mapping of a conversion has every component whose vertices are
\* identified.
LEMMA ConversionMappingMaps ==
    ASSUME NEW m, IsBRepOrSection(m), NEW d \in {2, 3}
    PROVE  LET f == ConversionMapping(m)
           IN  /\ MapsInto(EmptyModel(d), m, f)
               /\ DOMAIN f =
                    UNION {Stored(m, k) : k \in {"Corner", "Line", "Surface"}}
               /\ \/ m.dim = 3 /\ BlockVertexIdentified(m)
                  \/ MapsIdentified(m, f)
<1> DEFINE ids == UNION {Stored(m, k) : k \in {"Corner", "Line", "Surface"}}
           f == ConversionMapping(m)
           empty == EmptyModel(m.dim)
<1>1. IsModel(m) /\ StorageHolds(m) /\ m.dim \in {2, 3}
    BY PartsOfModel DEF IsBRepOrSection, StorageHolds
<1>2. /\ IsModel(empty) /\ AllStored(empty) = {}
      /\ AllStored(EmptyModel(d)) = {}
    BY <1>1, EmptyModelIsModel
<1>3. ids \subseteq AllStored(m) /\ AllStored(m) \subseteq Ids
    BY <1>1, KindsAssumption, ComponentsAreFinite DEF AllStored
<1>4. Cardinality(AllStored(empty)) + Cardinality(ids) <= Cardinality(Ids)
    <2>1. IsFiniteSet(Ids) /\ ids \in SUBSET Ids
        BY <1>3, IdsAssumption
    <2> HIDE DEF ids, empty
    <2>2. /\ Cardinality(ids) \in Nat
          /\ Cardinality(ids) <= Cardinality(Ids)
          /\ Cardinality(Ids) \in Nat
        BY <2>1, FS_Subset, FS_CardinalityType
    <2>3. Cardinality(AllStored(empty)) = 0
        BY <1>2, FS_EmptySet
    <2>4. QED
        BY <2>2, <2>3
<1>5. f = FreshMapping(empty, ids)
    BY DEF ConversionMapping
<1> HIDE DEF f, empty
<1>6. f \in Injection(ids, Ids)
    <2> HIDE DEF ids
    <2>1. FreshMapping(empty, ids) \in Injection(ids, Ids \ AllStored(empty))
        BY <1>2, <1>3, <1>4, FreshMappingIsNew
    <2>2. Ids \ AllStored(empty) = Ids
        BY <1>2
    <2>3. QED
        BY <1>5, <2>1, <2>2
<1>7. DOMAIN f = ids
    BY <1>6 DEF Injection
<1>8. MapsInto(EmptyModel(d), m, f)
    <2>1. Ids \ AllStored(EmptyModel(d)) = Ids
        BY <1>2
    <2> HIDE DEF ids
    <2>2. QED
        BY <1>3, <1>6, <1>7, <2>1 DEF MapsInto
<1>9. ASSUME ~(m.dim = 3 /\ BlockVertexIdentified(m)),
             NEW x, IsVertexOf(m, x), UniqueOf(m, x) # NoId
      PROVE  x[2] \in DOMAIN f
    <2> DEFINE c == x[2]
               k == StoredKind(m, c)
               u == UniqueOf(m, x)
    <2>1. c \in MeshComponents(m) /\ MeshComponents(m) \subseteq AllStored(m)
        BY <1>1, <1>9, ComponentsAreFinite DEF IsVertexOf
    <2>2. k \in MeshKinds /\ c \in Stored(m, k)
        BY <1>1, <2>1, KindOfMesh
    <2>3. x[1] = k
        BY <1>9 DEF IsVertexOf
    <2>4. k # "Block"
        <3>1. CASE m.dim = 2
            <4>1. "Block" \in Kinds \ SectionKinds
                BY KindsAssumption DEF SectionKinds
            <4>2. Stored(m, "Block") = {}
                BY <3>1, <4>1 DEF IsBRepOrSection
            <4>3. QED
                BY <2>2, <4>2
        <3>2. CASE m.dim = 3
            <4>1. u \in DOMAIN m.component_vertices
                    /\ x \in m.component_vertices[u]
                BY <1>1, <1>9, ListedVertices
            <4>2. QED
                BY <1>9, <2>3, <3>2, <4>1 DEF BlockVertexIdentified
        <3>3. QED
            BY <1>1, <3>1, <3>2
    <2>5. k \in {"Corner", "Line", "Surface"}
        BY <2>2, <2>4 DEF MeshKinds
    <2> HIDE DEF c, k
    <2>6. c \in ids
        BY <2>2, <2>5
    <2>7. QED
        BY <1>7, <2>6 DEF c
<1>10. QED
    BY <1>7, <1>8, <1>9 DEF MapsIdentified, f

\* A conversion keeps the corners, lines and surfaces of a model.
LEMMA ModelConverted ==
    ASSUME NEW m, IsBRepOrSection(m), NEW d \in {2, 3},
           ~(m.dim = 3 /\ BlockVertexIdentified(m))
    PROVE  LET r == Converted(m, d)
               mapping == ConversionMapping(m)
           IN  /\ IsBRepOrSection(r)
               /\ CopiesComponents(r, EmptyModel(d), m, mapping)
               /\ r.relations = ImagesOfRelations(
                    {q \in m.relations :
                        {q[1], q[2]} \subseteq DOMAIN mapping}, mapping)
               /\ IsMadeOf(r, EmptyModel(d), AllStored(EmptyModel(d)), m, mapping)
<1> DEFINE f == ConversionMapping(m)
           kinds == {"Corner", "Line", "Surface"}
           ids == UNION {Stored(m, k) : k \in kinds}
           empty == EmptyModel(d)
           r == Converted(m, d)
           T == ImagesOfRelations(
                    {q \in m.relations : {q[1], q[2]} \subseteq DOMAIN f}, f)
<1>1. IsModel(m) /\ StorageHolds(m) /\ m.dim \in {2, 3}
    BY PartsOfModel DEF IsBRepOrSection, StorageHolds
<1>2. IsModel(empty) /\ AllStored(empty) = {} /\ empty.dim = d
    BY EmptyModelIsModel
<1>3. MapsInto(empty, m, f) /\ DOMAIN f = ids /\ MapsIdentified(m, f)
    BY ConversionMappingMaps
<1>4. kinds \subseteq Kinds
    BY KindsAssumption
<1>5. ASSUME NEW q \in m.relations, q[1] \in DOMAIN f, q[2] \in DOMAIN f
      PROVE  <<m.registered[q[1]], m.registered[q[2]]>>
                \in RelatedKinds(empty.dim, q[3])
    <2>1. PICK k \in kinds, l \in kinds :
                q[1] \in Stored(m, k) /\ q[2] \in Stored(m, l)
        BY <1>3, <1>5
    <2>2. StoredKind(m, q[1]) = k /\ StoredKind(m, q[2]) = l
        BY <1>1, <1>4, <2>1, KindOfStored
    <2>3. /\ StoredKind(m, q[1]) = m.registered[q[1]]
          /\ StoredKind(m, q[2]) = m.registered[q[2]]
          /\ q[3] \in RelationTypes
          /\ <<m.registered[q[1]], m.registered[q[2]]>>
                \in RelatedKinds(m.dim, q[3])
        BY <1>1, KindOfRegistered
    <2> DEFINE type == q[3]
               D == m.dim
    <2>4. /\ type \in RelationTypes /\ D \in {2, 3}
          /\ <<k, l>> \in RelatedKinds(D, type)
        BY <1>1, <2>2, <2>3
    <2> HIDE DEF type, D
    <2>5. <<k, l>> \in RelatedKinds(d, type)
        BY <2>4, SharedKinds
    <2>6. QED
        BY <1>2, <2>2, <2>3, <2>5 DEF type
<1>6. r = CopyGeometry(CopyRelationships(
                CopyComponents(empty, m, f), m, f), m, f)
    BY DEF Converted
<1> HIDE DEF f, r, empty
<1>7. /\ IsModel(r)
      /\ CopiesComponents(r, empty, m, f)
      /\ r.relations = T
      /\ IsMadeOf(r, empty, AllStored(empty), m, f)
    <2> DEFINE copy == CopyGeometry(CopyRelationships(
                    CopyComponents(empty, m, f), m, f), m, f)
    <2>1. /\ IsModel(copy)
          /\ CopiesComponents(copy, empty, m, f)
          /\ copy.relations = T
          /\ IsMadeOf(copy, empty, AllStored(empty), m, f)
        BY <1>1, <1>2, <1>3, <1>5, ModelCopied
    <2> HIDE DEF copy
    <2>2. QED
        BY <1>6, <2>1 DEF copy
<1>8. \A k \in Kinds \ SectionKinds : Stored(r, k) = {}
    <2>1. ASSUME NEW k \in Kinds \ SectionKinds
          PROVE  Stored(r, k) = {}
        <3>1. Stored(r, k) = Stored(empty, k) \cup ImageOf(f, Stored(m, k))
            BY <1>7 DEF CopiesComponents
        <3>2. Stored(empty, k) = {}
            BY <1>2 DEF AllStored
        <3>3. \A l \in kinds : l \in Kinds /\ l # k
            BY <1>4, KindsOfModels
        <3>4. Stored(m, k) \cap ids = {}
            BY <1>1, <3>3 DEF StorageHolds
        <3>5. ImageOf(f, Stored(m, k)) = {}
            BY <1>3, <3>4 DEF ImageOf
        <3>6. QED
            BY <3>1, <3>2, <3>5
    <2>2. QED
        BY <2>1
<1>9. IsBRepOrSection(r)
    BY <1>7, <1>8 DEF IsBRepOrSection
<1>10. QED
    BY <1>7, <1>9 DEF f, r, empty
\* The copies are as many as the components that are mapped.
LEMMA CopiesAreAsMany ==
    ASSUME NEW m, IsModel(m), AllStored(m) = {}, NEW other, IsModel(other),
           NEW mapping, MapsInto(m, other, mapping),
           NEW r, CopiesComponents(r, m, other, mapping)
    PROVE  Cardinality(AllStored(r)) <= Cardinality(AllStored(other))
<1> DEFINE S == DOMAIN mapping
<1>1. /\ IsFiniteSet(AllStored(other))
      /\ S \in SUBSET AllStored(other)
      /\ mapping \in Injection(S, Ids \ AllStored(m))
    BY ComponentsAreFinite DEF MapsInto
<1> HIDE DEF S
<1>2. /\ Cardinality(S) <= Cardinality(AllStored(other))
      /\ IsFiniteSet(S)
    BY <1>1, FS_Subset
<1>3. mapping \in Bijection(S, Range(mapping))
    BY <1>1, Fun_InjMeansBijImage
<1>4. Cardinality(Range(mapping)) = Cardinality(S)
    BY <1>2, <1>3, FS_Bijection DEF ExistsBijection
<1>5. AllStored(r) = Range(mapping)
    <2>1. \A k \in Kinds : Stored(r, k) = ImageOf(mapping, Stored(other, k))
        <3>1. \A k \in Kinds : Stored(m, k) = {}
            BY DEF AllStored
        <3>2. QED
            BY <3>1 DEF CopiesComponents
    <2>2. AllStored(r) = ImageOf(mapping, AllStored(other))
        BY <2>1 DEF AllStored, ImageOf
    <2>3. QED
        BY <1>1, <2>2 DEF ImageOf, Range, S
<1>6. QED
    BY <1>2, <1>4, <1>5

\* build_model_boundaries()
LEMMA BoundariesBuilt ==
    ASSUME NEW m, IsBRepOrSection(m), m.dim = 2,
           Cardinality(AllStored(m)) < MaxComponents
    PROVE  IsBRepOrSection(WithModelBoundaries(m))
<1> DEFINE lines == {l \in Stored(m, "Line") :
                        /\ Cardinality(Targets(m, l, BOUNDARY_RELATION)) = 1
                        /\ OfKind(Targets(m, l, ITEM_RELATION), "ModelBoundary")
                                = {}}
           new == AddCollectionComponent(m, "ModelBoundary", Fresh(m))
           ready == IF Stored(m, "ModelBoundary") # {} THEN m ELSE new
           boundary == Head(ready.components["ModelBoundary"])
           item == [l \in lines |-> <<<<"Line", l>>,
                        <<"ModelBoundary", boundary>>, ITEM_RELATION>>]
           items == {item[l] : l \in lines}
           r == RelateAll(ready, items)
<1>1. IsModel(m) /\ StorageHolds(m)
    BY PartsOfModel DEF IsBRepOrSection
<1>2. /\ "ModelBoundary" \in Kinds /\ "Line" \in Kinds
      /\ "ModelBoundary" \in SectionKinds
      /\ "ModelBoundary" \notin MeshKinds
    BY KindsOfModels
<1>3. WithModelBoundaries(m) = IF lines = {} THEN m ELSE r
    <2>1. items = {<<<<"Line", l>>, <<"ModelBoundary", boundary>>,
                        ITEM_RELATION>> : l \in lines}
        OBVIOUS
    <2> HIDE DEF items
    <2>2. QED
        BY <2>1 DEF WithModelBoundaries
<1>4. ASSUME Stored(m, "ModelBoundary") = {}
      PROVE  /\ IsModel(new)
             /\ new.dim = 2
             /\ \A k \in Kinds : Stored(new, k) =
                    IF k = "ModelBoundary" THEN Stored(m, k) \cup {Fresh(m)}
                                           ELSE Stored(m, k)
    <2> DEFINE id == Fresh(m)
    <2>1. id \in Ids \ AllStored(m)
        BY <1>1, FreshIsNew
    <2> HIDE DEF id
    <2>2. new = AddComponent(m, "ModelBoundary", id)
        BY <1>2 DEF AddComponent, id
    <2> HIDE DEF new
    <2>3. /\ IsModel(AddComponent(m, "ModelBoundary", id))
          /\ AddComponent(m, "ModelBoundary", id).dim = m.dim
          /\ \A k \in Kinds : Stored(AddComponent(m, "ModelBoundary", id), k) =
                IF k = "ModelBoundary" THEN Stored(m, k) \cup {id}
                                       ELSE Stored(m, k)
        BY <1>1, <1>2, <2>1, ComponentAdded
    <2>4. QED
        BY <2>2, <2>3 DEF id
<1>5. /\ IsModel(ready)
      /\ ready.dim = 2
      /\ Stored(ready, "ModelBoundary") # {}
      /\ Stored(ready, "Line") = Stored(m, "Line")
      /\ \A k \in Kinds \ SectionKinds : Stored(ready, k) = {}
    <2>1. \A k \in Kinds \ SectionKinds : Stored(m, k) = {}
        BY DEF IsBRepOrSection
    <2>2. CASE Stored(m, "ModelBoundary") # {}
        BY <1>1, <2>1, <2>2
    <2>3. CASE Stored(m, "ModelBoundary") = {}
        <3> HIDE DEF new
        <3>1. ready = new
            BY <2>3
        <3> HIDE DEF ready
        <3>2. QED
            BY <1>2, <1>4, <2>1, <2>3, <3>1
    <2>4. QED
        BY <2>2, <2>3
<1> HIDE DEF ready, new
<1>6. boundary \in Stored(ready, "ModelBoundary")
    <2> DEFINE list == ready.components["ModelBoundary"]
    <2>1. list \in Seq(Ids) /\ Stored(ready, "ModelBoundary") = ToSet(list)
        BY <1>2, <1>5, PartsOfModel, StoredLists
    <2> HIDE DEF list
    <2>2. list # <<>>
        BY <1>5, <2>1 DEF ToSet
    <2>3. 1 \in DOMAIN list /\ Head(list) = list[1]
        BY <2>1, <2>2
    <2>4. QED
        BY <2>1, <2>3 DEF ToSet, list
<1>7. IsFiniteSet(items)
    <2>1. lines \in SUBSET AllStored(m)
        BY <1>2 DEF AllStored
    <2>2. IsFiniteSet(lines)
        BY <1>1, <2>1, ComponentsAreFinite, FS_Subset
    <2>3. DOMAIN item = lines
        OBVIOUS
    <2> HIDE DEF item, lines
    <2>4. QED
        BY <2>2, <2>3, ImageIsFinite
<1>8. ASSUME NEW t \in items
      PROVE  MayRelate(ready, t[1], t[2], t[3])
    <2>1. PICK l \in Stored(m, "Line") : t = <<<<"Line", l>>,
                        <<"ModelBoundary", boundary>>, ITEM_RELATION>>
        OBVIOUS
    <2>2. /\ t[1] = <<"Line", l>> /\ t[2] = <<"ModelBoundary", boundary>>
          /\ t[3] = ITEM_RELATION
        BY <2>1
    <2>3. <<"Line", "ModelBoundary">> \in RelatedKinds(2, ITEM_RELATION)
        <3>1. <<"Line", "ModelBoundary">> \in SectionItemPairs
            BY <1>2, AmongPairs DEF SectionItemPairs
        <3>2. QED
            BY <3>1, KindsRelated
    <2> HIDE DEF boundary
    <2>4. QED
        BY <1>2, <1>5, <1>6, <2>2, <2>3 DEF MayRelate, RelationTypes
<1> HIDE DEF items, boundary
<1>9. IsModel(r) /\ DifferInRelations(ready, r)
    BY <1>5, <1>7, <1>8, RelationsAdded
<1> HIDE DEF r
<1>10. IsBRepOrSection(r)
    <2>1. r.dim = 2 /\ r.components = ready.components
        BY <1>5, <1>9 DEF DifferInRelations
    <2>2. IsBRepOrSection(ready)
        BY <1>5 DEF IsBRepOrSection
    <2>3. QED
        BY <1>5, <1>9, <2>1, <2>2, SameKinds
<1>11. QED
    BY <1>3, <1>10

-----------------------------------------------------------------------------
(* The invariant, step by step, and what follows from it. *)

\* Every operation of a program leaves a BRep or a Section.
ModelInvariant == IsBRepOrSection(model)

\* A component may be added whose kind the model has.
LEMMA ComponentAddedTo ==
    ASSUME NEW m, IsBRepOrSection(m), NEW kind \in Kinds,
           m.dim = 3 \/ kind \in SectionKinds,
           NEW id \in Ids \ AllStored(m)
    PROVE  IsBRepOrSection(AddComponent(m, kind, id))
<1> DEFINE r == AddComponent(m, kind, id)
<1>1. /\ IsModel(r)
      /\ r.dim = m.dim
      /\ \A k \in Kinds : Stored(r, k) =
            IF k = kind THEN Stored(m, k) \cup {id} ELSE Stored(m, k)
    BY ComponentAdded DEF IsBRepOrSection
<1> HIDE DEF r
<1>2. r.dim = 2 => \A k \in Kinds \ SectionKinds : Stored(r, k) = {}
    BY <1>1 DEF IsBRepOrSection
<1>3. QED
    BY <1>1, <1>2 DEF IsBRepOrSection, r

\* Two components may be related whose kinds may.
LEMMA RelationAddedTo ==
    ASSUME NEW m, IsBRepOrSection(m), NEW k, NEW l, NEW c, NEW d, NEW type,
           k \in Kinds, l \in Kinds, type \in RelationTypes,
           c \in Stored(m, k), d \in Stored(m, l),
           <<k, l>> \in RelatedKinds(m.dim, type)
    PROVE  IsBRepOrSection(Relate(m, <<k, c>>, <<l, d>>, type))
<1> DEFINE from == <<k, c>>
           to == <<l, d>>
           r == Relate(m, from, to, type)
<1>1. /\ from[1] = k /\ from[2] = c
      /\ to[1] = l /\ to[2] = d
    OBVIOUS
<1> HIDE DEF from, to
<1>2. MayRelate(m, from, to, type)
    BY <1>1 DEF MayRelate
<1>3. IsModel(r) /\ DifferInRelations(m, r)
    BY <1>2, RelationAdded DEF IsBRepOrSection
<1> HIDE DEF r
<1>4. IsBRepOrSection(r)
    BY <1>3, SameKinds DEF DifferInRelations
<1>5. QED
    BY <1>4 DEF r, from, to
\* A model that gets copies of components of the same dimension is still one.
LEMMA KindsCopied ==
    ASSUME NEW m, IsBRepOrSection(m), NEW other, IsBRepOrSection(other),
           other.dim = m.dim, NEW mapping,
           NEW r, IsModel(r), CopiesComponents(r, m, other, mapping)
    PROVE  IsBRepOrSection(r)
<1>1. r.dim = m.dim
    BY DEF CopiesComponents
<1>2. ASSUME NEW k \in Kinds, Stored(m, k) = {}, Stored(other, k) = {}
      PROVE  Stored(r, k) = {}
    BY <1>2 DEF CopiesComponents, ImageOf
<1>3. QED
    BY <1>1, <1>2 DEF IsBRepOrSection

\* What a BRep relates are pairs of its kinds.
LEMMA BRepKindsAreKinds ==
    ASSUME NEW type \in RelationTypes, NEW p \in RelatedKinds(3, type)
    PROVE  p[1] \in Kinds /\ p[2] \in Kinds /\ p = <<p[1], p[2]>>
<1>1. RelatedKinds(3, type) \in
        {BRepBoundaryPairs, BRepInternalPairs, BRepItemPairs}
    BY KindsRelated DEF RelationTypes
<1>2. \A pairs : Among(pairs) \subseteq Kinds \X Kinds
    BY DEF Among
<1>3. p \in Kinds \X Kinds
    BY <1>1, <1>2 DEF BRepBoundaryPairs, BRepInternalPairs, BRepItemPairs
<1>4. QED
    BY <1>3

\* Every step of a BRepBuilder leaves a BRep or a Section.
LEMMA BRepStep ==
    ASSUME ModelInvariant, BRepNext
    PROVE  ModelInvariant'
<1>1. IsBRepOrSection(model) /\ IsModel(model)
    BY DEF ModelInvariant, IsBRepOrSection
<1>2. SUFFICES IsBRepOrSection(model')
    BY DEF ModelInvariant
<1>3. CASE AddBRepComponent
    <2>1. PICK kind \in Kinds : model' = AddComponent(model, kind, Fresh(model))
        BY <1>3 DEF AddBRepComponent
    <2>2. /\ model.dim = 3
          /\ Fresh(model) \in Ids \ AllStored(model)
        BY <1>1, <1>3, FreshIsNew DEF AddBRepComponent
    <2>3. QED
        BY <1>1, <2>1, <2>2, ComponentAddedTo
<1>4. CASE AddBRepComponentWithId
    <2>1. PICK kind \in Kinds, id \in GivenIds :
            \/ id \notin AllStored(model) /\ model' = AddComponent(model, kind, id)
            \/ id \in Stored(model, kind) /\ UNCHANGED model
        BY <1>4 DEF AddBRepComponentWithId
    <2>2. id \in Ids /\ model.dim = 3
        BY <1>4, IdsAssumption DEF AddBRepComponentWithId
    <2>3. CASE id \notin AllStored(model) /\ model' = AddComponent(model, kind, id)
        BY <1>1, <2>2, <2>3, ComponentAddedTo
    <2>4. CASE UNCHANGED model
        BY <1>1, <2>4
    <2>5. QED
        BY <2>1, <2>3, <2>4
<1>5. CASE UpdateBRepMesh
    <2>1. PICK id \in MeshComponents(model), n \in 0 .. MaxMeshVertices :
            model' = UpdateMesh(model, id, n)
        BY <1>5 DEF UpdateBRepMesh
    <2>2. n \in Nat
        BY VerticesAssumption
    <2>3. IsModel(model') /\ DifferInVertices(model, model')
        BY <1>1, <2>1, <2>2, MeshUpdated
    <2>4. QED
        BY <1>1, <2>3, SameKinds DEF DifferInVertices
<1>6. CASE RemoveBRepComponent
    <2>1. PICK kind \in Kinds : \E id \in Stored(model, kind) :
            model' = RemoveComponent(model, kind, id)
        BY <1>6 DEF RemoveBRepComponent
    <2>2. PICK id \in Stored(model, kind) :
            model' = RemoveComponent(model, kind, id)
        BY <2>1
    <2>3. IsModel(model') /\ KeepsOnly(model, model', AllStored(model) \ {id})
        BY <1>1, <2>2, ComponentRemoved
    <2>4. QED
        BY <1>1, <2>3, KeptModel
<1>7. ASSUME NEW type \in RelationTypes,
             NEW p \in RelatedKinds(3, type), NEW c, NEW d,
             model.dim = 3,
             c \in Stored(model, p[1]), d \in Stored(model, p[2]),
             model' = Relate(model, <<p[1], c>>, <<p[2], d>>, type)
      PROVE  IsBRepOrSection(model')
    <2>1. p[1] \in Kinds /\ p[2] \in Kinds /\ p = <<p[1], p[2]>>
        BY <1>7, BRepKindsAreKinds
    <2>2. QED
        BY <1>1, <1>7, <2>1, RelationAddedTo
<1>8. CASE AddBRepBoundary
    <2>1. BRepBoundaryPairs = RelatedKinds(3, BOUNDARY_RELATION)
        BY KindsRelated
    <2>2. BOUNDARY_RELATION \in RelationTypes
        BY DEF RelationTypes
    <2>3. QED
        BY <1>7, <1>8, <2>1, <2>2 DEF AddBRepBoundary, AddBRepRelation
<1>9. CASE AddBRepInternal
    <2>1. BRepInternalPairs = RelatedKinds(3, INTERNAL_RELATION)
        BY KindsRelated
    <2>2. INTERNAL_RELATION \in RelationTypes
        BY DEF RelationTypes
    <2>3. QED
        BY <1>7, <1>9, <2>1, <2>2 DEF AddBRepInternal, AddBRepRelation
<1>10. CASE AddBRepItem
    <2>1. BRepItemPairs = RelatedKinds(3, ITEM_RELATION)
        BY KindsRelated
    <2>2. ITEM_RELATION \in RelationTypes
        BY DEF RelationTypes
    <2>3. QED
        BY <1>7, <1>10, <2>1, <2>2 DEF AddBRepItem, AddBRepRelation
<1>11. CASE CopyIntoBRep
    <2> DEFINE f(other) == FreshMapping(model, AllStored(other))
    <2>1. PICK other \in OtherBReps : model' = CopyOfBRep(model, other, f(other))
        BY <1>11 DEF CopyIntoBRep
    <2>2. model.dim = 3 /\ AllStored(model) = {}
        BY <1>11 DEF CopyIntoBRep
    <2>3. IsBRepOrSection(other) /\ other.dim = 3 /\ IsModel(other)
        BY ModelsAssumption DEF IsBRepOrSection
    <2>4. /\ MapsInto(model, other, f(other))
          /\ DOMAIN f(other) = AllStored(other)
        <3>1. /\ Cardinality(AllStored(model)) = 0
              /\ Cardinality(AllStored(other)) \in Nat
              /\ Cardinality(AllStored(other)) <= Cardinality(Ids)
            BY <2>2, <2>3, FS_EmptySet, CardinalityOfStored
        <3>2. Cardinality(AllStored(model)) + Cardinality(AllStored(other))
                <= Cardinality(Ids)
            BY <3>1
        <3>3. QED
            BY <1>1, <2>3, <3>2, FreshMappingMaps
    <2> HIDE DEF f
    <2>5. QED
        BY <1>1, <2>1, <2>2, <2>3, <2>4, WholeModelCopied DEF CopyOfBRep
<1>12. CASE CloneBRep
    <2>1. model' = CopyOfBRep(EmptyModel(3), model, CloneMapping(model))
        BY <1>12 DEF CloneBRep, CloneOfBRep
    <2>2. /\ IsBRepOrSection(EmptyModel(3))
          /\ EmptyModel(3).dim = model.dim
        BY <1>12, EmptyModelsFit, EmptyModelIsModel DEF CloneBRep
    <2>3. /\ MapsInto(EmptyModel(3), model, CloneMapping(model))
          /\ DOMAIN CloneMapping(model) = AllStored(model)
        BY <1>1, CloneMappingMaps
    <2>4. QED
        BY <1>1, <2>1, <2>2, <2>3, WholeModelCopied DEF CopyOfBRep
<1>13. CASE ConcatenateBRep
    <2> DEFINE f(other) == FreshMapping(model, AllStored(other))
    <2>1. PICK other \in OtherBReps :
            Fits(other) /\ model' = ConcatenatedBRep(model, other, f(other))
        BY <1>13 DEF ConcatenateBRep
    <2>2. model.dim = 3
        BY <1>13 DEF ConcatenateBRep
    <2>3. IsBRepOrSection(other) /\ other.dim = 3 /\ IsModel(other)
        BY ModelsAssumption DEF IsBRepOrSection
    <2>4. MapsInto(model, other, f(other)) /\ DOMAIN f(other) = AllStored(other)
        <3>1. /\ Cardinality(AllStored(model)) \in Nat
              /\ Cardinality(AllStored(other)) \in Nat
              /\ Cardinality(Ids) \in Nat
            BY <1>1, <2>3, CardinalityOfStored
        <3>2. Cardinality(AllStored(model)) + Cardinality(AllStored(other))
                <= Cardinality(Ids)
            BY <2>1, <3>1, IdsAssumption DEF Fits
        <3>3. QED
            BY <1>1, <2>3, <3>2, FreshMappingMaps
    <2> HIDE DEF f
    <2>5. /\ IsModel(model')
          /\ CopiesComponents(model', model, other, f(other))
        BY <1>1, <2>1, <2>2, <2>3, <2>4, ModelConcatenated DEF ConcatenatedBRep
    <2>6. QED
        BY <1>1, <2>2, <2>3, <2>5, KindsCopied
<1>14. CASE ReplaceBRepMeshes
    <2>1. PICK other \in OtherBReps : \E mapping \in MeshMappings(model, other) :
            model' = Transferred(model, other, mapping)
        BY <1>14 DEF ReplaceBRepMeshes
    <2>2. PICK mapping \in MeshMappings(model, other) :
            model' = Transferred(model, other, mapping)
        BY <2>1
    <2>3. IsModel(other)
        BY ModelsAssumption DEF IsBRepOrSection
    <2>4. IsModel(model') /\ DifferInVertices(model, model')
        BY <1>1, <2>2, <2>3, MeshesTransferred
    <2>5. QED
        BY <1>1, <2>4, SameKinds DEF DifferInVertices
<1>15. CASE FilterBRep
    BY <1>1, <1>15, ModelFiltered DEF FilterBRep
<1>16. CASE SaveAndLoadBRep
    <2>1. model' = SavedAndLoaded(model)
        BY <1>16 DEF SaveAndLoadBRep
    <2>2. IsModel(model') /\ DifferInRelations(model, model')
        BY <1>1, <2>1, ModelSavedAndLoaded
    <2>3. QED
        BY <1>1, <2>2, SameKinds DEF DifferInRelations
<1>17. QED
    BY <1>3, <1>4, <1>5, <1>6, <1>8, <1>9, <1>10, <1>11, <1>12, <1>13, <1>14,
       <1>15, <1>16 DEF BRepNext

\* What a Section relates are pairs of its kinds.
LEMMA SectionKindsAreKinds ==
    ASSUME NEW type \in RelationTypes, NEW p \in RelatedKinds(2, type)
    PROVE  p[1] \in Kinds /\ p[2] \in Kinds /\ p = <<p[1], p[2]>>
<1>1. RelatedKinds(2, type) \in
        {SectionBoundaryPairs, SectionInternalPairs, SectionItemPairs}
    BY KindsRelated DEF RelationTypes
<1>2. \A pairs : Among(pairs) \subseteq Kinds \X Kinds
    BY DEF Among
<1>3. p \in Kinds \X Kinds
    BY <1>1, <1>2 DEF SectionBoundaryPairs, SectionInternalPairs, SectionItemPairs
<1>4. QED
    BY <1>3

\* Every step of a SectionBuilder leaves a BRep or a Section.
LEMMA SectionStep ==
    ASSUME ModelInvariant, SectionNext
    PROVE  ModelInvariant'
<1>1. IsBRepOrSection(model) /\ IsModel(model)
    BY DEF ModelInvariant, IsBRepOrSection
<1>2. SUFFICES IsBRepOrSection(model')
    BY DEF ModelInvariant
<1>3. CASE AddSectionComponent
    <2>1. PICK kind \in SectionKinds : model' = AddComponent(model, kind, Fresh(model))
        BY <1>3 DEF AddSectionComponent
    <2>2. /\ model.dim = 2
          /\ Fresh(model) \in Ids \ AllStored(model)
        BY <1>1, <1>3, FreshIsNew DEF AddSectionComponent
    <2>3. QED
        BY <1>1, <2>1, <2>2, ComponentAddedTo, KindsOfModels
<1>4. CASE AddSectionComponentWithId
    <2>1. PICK kind \in SectionKinds, id \in GivenIds :
            \/ id \notin AllStored(model) /\ model' = AddComponent(model, kind, id)
            \/ id \in Stored(model, kind) /\ UNCHANGED model
        BY <1>4 DEF AddSectionComponentWithId
    <2>2. id \in Ids /\ model.dim = 2
        BY <1>4, IdsAssumption DEF AddSectionComponentWithId
    <2>3. CASE id \notin AllStored(model) /\ model' = AddComponent(model, kind, id)
        BY <1>1, <2>2, <2>3, ComponentAddedTo, KindsOfModels
    <2>4. CASE UNCHANGED model
        BY <1>1, <2>4
    <2>5. QED
        BY <2>1, <2>3, <2>4
<1>5. CASE UpdateSectionMesh
    <2>1. PICK id \in MeshComponents(model), n \in 0 .. MaxMeshVertices :
            model' = UpdateMesh(model, id, n)
        BY <1>5 DEF UpdateSectionMesh
    <2>2. n \in Nat
        BY VerticesAssumption
    <2>3. IsModel(model') /\ DifferInVertices(model, model')
        BY <1>1, <2>1, <2>2, MeshUpdated
    <2>4. QED
        BY <1>1, <2>3, SameKinds DEF DifferInVertices
<1>6. CASE RemoveSectionComponent
    <2>1. PICK kind \in SectionKinds : \E id \in Stored(model, kind) :
            model' = RemoveComponent(model, kind, id)
        BY <1>6 DEF RemoveSectionComponent
    <2>2. PICK id \in Stored(model, kind) :
            model' = RemoveComponent(model, kind, id)
        BY <2>1
    <2>3. IsModel(model') /\ KeepsOnly(model, model', AllStored(model) \ {id})
        BY <1>1, <2>2, ComponentRemoved, KindsOfModels
    <2>4. QED
        BY <1>1, <2>3, KeptModel
<1>7. ASSUME NEW type \in RelationTypes,
             NEW p \in RelatedKinds(2, type), NEW c, NEW d,
             model.dim = 2,
             c \in Stored(model, p[1]), d \in Stored(model, p[2]),
             model' = Relate(model, <<p[1], c>>, <<p[2], d>>, type)
      PROVE  IsBRepOrSection(model')
    <2>1. p[1] \in Kinds /\ p[2] \in Kinds /\ p = <<p[1], p[2]>>
        BY <1>7, SectionKindsAreKinds
    <2>2. QED
        BY <1>1, <1>7, <2>1, RelationAddedTo
<1>8. CASE AddSectionBoundary
    <2>1. SectionBoundaryPairs = RelatedKinds(2, BOUNDARY_RELATION)
        BY KindsRelated
    <2>2. BOUNDARY_RELATION \in RelationTypes
        BY DEF RelationTypes
    <2>3. QED
        BY <1>7, <1>8, <2>1, <2>2 DEF AddSectionBoundary, AddSectionRelation
<1>9. CASE AddSectionInternal
    <2>1. SectionInternalPairs = RelatedKinds(2, INTERNAL_RELATION)
        BY KindsRelated
    <2>2. INTERNAL_RELATION \in RelationTypes
        BY DEF RelationTypes
    <2>3. QED
        BY <1>7, <1>9, <2>1, <2>2 DEF AddSectionInternal, AddSectionRelation
<1>10. CASE AddSectionItem
    <2>1. SectionItemPairs = RelatedKinds(2, ITEM_RELATION)
        BY KindsRelated
    <2>2. ITEM_RELATION \in RelationTypes
        BY DEF RelationTypes
    <2>3. QED
        BY <1>7, <1>10, <2>1, <2>2 DEF AddSectionItem, AddSectionRelation
<1>11. CASE CopyIntoSection
    <2> DEFINE f(other) == FreshMapping(model, AllStored(other))
    <2>1. PICK other \in OtherSections : model' = CopyOfSection(model, other, f(other))
        BY <1>11 DEF CopyIntoSection
    <2>2. model.dim = 2 /\ AllStored(model) = {}
        BY <1>11 DEF CopyIntoSection
    <2>3. IsBRepOrSection(other) /\ other.dim = 2 /\ IsModel(other)
        BY ModelsAssumption DEF IsBRepOrSection
    <2>4. /\ MapsInto(model, other, f(other))
          /\ DOMAIN f(other) = AllStored(other)
        <3>1. /\ Cardinality(AllStored(model)) = 0
              /\ Cardinality(AllStored(other)) \in Nat
              /\ Cardinality(AllStored(other)) <= Cardinality(Ids)
            BY <2>2, <2>3, FS_EmptySet, CardinalityOfStored
        <3>2. Cardinality(AllStored(model)) + Cardinality(AllStored(other))
                <= Cardinality(Ids)
            BY <3>1
        <3>3. QED
            BY <1>1, <2>3, <3>2, FreshMappingMaps
    <2> HIDE DEF f
    <2>5. QED
        BY <1>1, <2>1, <2>2, <2>3, <2>4, WholeModelCopied DEF CopyOfSection
<1>12. CASE CloneSection
    <2>1. model' = CopyOfSection(EmptyModel(2), model, CloneMapping(model))
        BY <1>12 DEF CloneSection, CloneOfSection
    <2>2. /\ IsBRepOrSection(EmptyModel(2))
          /\ EmptyModel(2).dim = model.dim
        BY <1>12, EmptyModelsFit, EmptyModelIsModel DEF CloneSection
    <2>3. /\ MapsInto(EmptyModel(2), model, CloneMapping(model))
          /\ DOMAIN CloneMapping(model) = AllStored(model)
        BY <1>1, CloneMappingMaps
    <2>4. QED
        BY <1>1, <2>1, <2>2, <2>3, WholeModelCopied DEF CopyOfSection
<1>13. CASE ConcatenateSection
    <2> DEFINE f(other) == FreshMapping(model, AllStored(other))
    <2>1. PICK other \in OtherSections :
            Fits(other) /\ model' = ConcatenatedSection(model, other, f(other))
        BY <1>13 DEF ConcatenateSection
    <2>2. model.dim = 2
        BY <1>13 DEF ConcatenateSection
    <2>3. IsBRepOrSection(other) /\ other.dim = 2 /\ IsModel(other)
        BY ModelsAssumption DEF IsBRepOrSection
    <2>4. MapsInto(model, other, f(other)) /\ DOMAIN f(other) = AllStored(other)
        <3>1. /\ Cardinality(AllStored(model)) \in Nat
              /\ Cardinality(AllStored(other)) \in Nat
              /\ Cardinality(Ids) \in Nat
            BY <1>1, <2>3, CardinalityOfStored
        <3>2. Cardinality(AllStored(model)) + Cardinality(AllStored(other))
                <= Cardinality(Ids)
            BY <2>1, <3>1, IdsAssumption DEF Fits
        <3>3. QED
            BY <1>1, <2>3, <3>2, FreshMappingMaps
    <2> HIDE DEF f
    <2>5. /\ IsModel(model')
          /\ CopiesComponents(model', model, other, f(other))
        BY <1>1, <2>1, <2>2, <2>3, <2>4, ModelConcatenated DEF ConcatenatedSection
    <2>6. QED
        BY <1>1, <2>2, <2>3, <2>5, KindsCopied
<1>14. CASE ReplaceSectionMeshes
    <2>1. PICK other \in OtherSections : \E mapping \in MeshMappings(model, other) :
            model' = Transferred(model, other, mapping)
        BY <1>14 DEF ReplaceSectionMeshes
    <2>2. PICK mapping \in MeshMappings(model, other) :
            model' = Transferred(model, other, mapping)
        BY <2>1
    <2>3. IsModel(other)
        BY ModelsAssumption DEF IsBRepOrSection
    <2>4. IsModel(model') /\ DifferInVertices(model, model')
        BY <1>1, <2>2, <2>3, MeshesTransferred
    <2>5. QED
        BY <1>1, <2>4, SameKinds DEF DifferInVertices
<1>15. CASE FilterSection
    BY <1>1, <1>15, ModelFiltered DEF FilterSection
<1>16. CASE SaveAndLoadSection
    <2>1. model' = SavedAndLoaded(model)
        BY <1>16 DEF SaveAndLoadSection
    <2>2. IsModel(model') /\ DifferInRelations(model, model')
        BY <1>1, <2>1, ModelSavedAndLoaded
    <2>3. QED
        BY <1>1, <2>2, SameKinds DEF DifferInRelations
<1>17. QED
    BY <1>3, <1>4, <1>5, <1>6, <1>8, <1>9, <1>10, <1>11, <1>12, <1>13, <1>14,
       <1>15, <1>16 DEF SectionNext

\* Every step of a program leaves a BRep or a Section.
LEMMA InvariantIsKept ==
    ASSUME ModelInvariant, [ModelNext]_model
    PROVE  ModelInvariant'
<1>1. IsBRepOrSection(model) /\ IsModel(model)
    BY DEF ModelInvariant, IsBRepOrSection
<1>2. CASE UNCHANGED model
    BY <1>2 DEF ModelInvariant
<1>3. SUFFICES ASSUME ModelNext
               PROVE  IsBRepOrSection(model')
    BY <1>2 DEF ModelInvariant
<1>4. CASE BRepNext
    BY <1>4, BRepStep DEF ModelInvariant
<1>5. CASE SectionNext
    BY <1>5, SectionStep DEF ModelInvariant
<1>6. CASE SetActive
    <2>1. PICK S \in SUBSET AllStored(model) :
            model' = [model EXCEPT !.inactive = S]
        <3>1. PICK id \in AllStored(model) :
                \/ model' = [model EXCEPT !.inactive = @ \cup {id}]
                \/ model' = [model EXCEPT !.inactive = @ \ {id}]
            BY <1>6 DEF SetActive
        <3>2. model.inactive \subseteq AllStored(model)
            BY <1>1, PartsOfModel DEF StorageHolds
        <3> DEFINE more == model.inactive \cup {id}
                   less == model.inactive \ {id}
        <3>3. \/ model' = [model EXCEPT !.inactive = more]
              \/ model' = [model EXCEPT !.inactive = less]
            BY <3>1
        <3>4. more \in SUBSET AllStored(model) /\ less \in SUBSET AllStored(model)
            BY <3>1, <3>2
        <3> HIDE DEF more, less
        <3>5. QED
            BY <3>3, <3>4
    <2>2. IsModel(model')
        BY <1>1, <2>1, FlagsChanged
    <2>3. model'.dim = model.dim /\ model'.components = model.components
        BY <1>1, <2>1, PartsOfModel DEF IsRecord, Fields
    <2>4. QED
        BY <1>1, <2>2, <2>3, SameKinds
<1>7. CASE RemoveRelation
    <2>1. PICK r \in model.relations : model' = Unrelate(model, r[1], r[2])
        BY <1>7 DEF RemoveRelation
    <2>2. IsModel(model')
        BY <1>1, <2>1, RelationRemoved
    <2>3. model'.dim = model.dim /\ model'.components = model.components
        BY <1>1, <2>1, PartsOfModel DEF IsRecord, Fields, Unrelate
    <2>4. QED
        BY <1>1, <2>2, <2>3, SameKinds
<1>8. CASE CreateUniqueVertex
    <2>1. model' = CreateUniqueVertices(model, 1)
        BY <1>8 DEF CreateUniqueVertex
    <2>2. IsModel(model') /\ DifferInVertices(model, model')
        BY <1>1, <2>1, CreatedVertices
    <2>3. QED
        BY <1>1, <2>2, SameKinds DEF DifferInVertices
<1>9. CASE IdentifyVertex
    <2>1. PICK cv \in ComponentVertices(model),
               u \in DOMAIN model.component_vertices :
            model' = SetUniqueVertex(model, cv, u)
        BY <1>9 DEF IdentifyVertex
    <2>2. IsVertexOf(model, cv)
        BY <1>1, <2>1, VerticesAreFinite
    <2>3. IsModel(model') /\ DifferInVertices(model, model')
        BY <1>1, <2>1, <2>2, SetVertex
    <2>4. QED
        BY <1>1, <2>3, SameKinds DEF DifferInVertices
<1>10. CASE SeparateVertex
    <2>1. PICK cv \in ComponentVertices(model) :
            /\ UniqueOf(model, cv) # NoId
            /\ model' = UnsetUniqueVertex(model, cv, UniqueOf(model, cv))
        BY <1>10 DEF SeparateVertex, UniqueOf
    <2>2. IsVertexOf(model, cv)
        BY <1>1, <2>1, VerticesAreFinite
    <2>3. UniqueOf(model, cv) \in DOMAIN model.component_vertices
        BY <1>1, <2>1, <2>2, ListedVertices
    <2>4. IsModel(model') /\ DifferInVertices(model, model')
        BY <1>1, <2>1, <2>2, <2>3, UnsetVertex
    <2>5. QED
        BY <1>1, <2>4, SameKinds DEF DifferInVertices
<1>11. CASE DropIsolatedVertices
    BY <1>1, <1>11, IsolatedDeletedFrom DEF DropIsolatedVertices
<1>12. CASE ConvertIntoSection
    <2>1. /\ model.dim = 3
          /\ Cardinality(AllStored(model)) < MaxComponents
          /\ \/ UNCHANGED model
             \/ /\ ~BlockVertexIdentified(model)
                /\ model' = WithModelBoundaries(Converted(model, 2))
        BY <1>12 DEF ConvertIntoSection
    <2>2. ASSUME ~BlockVertexIdentified(model)
          PROVE  IsBRepOrSection(WithModelBoundaries(Converted(model, 2)))
        <3> DEFINE r == Converted(model, 2)
                   f == ConversionMapping(model)
                   empty == EmptyModel(2)
        <3>1. /\ IsBRepOrSection(r)
              /\ CopiesComponents(r, empty, model, f)
            BY <1>1, <2>2, ModelConverted
        <3>2. /\ IsModel(empty) /\ empty.dim = 2 /\ AllStored(empty) = {}
              /\ MapsInto(empty, model, f)
            BY <1>1, EmptyModelIsModel, ConversionMappingMaps
        <3> HIDE DEF r, f, empty
        <3>3. Cardinality(AllStored(r)) <= Cardinality(AllStored(model))
            BY <1>1, <3>1, <3>2, CopiesAreAsMany
        <3>4. /\ Cardinality(AllStored(r)) \in Nat
              /\ Cardinality(AllStored(model)) \in Nat
            BY <1>1, <3>1, CardinalityOfStored DEF IsBRepOrSection
        <3>5. Cardinality(AllStored(r)) < MaxComponents
            BY <2>1, <3>3, <3>4, IdsAssumption, CardinalityOfStored, <1>1
        <3>6. r.dim = 2
            BY <3>1, <3>2 DEF CopiesComponents
        <3>7. QED
            BY <3>1, <3>5, <3>6, BoundariesBuilt DEF r
    <2>3. QED
        BY <1>1, <2>1, <2>2
<1>13. CASE ConvertIntoBRep
    <2>1. model.dim = 2 /\ model' = Converted(model, 3)
        BY <1>13 DEF ConvertIntoBRep
    <2>2. ~(model.dim = 3 /\ BlockVertexIdentified(model))
        BY <2>1
    <2>3. QED
        BY <1>1, <2>1, <2>2, ModelConverted
<1>14. QED
    BY <1>3, <1>4, <1>5, <1>6, <1>7, <1>8, <1>9, <1>10, <1>11, <1>12, <1>13
       DEF ModelNext

\* What a program builds with the builders is a BRep or a Section, all the parts
\* of which agree: the inductive invariant.
THEOREM ModelsAreValid == ModelSpec => []ModelInvariant
<1>1. ModelInit => ModelInvariant
    BY EmptyModelsFit, ModelsAssumption DEF ModelInit, ModelInvariant
<1>2. ModelInvariant /\ [ModelNext]_model => ModelInvariant'
    BY InvariantIsKept
<1>3. QED
    BY <1>1, <1>2, PTL DEF ModelSpec

\* Whatever operations of the builders a program calls, the storages, the
\* registry, the relationships and the vertex identifier of its model agree on
\* what the components are.
THEOREM PartsOfModelsAgree == ModelSpec => []PartsAgree
<1>1. ModelInvariant => PartsAgree
    BY DEF ModelInvariant, IsBRepOrSection, IsModel, PartsAgree
<1>2. QED
    BY <1>1, ModelsAreValid, PTL

\* The property, of a model and another one that may give meshes to it.
LEMMA IdentificationTransferred ==
    ASSUME NEW m, IsModel(m), NEW other, IsModel(other),
           NEW mapping \in MeshMappings(m, other)
    PROVE  LET result == Transferred(m, other, mapping)
               kept == MeshComponents(m) \ DOMAIN mapping
           IN  /\ Agree(result)
               /\ Identified(result) =
                      Mapped(Identified(m), [id \in kept |-> id])
                      \cup Mapped(Identified(other), AntiFunction(mapping))
<1> DEFINE r == Transferred(m, other, mapping)
           kept == MeshComponents(m) \ DOMAIN mapping
<1>1. IsModel(r) /\ IsMadeOf(r, m, kept, other, AntiFunction(mapping))
    BY MeshesTransferred
<1> HIDE DEF r, kept
<1>2. Identified(r) = Mapped(Identified(m), [id \in kept |-> id])
                        \cup Mapped(Identified(other), AntiFunction(mapping))
    BY <1>1, ClassesTogether
<1>3. QED
    BY <1>1, <1>2 DEF IsModel, r, kept

\* transfer_..._meshes() identifies the vertices of the meshes it brings as they
\* were identified in the model they come from, and changes nothing in the
\* identification of the other vertices, for every model a program builds and
\* every mapping it may be given.
THEOREM TransfersKeepIdentification == ModelSpec => []TransferKeepsIdentification
<1>1. ModelInvariant => TransferKeepsIdentification
    <2>1. SUFFICES ASSUME ModelInvariant,
                          NEW other \in OtherBReps \cup OtherSections,
                          NEW mapping \in MeshMappings(model, other)
                   PROVE  LET result == Transferred(model, other, mapping)
                              kept == MeshComponents(model) \ DOMAIN mapping
                          IN  /\ Agree(result)
                              /\ Identified(result) =
                                    Mapped(Identified(model), [id \in kept |-> id])
                                    \cup Mapped(Identified(other),
                                                AntiFunction(mapping))
        BY DEF TransferKeepsIdentification
    <2>2. IsModel(model) /\ IsModel(other)
        BY <2>1, ModelsAssumption DEF ModelInvariant, IsBRepOrSection
    <2>3. QED
        BY <2>2, IdentificationTransferred
<1>2. QED
    BY <1>1, ModelsAreValid, PTL
-----------------------------------------------------------------------------
(* The ranges of a model. *)

\* What the ranges find: the components at the other end of the relations,
\* looked up as those of one kind, or those that are of one kind.
SourcesLookedUp(m, id, pairs, type) ==
    UNION {LookedUpAs(p[1], Sources(m, id, type)) :
           p \in {q \in pairs : q[2] = StoredKind(m, id)}}
TargetsLookedUp(m, id, pairs, type) ==
    UNION {LookedUpAs(p[2], Targets(m, id, type)) :
           p \in {q \in pairs : q[1] = StoredKind(m, id)}}
SourcesOfKinds(m, id, pairs, type) ==
    UNION {OfKind(Sources(m, id, type), p[1]) :
           p \in {q \in pairs : q[2] = StoredKind(m, id)}}
TargetsOfKinds(m, id, pairs, type) ==
    UNION {OfKind(Targets(m, id, type), p[2]) :
           p \in {q \in pairs : q[1] = StoredKind(m, id)}}

\* What a relation is between, for a range.
LEMMA EndsOfRelation ==
    ASSUME NEW m, IsModel(m), NEW r \in m.relations
    PROVE  LET p == <<StoredKind(m, r[1]), StoredKind(m, r[2])>>
           IN  /\ p \in RelatedKinds(m.dim, r[3])
               /\ m.registered[r[1]] = p[1]
               /\ m.registered[r[2]] = p[2]
               /\ r[1] \in Stored(m, p[1])
               /\ r[2] \in Stored(m, p[2])
BY KindOfRegistered

\* A range that looks components up in the storage of one kind finds what is
\* there, if only components of that kind may be at the other end.
LEMMA SourcesAreFound ==
    ASSUME NEW m, IsModel(m), NEW type, NEW pairs,
           pairs = RelatedKinds(m.dim, type),
           \A p, q \in pairs : p[2] = q[2] => p[1] = q[1]
    PROVE  /\ \A id : \A x \in SourcesLookedUp(m, id, pairs, type) :
                x[2] \in Stored(m, x[1])
           /\ \A r \in m.relations : r[3] = type =>
                <<m.registered[r[1]], r[1]>>
                    \in SourcesLookedUp(m, r[2], pairs, type)
<1>1. ASSUME NEW id, NEW x \in SourcesLookedUp(m, id, pairs, type)
      PROVE  x[2] \in Stored(m, x[1])
    <2>1. PICK p \in pairs : /\ p[2] = StoredKind(m, id)
                             /\ x \in LookedUpAs(p[1], Sources(m, id, type))
        BY <1>1 DEF SourcesLookedUp
    <2>2. PICK r \in m.relations : /\ r[2] = id
                                   /\ r[3] = type
                                   /\ x = <<p[1], r[1]>>
        BY <2>1 DEF LookedUpAs, Sources
    <2> DEFINE q == <<StoredKind(m, r[1]), StoredKind(m, r[2])>>
    <2>3. q \in pairs /\ r[1] \in Stored(m, q[1]) /\ q[2] = StoredKind(m, r[2])
        BY <2>2, EndsOfRelation
    <2> HIDE DEF q
    <2>4. p[1] = q[1]
        BY <2>1, <2>2, <2>3
    <2>5. QED
        BY <2>2, <2>3, <2>4
<1>2. ASSUME NEW r \in m.relations, r[3] = type
      PROVE  <<m.registered[r[1]], r[1]>>
                \in SourcesLookedUp(m, r[2], pairs, type)
    <2> DEFINE q == <<StoredKind(m, r[1]), StoredKind(m, r[2])>>
               y == <<m.registered[r[1]], r[1]>>
    <2>1. /\ q \in pairs
          /\ m.registered[r[1]] = q[1]
          /\ q[2] = StoredKind(m, r[2])
        BY <1>2, EndsOfRelation
    <2>2. y \in Sources(m, r[2], type) /\ y = <<q[1], y[2]>>
        BY <1>2, <2>1 DEF Sources
    <2> HIDE DEF q, y
    <2>3. y \in LookedUpAs(q[1], Sources(m, r[2], type))
        BY <2>2 DEF LookedUpAs
    <2>4. QED
        BY <2>1, <2>3 DEF SourcesLookedUp, y
<1>3. QED
    BY <1>1, <1>2

\* The same for the components that a component bounds.
LEMMA TargetsAreFound ==
    ASSUME NEW m, IsModel(m), NEW type, NEW pairs,
           pairs = RelatedKinds(m.dim, type),
           \A p, q \in pairs : p[1] = q[1] => p[2] = q[2]
    PROVE  /\ \A id : \A x \in TargetsLookedUp(m, id, pairs, type) :
                x[2] \in Stored(m, x[1])
           /\ \A r \in m.relations : r[3] = type =>
                <<m.registered[r[2]], r[2]>>
                    \in TargetsLookedUp(m, r[1], pairs, type)
<1>1. ASSUME NEW id, NEW x \in TargetsLookedUp(m, id, pairs, type)
      PROVE  x[2] \in Stored(m, x[1])
    <2>1. PICK p \in pairs : /\ p[1] = StoredKind(m, id)
                             /\ x \in LookedUpAs(p[2], Targets(m, id, type))
        BY <1>1 DEF TargetsLookedUp
    <2>2. PICK r \in m.relations : /\ r[1] = id
                                   /\ r[3] = type
                                   /\ x = <<p[2], r[2]>>
        BY <2>1 DEF LookedUpAs, Targets
    <2> DEFINE q == <<StoredKind(m, r[1]), StoredKind(m, r[2])>>
    <2>3. q \in pairs /\ r[2] \in Stored(m, q[2]) /\ q[1] = StoredKind(m, r[1])
        BY <2>2, EndsOfRelation
    <2> HIDE DEF q
    <2>4. p[2] = q[2]
        BY <2>1, <2>2, <2>3
    <2>5. QED
        BY <2>2, <2>3, <2>4
<1>2. ASSUME NEW r \in m.relations, r[3] = type
      PROVE  <<m.registered[r[2]], r[2]>>
                \in TargetsLookedUp(m, r[1], pairs, type)
    <2> DEFINE q == <<StoredKind(m, r[1]), StoredKind(m, r[2])>>
               y == <<m.registered[r[2]], r[2]>>
    <2>1. /\ q \in pairs
          /\ m.registered[r[2]] = q[2]
          /\ q[1] = StoredKind(m, r[1])
        BY <1>2, EndsOfRelation
    <2>2. y \in Targets(m, r[1], type) /\ y = <<q[2], y[2]>>
        BY <1>2, <2>1 DEF Targets
    <2> HIDE DEF q, y
    <2>3. y \in LookedUpAs(q[2], Targets(m, r[1], type))
        BY <2>2 DEF LookedUpAs
    <2>4. QED
        BY <2>1, <2>3 DEF TargetsLookedUp, y
<1>3. QED
    BY <1>1, <1>2

\* A range that takes the components of one kind finds what that kind has.
LEMMA KindsAreFound ==
    ASSUME NEW m, IsModel(m), NEW type, NEW pairs,
           pairs = RelatedKinds(m.dim, type)
    PROVE  /\ \A id : \A x \in SourcesOfKinds(m, id, pairs, type)
                            \cup TargetsOfKinds(m, id, pairs, type) :
                x[2] \in Stored(m, x[1])
           /\ \A r \in m.relations : r[3] = type =>
                /\ <<m.registered[r[1]], r[1]>>
                        \in SourcesOfKinds(m, r[2], pairs, type)
                /\ <<m.registered[r[2]], r[2]>>
                        \in TargetsOfKinds(m, r[1], pairs, type)
<1>1. ASSUME NEW id, NEW x \in SourcesOfKinds(m, id, pairs, type)
      PROVE  x[2] \in Stored(m, x[1])
    <2>1. PICK r \in m.relations : x = <<m.registered[r[1]], r[1]>>
        BY <1>1 DEF SourcesOfKinds, OfKind, Sources
    <2>2. QED
        BY <2>1, EndsOfRelation
<1>2. ASSUME NEW id, NEW x \in TargetsOfKinds(m, id, pairs, type)
      PROVE  x[2] \in Stored(m, x[1])
    <2>1. PICK r \in m.relations : x = <<m.registered[r[2]], r[2]>>
        BY <1>2 DEF TargetsOfKinds, OfKind, Targets
    <2>2. QED
        BY <2>1, EndsOfRelation
<1>3. ASSUME NEW r \in m.relations, r[3] = type
      PROVE  /\ <<m.registered[r[1]], r[1]>>
                    \in SourcesOfKinds(m, r[2], pairs, type)
             /\ <<m.registered[r[2]], r[2]>>
                    \in TargetsOfKinds(m, r[1], pairs, type)
    <2> DEFINE q == <<StoredKind(m, r[1]), StoredKind(m, r[2])>>
               y == <<m.registered[r[1]], r[1]>>
               z == <<m.registered[r[2]], r[2]>>
    <2>1. /\ q \in pairs
          /\ q[1] = StoredKind(m, r[1]) /\ q[2] = StoredKind(m, r[2])
          /\ y[1] = q[1] /\ z[1] = q[2]
        BY <1>3, EndsOfRelation
    <2>2. y \in Sources(m, r[2], type) /\ z \in Targets(m, r[1], type)
        BY <1>3 DEF Sources, Targets
    <2> HIDE DEF q, y, z
    <2>3. y \in OfKind(Sources(m, r[2], type), q[1])
        BY <2>1, <2>2 DEF OfKind
    <2>4. z \in OfKind(Targets(m, r[1], type), q[2])
        BY <2>1, <2>2 DEF OfKind
    <2>5. QED
        BY <2>1, <2>3, <2>4 DEF SourcesOfKinds, TargetsOfKinds, y, z
<1>4. QED
    BY <1>1, <1>2, <1>3

\* Only one kind may bound another, or be an item of it.
LEMMA OneKindAtTheOtherEnd ==
    /\ \A p, q \in BRepBoundaryPairs : p[1] = q[1] <=> p[2] = q[2]
    /\ \A p, q \in SectionBoundaryPairs : p[1] = q[1] <=> p[2] = q[2]
    /\ \A p, q \in BRepItemPairs : p[2] = q[2] => p[1] = q[1]
    /\ \A p, q \in SectionItemPairs : p[2] = q[2] => p[1] = q[1]
<1>1. BRepBoundaryPairs \subseteq
        {<<"Corner", "Line">>, <<"Line", "Surface">>, <<"Surface", "Block">>}
    BY DEF BRepBoundaryPairs, Among
<1>2. SectionBoundaryPairs \subseteq
        {<<"Corner", "Line">>, <<"Line", "Surface">>}
    BY DEF SectionBoundaryPairs, Among
<1>3. BRepItemPairs \subseteq
        {<<"Surface", "ModelBoundary">>, <<"Corner", "CornerCollection">>,
         <<"Line", "LineCollection">>, <<"Surface", "SurfaceCollection">>,
         <<"Block", "BlockCollection">>}
    BY DEF BRepItemPairs, Among
<1>4. SectionItemPairs \subseteq
        {<<"Line", "ModelBoundary">>, <<"Corner", "CornerCollection">>,
         <<"Line", "LineCollection">>, <<"Surface", "SurfaceCollection">>}
    BY DEF SectionItemPairs, Among
<1>5. QED
    BY <1>1, <1>2, <1>3, <1>4

\* The ranges of a model are these.
LEMMA RangesOfModel ==
    ASSUME NEW m, IsModel(m)
    PROVE  \E b, i, t :
              /\ b = RelatedKinds(m.dim, BOUNDARY_RELATION)
              /\ i = RelatedKinds(m.dim, INTERNAL_RELATION)
              /\ t = RelatedKinds(m.dim, ITEM_RELATION)
              /\ \A p, q \in b : p[1] = q[1] <=> p[2] = q[2]
              /\ \A p, q \in t : p[2] = q[2] => p[1] = q[1]
              /\ \A id :
                    /\ Boundaries(m, id)
                        = SourcesLookedUp(m, id, b, BOUNDARY_RELATION)
                    /\ Incidences(m, id)
                        = TargetsLookedUp(m, id, b, BOUNDARY_RELATION)
                    /\ Internals(m, id)
                        = SourcesOfKinds(m, id, i, INTERNAL_RELATION)
                    /\ Embeddings(m, id)
                        = TargetsOfKinds(m, id, i, INTERNAL_RELATION)
                    /\ Items(m, id)
                        = SourcesLookedUp(m, id, t, ITEM_RELATION)
<1>1. CASE m.dim = 3
    <2>1. /\ BRepBoundaryPairs = RelatedKinds(m.dim, BOUNDARY_RELATION)
          /\ BRepInternalPairs = RelatedKinds(m.dim, INTERNAL_RELATION)
          /\ BRepItemPairs = RelatedKinds(m.dim, ITEM_RELATION)
        BY <1>1, KindsRelated
    <2>2. \A id :
            /\ Boundaries(m, id) = SourcesLookedUp(m, id, BRepBoundaryPairs,
                                                   BOUNDARY_RELATION)
            /\ Incidences(m, id) = TargetsLookedUp(m, id, BRepBoundaryPairs,
                                                   BOUNDARY_RELATION)
            /\ Internals(m, id) = SourcesOfKinds(m, id, BRepInternalPairs,
                                                 INTERNAL_RELATION)
            /\ Embeddings(m, id) = TargetsOfKinds(m, id, BRepInternalPairs,
                                                  INTERNAL_RELATION)
            /\ Items(m, id) = SourcesLookedUp(m, id, BRepItemPairs,
                                              ITEM_RELATION)
        BY <1>1 DEF Boundaries, Incidences, Internals, Embeddings, Items,
                    BRepBoundaries, BRepIncidences, BRepInternals,
                    BRepEmbeddings, BRepItems, SourcesLookedUp,
                    TargetsLookedUp, SourcesOfKinds, TargetsOfKinds
    <2>3. QED
        BY <2>1, <2>2, OneKindAtTheOtherEnd
<1>2. CASE m.dim # 3
    <2>1. /\ SectionBoundaryPairs = RelatedKinds(m.dim, BOUNDARY_RELATION)
          /\ SectionInternalPairs = RelatedKinds(m.dim, INTERNAL_RELATION)
          /\ SectionItemPairs = RelatedKinds(m.dim, ITEM_RELATION)
        BY <1>2, KindsRelated
    <2>2. \A id :
            /\ Boundaries(m, id) = SourcesLookedUp(m, id, SectionBoundaryPairs,
                                                   BOUNDARY_RELATION)
            /\ Incidences(m, id) = TargetsLookedUp(m, id, SectionBoundaryPairs,
                                                   BOUNDARY_RELATION)
            /\ Internals(m, id) = SourcesOfKinds(m, id, SectionInternalPairs,
                                                 INTERNAL_RELATION)
            /\ Embeddings(m, id) = TargetsOfKinds(m, id, SectionInternalPairs,
                                                  INTERNAL_RELATION)
            /\ Items(m, id) = SourcesLookedUp(m, id, SectionItemPairs,
                                              ITEM_RELATION)
        BY <1>2 DEF Boundaries, Incidences, Internals, Embeddings, Items,
                    SectionBoundaries, SectionIncidences, SectionInternals,
                    SectionEmbeddings, SectionItems, SourcesLookedUp,
                    TargetsLookedUp, SourcesOfKinds, TargetsOfKinds
    <2>3. QED
        BY <2>1, <2>2, OneKindAtTheOtherEnd
<1>3. QED
    BY <1>1, <1>2

\* The ranges of a model around a component only find components that the storage
\* they look them up in holds, and find every relation from its ends, for every
\* model a program builds.
THEOREM RangesFindComponents == ModelSpec => []RangesFindStoredComponents
<1>1. ModelInvariant => RangesFindStoredComponents
    <2> SUFFICES ASSUME ModelInvariant PROVE RangesFindStoredComponents
        OBVIOUS
    <2>1. IsModel(model)
        BY DEF ModelInvariant, IsBRepOrSection
    <2>2. PICK b, i, t :
              /\ b = RelatedKinds(model.dim, BOUNDARY_RELATION)
              /\ i = RelatedKinds(model.dim, INTERNAL_RELATION)
              /\ t = RelatedKinds(model.dim, ITEM_RELATION)
              /\ \A p, q \in b : p[1] = q[1] <=> p[2] = q[2]
              /\ \A p, q \in t : p[2] = q[2] => p[1] = q[1]
              /\ \A id :
                    /\ Boundaries(model, id)
                        = SourcesLookedUp(model, id, b, BOUNDARY_RELATION)
                    /\ Incidences(model, id)
                        = TargetsLookedUp(model, id, b, BOUNDARY_RELATION)
                    /\ Internals(model, id)
                        = SourcesOfKinds(model, id, i, INTERNAL_RELATION)
                    /\ Embeddings(model, id)
                        = TargetsOfKinds(model, id, i, INTERNAL_RELATION)
                    /\ Items(model, id)
                        = SourcesLookedUp(model, id, t, ITEM_RELATION)
        BY <2>1, RangesOfModel
    <2>3. /\ \A id : \A x \in Boundaries(model, id) \cup Incidences(model, id) :
                x[2] \in Stored(model, x[1])
          /\ \A r \in model.relations : r[3] = BOUNDARY_RELATION =>
                /\ <<model.registered[r[1]], r[1]>> \in Boundaries(model, r[2])
                /\ <<model.registered[r[2]], r[2]>> \in Incidences(model, r[1])
        <3>1. /\ \A id : \A x \in Boundaries(model, id) :
                    x[2] \in Stored(model, x[1])
              /\ \A r \in model.relations : r[3] = BOUNDARY_RELATION =>
                    <<model.registered[r[1]], r[1]>> \in Boundaries(model, r[2])
            BY <2>1, <2>2, SourcesAreFound
        <3>2. /\ \A id : \A x \in Incidences(model, id) :
                    x[2] \in Stored(model, x[1])
              /\ \A r \in model.relations : r[3] = BOUNDARY_RELATION =>
                    <<model.registered[r[2]], r[2]>> \in Incidences(model, r[1])
            BY <2>1, <2>2, TargetsAreFound
        <3>3. QED
            BY <3>1, <3>2
    <2>4. /\ \A id : \A x \in Internals(model, id) \cup Embeddings(model, id) :
                x[2] \in Stored(model, x[1])
          /\ \A r \in model.relations : r[3] = INTERNAL_RELATION =>
                /\ <<model.registered[r[1]], r[1]>> \in Internals(model, r[2])
                /\ <<model.registered[r[2]], r[2]>> \in Embeddings(model, r[1])
        BY <2>1, <2>2, KindsAreFound
    <2>5. /\ \A id : \A x \in Items(model, id) : x[2] \in Stored(model, x[1])
          /\ \A r \in model.relations : r[3] = ITEM_RELATION =>
                <<model.registered[r[1]], r[1]>> \in Items(model, r[2])
        BY <2>1, <2>2, SourcesAreFound
    <2>6. \A r \in model.relations :
            r[3] \in {BOUNDARY_RELATION, INTERNAL_RELATION, ITEM_RELATION}
        BY <2>1, KindOfRegistered DEF RelationTypes
    <2>7. QED
        BY <2>3, <2>4, <2>5, <2>6 DEF RangesFindStoredComponents,
           BOUNDARY_RELATION, INTERNAL_RELATION, ITEM_RELATION
<1>2. QED
    BY <1>1, ModelsAreValid, PTL
-----------------------------------------------------------------------------
(* Copies are faithful. *)

\* A class of identified vertices is one of vertices of the model, and is not
\* empty.
LEMMA ClassesOfVertices ==
    ASSUME NEW m, IsModel(m), NEW C \in Identified(m)
    PROVE  /\ C # {}
           /\ \A x \in C : IsVertexOf(m, x)
BY IdentifiedClasses DEF IsClass

\* What is identified in a model is so after a mapping that changes nothing.
LEMMA MappedWhole ==
    ASSUME NEW m, IsModel(m), NEW S, MeshComponents(m) \subseteq S
    PROVE  Mapped(Identified(m), [id \in S |-> id]) = Identified(m)
<1> DEFINE g == [id \in S |-> id]
           image(C) == {<<cv[1], g[cv[2]], cv[3]>> :
                            cv \in {x \in C : x[2] \in DOMAIN g}}
           classes == Identified(m)
<1>1. ASSUME NEW C \in classes
      PROVE  C # {} /\ image(C) = C
    <2>1. /\ C # {}
          /\ \A x \in C : x[2] \in S /\ x = <<x[1], x[2], x[3]>>
        BY <1>1, ClassesOfVertices DEF IsVertexOf
    <2>2. {x \in C : x[2] \in DOMAIN g} = C
        BY <2>1
    <2> DEFINE same(x) == <<x[1], g[x[2]], x[3]>>
    <2>3. \A x \in C : same(x) = x
        BY <2>1
    <2>4. image(C) = {same(x) : x \in C}
        BY <2>2
    <2> HIDE DEF same, image
    <2>5. image(C) = C
        BY <2>3, <2>4
    <2>6. QED
        BY <2>1, <2>5
<1>2. Mapped(classes, g) = {image(C) : C \in classes} \ {{}}
    BY DEF Mapped
<1> HIDE DEF g, image, classes
<1>3. Mapped(classes, g) = classes
    BY <1>1, <1>2
<1>4. QED
    BY <1>3 DEF g, classes

\* Nothing is identified in an empty model.
LEMMA NothingIdentified ==
    ASSUME NEW d \in {2, 3}
    PROVE  Identified(EmptyModel(d)) = {}
<1>1. IsModel(EmptyModel(d)) /\ MeshComponents(EmptyModel(d)) = {}
    BY EmptyModelIsModel, ComponentsAreFinite
<1>2. \A x : ~IsVertexOf(EmptyModel(d), x)
    BY <1>1 DEF IsVertexOf
<1>3. QED
    BY <1>1, <1>2, ClassesOfVertices

\* The relations between components that are mapped, as a copy has them.
KeptRelations(relations, mapping) ==
    {q \in relations : {q[1], q[2]} \subseteq DOMAIN mapping}

\* A model that gets the components of another, those of its relations that
\* are asked for and its vertices extends what it was.
LEMMA CopyExtends ==
    ASSUME NEW m, IsModel(m), NEW other, IsModel(other), NEW r, IsModel(r),
           NEW mapping, CopiesComponents(r, m, other, mapping),
           NEW relations,
           r.relations = m.relations \cup
                ImagesOfRelations(KeptRelations(relations, mapping), mapping),
           IsMadeOf(r, m, AllStored(m), other, mapping)
    PROVE  Extends(r, m, other, mapping, relations)
<1>1. Agree(r)
    BY DEF IsModel
<1>2. \A k \in Kinds : r.components[k] = m.components[k]
            \o Images(Kept(other.components[k], DOMAIN mapping), mapping)
    BY DEF CopiesComponents
<1>3. r.inactive = m.inactive \cup
            {mapping[id] : id \in other.inactive \cap DOMAIN mapping}
    BY DEF CopiesComponents, ImageOf
<1>4. r.relations = m.relations \cup
            {<<mapping[t[1]], mapping[t[2]], t[3]>> :
                t \in {q \in relations : {q[1], q[2]} \subseteq DOMAIN mapping}}
    BY DEF ImagesOfRelations, KeptRelations
<1>5. Identified(r) = Identified(m) \cup Mapped(Identified(other), mapping)
    <2>1. Identified(r) =
                Mapped(Identified(m), [id \in AllStored(m) |-> id])
                    \cup Mapped(Identified(other), mapping)
        BY ClassesTogether
    <2>2. Mapped(Identified(m), [id \in AllStored(m) |-> id]) = Identified(m)
        BY ComponentsAreFinite, MappedWhole
    <2>3. QED
        BY <2>1, <2>2
<1>6. QED
    BY <1>1, <1>2, <1>3, <1>4, <1>5 DEF Extends

\* A copy into an empty model.
LEMMA CopyIsFaithful ==
    ASSUME NEW d \in {2, 3}, NEW other, IsModel(other), NEW r, IsModel(r),
           NEW mapping, CopiesComponents(r, EmptyModel(d), other, mapping),
           r.relations =
                ImagesOfRelations(KeptRelations(other.relations, mapping), mapping),
           IsMadeOf(r, EmptyModel(d), AllStored(EmptyModel(d)), other, mapping)
    PROVE  IsCopy(r, other, mapping)
<1>1. /\ IsModel(EmptyModel(d))
      /\ EmptyModel(d).dim = d
      /\ EmptyModel(d).relations = {}
    BY EmptyModelIsModel
<1>2. r.dim = d
    BY <1>1 DEF CopiesComponents
<1>3. r.relations = EmptyModel(d).relations \cup
            ImagesOfRelations(KeptRelations(other.relations, mapping), mapping)
    BY <1>1
<1>4. Extends(r, EmptyModel(d), other, mapping, other.relations)
    BY <1>1, <1>3, CopyExtends
<1>5. QED
    BY <1>2, <1>4 DEF IsCopy

\* All the relations of a model are between its components.
LEMMA AllRelationsKept ==
    ASSUME NEW m, IsModel(m), NEW relations, relations \subseteq m.relations,
           NEW mapping, DOMAIN mapping = AllStored(m)
    PROVE  KeptRelations(relations, mapping) = relations
<1>1. \A q \in m.relations : q[1] \in AllStored(m) /\ q[2] \in AllStored(m)
    BY KindOfRegistered
<1>2. QED
    BY <1>1 DEF KeptRelations
\* r is the part of m that S keeps, its vertices identified as they were.
KeepsPart(m, r, S) ==
    /\ r.dim = m.dim
    /\ \A k \in Kinds : r.components[k] = Kept(m.components[k], S)
    /\ r.inactive = m.inactive \cap S
    /\ \A q : q \in r.relations <=>
            q \in m.relations /\ q[1] \in S /\ q[2] \in S
    /\ \A x : IsVertexOf(r, x) <=> IsVertexOf(m, x) /\ x[2] \in S
    /\ \A x : IsVertexOf(r, x) =>
            (UniqueOf(r, x) = NoId <=> UniqueOf(m, x) = NoId)
    /\ \A x, y : IsVertexOf(r, x) /\ IsVertexOf(r, y) =>
            (UniqueOf(r, x) = UniqueOf(r, y)
                <=> UniqueOf(m, x) = UniqueOf(m, y))

\* A list that only has elements of S is not changed by the mapping that
\* keeps every element of S.
LEMMA SameImages ==
    ASSUME NEW T, NEW list \in Seq(T), NEW S, ToSet(list) \subseteq S
    PROVE  Images(list, [id \in S |-> id]) = list
<1>1. \A i \in DOMAIN list : list[i] \in S
    BY DEF ToSet
<1>2. list = [i \in DOMAIN list |-> list[i]]
    OBVIOUS
<1>3. QED
    BY <1>1, <1>2 DEF Images

\* Such a part is a copy of what it keeps.
LEMMA KeptPartIsCopy ==
    ASSUME NEW m, IsModel(m), NEW r, IsModel(r), NEW S, KeepsPart(m, r, S)
    PROVE  IsCopy(r, m, [id \in S |-> id])
<1> DEFINE f == [id \in S |-> id]
           empty == EmptyModel(m.dim)
<1>1. /\ StorageHolds(m)
      /\ m.dim \in {2, 3}
    BY PartsOfModel DEF StorageHolds
<1>2. /\ IsModel(empty)
      /\ empty.dim = m.dim
      /\ AllStored(empty) = {}
      /\ empty.inactive = {}
      /\ \A k \in Kinds : empty.components[k] = <<>>
    BY <1>1, EmptyModelIsModel DEF EmptyModel
<1> HIDE DEF empty
<1>3. DOMAIN f = S /\ \A id \in S : f[id] = id
    OBVIOUS
<1>4. CopiesComponents(r, empty, m, f)
    <2>1. ASSUME NEW k \in Kinds
          PROVE  r.components[k] = empty.components[k]
                    \o Images(Kept(m.components[k], DOMAIN f), f)
        <3> DEFINE list == Kept(m.components[k], S)
        <3>1. list \in Seq(Ids) /\ ToSet(list) \subseteq S
            BY <1>1, StoredLists, KeptList
        <3>2. r.components[k] = list
            BY DEF KeepsPart
        <3> HIDE DEF list
        <3>3. Images(list, f) = list
            BY <3>1, SameImages
        <3>4. <<>> \o list = list
            BY <3>1
        <3>5. QED
            BY <1>2, <1>3, <3>2, <3>3, <3>4 DEF list
    <2> HIDE DEF f
    <2>2. \A X : ImageOf(f, X) = X \cap S
        BY <1>3 DEF ImageOf
    <2>3. ASSUME NEW k \in Kinds
          PROVE  Stored(r, k) = Stored(empty, k) \cup ImageOf(f, Stored(m, k))
        <3>1. Stored(r, k) = Stored(m, k) \cap S
            BY StoredAfterKept DEF KeepsPart
        <3>2. Stored(empty, k) = {}
            BY <1>2 DEF AllStored
        <3>3. QED
            BY <2>2, <3>1, <3>2
    <2>4. r.inactive = empty.inactive \cup ImageOf(f, m.inactive)
        BY <1>2, <2>2 DEF KeepsPart
    <2>5. r.dim = empty.dim
        BY <1>2 DEF KeepsPart
    <2>6. QED
        BY <2>1, <2>3, <2>4, <2>5 DEF CopiesComponents
<1> HIDE DEF f
<1>5. r.relations = ImagesOfRelations(KeptRelations(m.relations, f), f)
    <2>1. \A q \in m.relations : q = <<q[1], q[2], q[3]>>
        BY KindOfRegistered
    <2> DEFINE kept == KeptRelations(m.relations, f)
               image(q) == <<f[q[1]], f[q[2]], q[3]>>
    <2>2. \A q : q \in kept <=> q \in r.relations
        BY <1>3 DEF KeepsPart, KeptRelations
    <2>3. \A q \in kept : image(q) = q
        BY <1>3, <2>1 DEF KeptRelations
    <2>4. ImagesOfRelations(kept, f) = {image(q) : q \in kept}
        BY DEF ImagesOfRelations
    <2> HIDE DEF kept, image
    <2>5. ImagesOfRelations(kept, f) = kept
        BY <2>3, <2>4
    <2>6. QED
        BY <2>2, <2>5 DEF kept
<1>6. IsMadeOf(r, empty, AllStored(empty), m, f)
    <2>1. \A y : ~Stays(empty, AllStored(empty), y)
        BY <1>2 DEF Stays
    <2>2. \A x : Comes(m, f, x) => Moved(x, f) = x /\ IsVertexOf(r, x)
        <3>1. ASSUME NEW x, Comes(m, f, x)
              PROVE  Moved(x, f) = x /\ IsVertexOf(r, x)
            <4>1. x[2] \in S /\ IsVertexOf(m, x)
                BY <1>3, <3>1 DEF Comes
            <4>2. x = <<x[1], x[2], x[3]>>
                BY <4>1 DEF IsVertexOf
            <4>3. QED
                BY <1>3, <4>1, <4>2 DEF Moved, KeepsPart
        <3>2. QED
            BY <3>1
    <2>3. \A y : IsVertexOf(r, y) => Comes(m, f, y)
        BY <1>3 DEF KeepsPart, Comes
    <2>4. /\ \A x : IsVertexOf(r, x) =>
                (UniqueOf(r, x) = NoId <=> UniqueOf(m, x) = NoId)
          /\ \A x, y : IsVertexOf(r, x) /\ IsVertexOf(r, y) =>
                (UniqueOf(r, x) = UniqueOf(r, y)
                    <=> UniqueOf(m, x) = UniqueOf(m, y))
        BY DEF KeepsPart
    <2>5. QED
        BY <2>1, <2>2, <2>3, <2>4 DEF IsMadeOf
<1>7. IsCopy(r, m, f)
    BY <1>1, <1>4, <1>5, <1>6, CopyIsFaithful DEF empty
<1>8. QED
    BY <1>7 DEF f
\* A model that is saved and read again is a copy.
LEMMA SavedModelIsCopy ==
    ASSUME NEW m, IsModel(m)
    PROVE  IsCopy(SavedAndLoaded(m), m, CloneMapping(m))
<1> DEFINE r == SavedAndLoaded(m)
           S == AllStored(m)
<1>1. IsModel(r) /\ DifferInRelations(m, r) /\ r.relations = m.relations
    BY ModelSavedAndLoaded
<1> HIDE DEF r
<1>2. StorageHolds(m)
    BY PartsOfModel
<1>3. /\ MeshComponents(r) = MeshComponents(m)
      /\ \A id : StoredKind(r, id) = StoredKind(m, id)
    BY <1>1, SameComponents DEF DifferInRelations
<1>4. \A x : /\ IsVertexOf(r, x) <=> IsVertexOf(m, x)
             /\ UniqueOf(r, x) = UniqueOf(m, x)
    BY <1>1, <1>3 DEF IsVertexOf, UniqueOf, DifferInRelations
<1>5. \A x : IsVertexOf(m, x) => x[2] \in S
    BY ComponentsAreFinite DEF IsVertexOf
<1>6. \A k \in Kinds : r.components[k] = Kept(m.components[k], S)
    <2>1. ASSUME NEW k \in Kinds
          PROVE  r.components[k] = Kept(m.components[k], S)
        <3>1. m.components[k] \in Seq(Ids) /\ ToSet(m.components[k]) \subseteq S
            BY <1>2, StoredLists DEF AllStored, Stored
        <3>2. Kept(m.components[k], S) = m.components[k]
            BY <3>1, KeptWhole
        <3>3. QED
            BY <1>1, <3>2 DEF DifferInRelations
    <2>2. QED
        BY <2>1
<1>7. r.inactive = m.inactive \cap S
    BY <1>1, <1>2 DEF DifferInRelations, StorageHolds
<1>8. \A q \in m.relations : q[1] \in S /\ q[2] \in S
    BY KindOfRegistered
<1>9. KeepsPart(m, r, S)
    BY <1>1, <1>4, <1>5, <1>6, <1>7, <1>8 DEF KeepsPart, DifferInRelations
<1>10. IsCopy(r, m, [id \in S |-> id])
    BY <1>1, <1>9, KeptPartIsCopy
<1>11. QED
    BY <1>10 DEF r, CloneMapping

\* A clone is a copy, in its own dimension.
LEMMA CloneIsCopy ==
    ASSUME NEW m, IsBRepOrSection(m)
    PROVE  /\ m.dim = 3 => IsCopy(CloneOfBRep(m), m, CloneMapping(m))
           /\ m.dim = 2 => IsCopy(CloneOfSection(m), m, CloneMapping(m))
<1> DEFINE empty == EmptyModel(m.dim)
           f == CloneMapping(m)
           r == CopyGeometry(CopyRelationships(
                    CopyComponents(empty, m, f), m, f), m, f)
<1>1. IsModel(m) /\ m.dim \in {2, 3}
    BY PartsOfModel DEF IsBRepOrSection, StorageHolds
<1>2. IsBRepOrSection(empty) /\ m.dim = empty.dim
    BY <1>1, EmptyModelsFit, EmptyModelIsModel
<1>3. MapsInto(empty, m, f) /\ DOMAIN f = AllStored(m)
    BY <1>1, CloneMappingMaps
<1> HIDE DEF f
<1>4. /\ IsBRepOrSection(r)
      /\ CopiesComponents(r, empty, m, f)
      /\ r.relations = ImagesOfRelations(m.relations, f)
      /\ IsMadeOf(r, empty, AllStored(empty), m, f)
    <2> HIDE DEF empty
    <2>1. QED
        BY <1>2, <1>3, WholeModelCopied
<1>5. r = CopyOfBRep(empty, m, f) /\ r = CopyOfSection(empty, m, f)
    BY DEF CopyOfBRep, CopyOfSection
<1> HIDE DEF r
<1>6. KeptRelations(m.relations, f) = m.relations
    BY <1>1, <1>3, AllRelationsKept
<1>7. IsCopy(r, m, f)
    BY <1>1, <1>4, <1>6, CopyIsFaithful DEF IsBRepOrSection
<1>8. QED
    BY <1>5, <1>7 DEF f, CloneOfBRep, CloneOfSection

\* A conversion is a copy of the corners, lines and surfaces.
LEMMA ConversionIsCopy ==
    ASSUME NEW m, IsBRepOrSection(m), ~BlockVertexIdentified(m)
    PROVE  IsCopy(Converted(m, 5 - m.dim), m, ConversionMapping(m))
<1> DEFINE d == 5 - m.dim
           f == ConversionMapping(m)
           r == Converted(m, d)
<1>1. IsModel(m) /\ m.dim \in {2, 3}
    BY PartsOfModel DEF IsBRepOrSection, StorageHolds
<1>2. d \in {2, 3}
    BY <1>1
<1> HIDE DEF d
<1>3. /\ IsBRepOrSection(r)
      /\ CopiesComponents(r, EmptyModel(d), m, f)
      /\ r.relations = ImagesOfRelations(
            {q \in m.relations : {q[1], q[2]} \subseteq DOMAIN f}, f)
      /\ IsMadeOf(r, EmptyModel(d), AllStored(EmptyModel(d)), m, f)
    BY <1>2, ModelConverted
<1> HIDE DEF r, f
<1>4. r.relations = ImagesOfRelations(KeptRelations(m.relations, f), f)
    BY <1>3 DEF KeptRelations
<1>5. IsCopy(r, m, f)
    BY <1>1, <1>2, <1>3, <1>4, CopyIsFaithful DEF IsBRepOrSection
<1>6. QED
    BY <1>5 DEF r, f, d

\* What a model is added to is extended by it.
LEMMA ConcatenationExtends ==
    ASSUME NEW m, IsModel(m), NEW other, IsModel(other), other.dim = m.dim,
           UuidsFor(m, other),
           NEW relations, relations \subseteq other.relations
    PROVE  LET mapping == FreshMapping(m, AllStored(other))
           IN  Extends(Concatenated(m, other, mapping, relations),
                       m, other, mapping, relations)
<1> DEFINE f == FreshMapping(m, AllStored(other))
           r == Concatenated(m, other, f, relations)
<1>1. MapsInto(m, other, f) /\ DOMAIN f = AllStored(other)
    BY FreshMappingMaps DEF UuidsFor
<1> HIDE DEF f
<1>2. /\ IsModel(r)
      /\ CopiesComponents(r, m, other, f)
      /\ r.relations = m.relations \cup ImagesOfRelations(relations, f)
      /\ IsMadeOf(r, m, AllStored(m), other, f)
    BY <1>1, ModelConcatenated
<1> HIDE DEF r
<1>3. KeptRelations(relations, f) = relations
    BY <1>1, AllRelationsKept
<1>4. Extends(r, m, other, f, relations)
    BY <1>2, <1>3, CopyExtends
<1>5. QED
    BY <1>4 DEF r, f

\* clone(), a conversion, ModelConcatener and saving and loading give the
\* components, the relations and the identified vertices of the model they start
\* from, for every model a program builds.
THEOREM CopiesKeepTheModel == ModelSpec => []CopiesAreFaithful
<1>1. ModelInvariant => CopiesAreFaithful
    <2> SUFFICES ASSUME ModelInvariant PROVE CopiesAreFaithful
        OBVIOUS
    <2>1. IsBRepOrSection(model) /\ IsModel(model)
        BY DEF ModelInvariant, IsBRepOrSection
    <2>2. IsCopy(SavedAndLoaded(model), model, CloneMapping(model))
        BY <2>1, SavedModelIsCopy
    <2>3. ~BlockVertexIdentified(model) =>
            IsCopy(Converted(model, 5 - model.dim), model,
                   ConversionMapping(model))
        BY <2>1, ConversionIsCopy
    <2>4. /\ model.dim = 3 =>
                IsCopy(CloneOfBRep(model), model, CloneMapping(model))
          /\ model.dim = 2 =>
                IsCopy(CloneOfSection(model), model, CloneMapping(model))
        BY <2>1, CloneIsCopy
    <2>5. ASSUME model.dim = 3, NEW other \in OtherBReps,
                 UuidsFor(model, other)
          PROVE  LET mapping == FreshMapping(model, AllStored(other))
                 IN  Extends(ConcatenatedBRep(model, other, mapping),
                             model, other, mapping,
                             {r \in other.relations :
                                ConcatenatedBRepRelation(other, r)})
        <3> DEFINE some == {r \in other.relations :
                                ConcatenatedBRepRelation(other, r)}
        <3>1. IsModel(other) /\ other.dim = model.dim
            BY <2>5, ModelsAssumption DEF IsBRepOrSection
        <3>2. some \subseteq other.relations
            OBVIOUS
        <3>3. \A f : ConcatenatedBRep(model, other, f)
                        = Concatenated(model, other, f, some)
            BY DEF ConcatenatedBRep
        <3> HIDE DEF some
        <3>4. LET mapping == FreshMapping(model, AllStored(other))
              IN  Extends(Concatenated(model, other, mapping, some),
                          model, other, mapping, some)
            BY <2>1, <2>5, <3>1, <3>2, ConcatenationExtends
        <3>5. QED
            BY <3>3, <3>4 DEF some
    <2>6. ASSUME model.dim = 2, NEW other \in OtherSections,
                 UuidsFor(model, other)
          PROVE  LET mapping == FreshMapping(model, AllStored(other))
                 IN  Extends(ConcatenatedSection(model, other, mapping),
                             model, other, mapping,
                             {r \in other.relations :
                                ConcatenatedSectionRelation(other, r)})
        <3> DEFINE some == {r \in other.relations :
                                ConcatenatedSectionRelation(other, r)}
        <3>1. IsModel(other) /\ other.dim = model.dim
            BY <2>6, ModelsAssumption DEF IsBRepOrSection
        <3>2. some \subseteq other.relations
            OBVIOUS
        <3>3. \A f : ConcatenatedSection(model, other, f)
                        = Concatenated(model, other, f, some)
            BY DEF ConcatenatedSection
        <3> HIDE DEF some
        <3>4. LET mapping == FreshMapping(model, AllStored(other))
              IN  Extends(Concatenated(model, other, mapping, some),
                          model, other, mapping, some)
            BY <2>1, <2>6, <3>1, <3>2, ConcatenationExtends
        <3>5. QED
            BY <3>3, <3>4 DEF some
    <2>7. QED
        BY <2>2, <2>3, <2>4, <2>5, <2>6 DEF CopiesAreFaithful
<1>2. QED
    BY <1>1, ModelsAreValid, PTL
-----------------------------------------------------------------------------
(* What a filter keeps. *)

\* Of the components in S, those that are not of one kind, are inactive, or
\* are parts of a component in S.
Needed(m, kind, S) ==
    {id \in S : id \in Stored(m, kind) =>
        \/ id \in m.inactive
        \/ \E q \in m.relations :
                q[1] = id /\ q[3] # ITEM_RELATION /\ q[2] \in S}

\* Removing the unused components of one kind from what is left of a model.
LEMMA NextUnusedRemoved ==
    ASSUME NEW m, IsModel(m), NEW S, S \subseteq AllStored(m),
           NEW a, IsModel(a), KeepsOnly(m, a, S), NEW kind \in Kinds
    PROVE  LET r == RemoveUnused(a, kind)
           IN  /\ IsModel(r)
               /\ KeepsOnly(m, r, Needed(m, kind, S))
               /\ Needed(m, kind, S) \subseteq S
<1> DEFINE r == RemoveUnused(a, kind)
           left == AllStored(a) \ Unused(a, kind)
<1>1. IsModel(r) /\ KeepsOnly(a, r, left)
    BY UnusedRemoved
<1>2. KeepsOnly(m, r, S \cap left)
    <2> HIDE DEF r, left
    <2>1. QED
        BY <1>1, KeptFurther
<1>3. S \cap left = Needed(m, kind, S)
    <2>1. /\ AllStored(a) = S
          /\ Stored(a, kind) = Stored(m, kind) \cap S
          /\ a.inactive = m.inactive \cap S
        <3>1. /\ \A k \in Kinds : a.components[k] = Kept(m.components[k], S)
              /\ a.inactive = m.inactive \cap S
            BY DEF KeepsOnly
        <3>2. /\ \A k \in Kinds : Stored(a, k) = Stored(m, k) \cap S
              /\ AllStored(a) = AllStored(m) \cap S
            BY <3>1, StoredAfterKept
        <3>3. QED
            BY <3>1, <3>2
    <2>2. \A q : q \in a.relations <=>
                q \in m.relations /\ q[1] \in S /\ q[2] \in S
        BY DEF KeepsOnly
    <2>3. \A q \in m.relations : q[3] # ITEM_RELATION <=>
                q[3] = BOUNDARY_RELATION \/ q[3] = INTERNAL_RELATION
        <3>1. \A q \in m.relations : q[3] \in RelationTypes
            BY KindOfRegistered
        <3>2. QED
            BY <3>1 DEF RelationTypes, BOUNDARY_RELATION, INTERNAL_RELATION,
                        ITEM_RELATION
    <2>4. \A id, type : Targets(a, id, type) = {} <=>
                ~ \E q \in a.relations : q[1] = id /\ q[3] = type
        BY DEF Targets
    <2>5. ASSUME NEW id \in S
          PROVE  (/\ Targets(a, id, BOUNDARY_RELATION) = {}
                  /\ Targets(a, id, INTERNAL_RELATION) = {})
                    <=> ~ \E q \in m.relations :
                            q[1] = id /\ q[3] # ITEM_RELATION /\ q[2] \in S
        BY <2>2, <2>3, <2>4, <2>5
    <2>6. ASSUME NEW id \in S
          PROVE  id \notin Unused(a, kind) <=> id \in Needed(m, kind, S)
        BY <2>1, <2>5, <2>6 DEF Unused, Needed
    <2>7. QED
        BY <2>1, <2>6 DEF Needed
<1>4. QED
    BY <1>1, <1>2, <1>3 DEF Needed

\* A component only bounds, or is embedded in, one of a higher dimension.
LEMMA PartsAreOfLowerDimension ==
    ASSUME NEW m, IsModel(m), NEW q \in m.relations, q[3] # ITEM_RELATION
    PROVE  \E k, l \in Kinds :
              /\ q[1] \in Stored(m, k) /\ q[2] \in Stored(m, l)
              /\ q[1] \in AllStored(m) /\ q[2] \in AllStored(m)
              /\ <<k, l>> \in {<<"Corner", "Line">>, <<"Corner", "Surface">>,
                               <<"Corner", "Block">>, <<"Line", "Surface">>,
                               <<"Line", "Block">>, <<"Surface", "Block">>}
<1> DEFINE k == m.registered[q[1]]
           l == m.registered[q[2]]
<1>1. /\ q[1] \in Stored(m, k) /\ q[2] \in Stored(m, l)
      /\ q[1] \in AllStored(m) /\ q[2] \in AllStored(m)
      /\ k \in Kinds /\ l \in Kinds
      /\ q[3] \in {BOUNDARY_RELATION, INTERNAL_RELATION}
      /\ <<k, l>> \in RelatedKinds(m.dim, q[3])
    BY KindOfRegistered DEF RelationTypes
<1> HIDE DEF k, l
<1>2. <<k, l>> \in {<<"Corner", "Line">>, <<"Corner", "Surface">>,
                    <<"Corner", "Block">>, <<"Line", "Surface">>,
                    <<"Line", "Block">>, <<"Surface", "Block">>}
    <2>1. \/ <<k, l>> \in BRepBoundaryPairs
          \/ <<k, l>> \in BRepInternalPairs
          \/ <<k, l>> \in SectionBoundaryPairs
          \/ <<k, l>> \in SectionInternalPairs
        BY <1>1, KindsRelated
    <2>2. QED
        BY <2>1 DEF BRepBoundaryPairs, BRepInternalPairs, SectionBoundaryPairs,
                    SectionInternalPairs, Among
<1>3. QED
    BY <1>1, <1>2

\* S has what is in "anchors" and all the parts of what it has.
HasParts(m, S, anchors) ==
    /\ anchors \subseteq S
    /\ \A q \in m.relations :
            q[3] # ITEM_RELATION /\ q[2] \in S => q[1] \in S

\* S has only what is in "anchors" and parts of what it has.
HasOnlyParts(m, S, anchors) ==
    /\ S \subseteq AllStored(m)
    /\ \A id \in S :
            \/ id \in anchors
            \/ \E q \in m.relations :
                    q[1] = id /\ q[3] # ITEM_RELATION /\ q[2] \in S

\* Only the parts of three kinds are looked for, so that three turns find all.
LEMMA PartsInThreeTurns ==
    ASSUME NEW m, IsModel(m), NEW anchors, NEW S,
           \A k \in Kinds \ {"Surface", "Line", "Corner"} :
                Stored(m, k) \subseteq anchors,
           HasParts(m, S, anchors), HasOnlyParts(m, S, anchors)
    PROVE  WithParts(m, WithParts(m, WithParts(m, anchors))) = S
<1> DEFINE W(ids) == WithParts(m, ids)
           one == W(anchors)
           two == W(one)
           three == W(two)
<1>1. \A ids : ids \subseteq S => ids \subseteq W(ids) /\ W(ids) \subseteq S
    BY DEF WithParts, HasParts
<1>2. ASSUME NEW ids, NEW q \in m.relations,
             q[3] # ITEM_RELATION, q[2] \in ids
      PROVE  q[1] \in W(ids)
    BY <1>2 DEF WithParts
<1> HIDE DEF W
<1>3. /\ anchors \subseteq one /\ one \subseteq two /\ two \subseteq three
      /\ three \subseteq S
    <2>1. anchors \subseteq S
        BY DEF HasParts
    <2>2. anchors \subseteq one /\ one \subseteq S
        BY <1>1, <2>1
    <2> HIDE DEF one
    <2>3. one \subseteq two /\ two \subseteq S
        BY <1>1, <2>2
    <2> HIDE DEF two
    <2>4. QED
        BY <1>1, <2>2, <2>3
<1>4. ASSUME NEW id \in S, id \notin anchors
      PROVE  \E q \in m.relations, k \in Kinds, l \in Kinds :
                /\ q[1] = id /\ q[3] # ITEM_RELATION /\ q[2] \in S
                /\ id \in Stored(m, k) /\ q[2] \in Stored(m, l)
                /\ <<k, l>> \in {<<"Corner", "Line">>, <<"Corner", "Surface">>,
                               <<"Corner", "Block">>, <<"Line", "Surface">>,
                               <<"Line", "Block">>, <<"Surface", "Block">>}
    <2>1. PICK q \in m.relations :
            q[1] = id /\ q[3] # ITEM_RELATION /\ q[2] \in S
        BY <1>4 DEF HasOnlyParts
    <2>2. QED
        BY <2>1, PartsAreOfLowerDimension
<1>5. \A id \in S : \A k, l \in Kinds :
            id \in Stored(m, k) /\ id \in Stored(m, l) => k = l
    BY PartsOfModel DEF StorageHolds
<1>6. {"Corner", "Line", "Surface", "Block"} \subseteq Kinds
    BY KindsAssumption
<1> HIDE DEF one, two, three
<1>7. \A id \in S : id \in Stored(m, "Surface") => id \in one
    <2>1. SUFFICES ASSUME NEW id \in S, id \in Stored(m, "Surface"),
                          id \notin anchors
                   PROVE  id \in one
        BY <1>3
    <2>2. PICK q \in m.relations, k \in Kinds, l \in Kinds :
                /\ q[1] = id /\ q[3] # ITEM_RELATION /\ q[2] \in S
                /\ id \in Stored(m, k) /\ q[2] \in Stored(m, l)
                /\ <<k, l>> \in {<<"Corner", "Line">>, <<"Corner", "Surface">>,
                               <<"Corner", "Block">>, <<"Line", "Surface">>,
                               <<"Line", "Block">>, <<"Surface", "Block">>}
        BY <1>4, <2>1
    <2>3. k = "Surface"
        BY <1>5, <1>6, <2>1, <2>2
    <2>4. l = "Block"
        BY <2>2, <2>3
    <2>5. q[2] \in anchors
        BY <1>6, <2>2, <2>4
    <2>6. QED
        BY <1>2, <2>2, <2>5 DEF one
<1>8. \A id \in S : id \in Stored(m, "Line") => id \in two
    <2>1. SUFFICES ASSUME NEW id \in S, id \in Stored(m, "Line"),
                          id \notin anchors
                   PROVE  id \in two
        BY <1>3
    <2>2. PICK q \in m.relations, k \in Kinds, l \in Kinds :
                /\ q[1] = id /\ q[3] # ITEM_RELATION /\ q[2] \in S
                /\ id \in Stored(m, k) /\ q[2] \in Stored(m, l)
                /\ <<k, l>> \in {<<"Corner", "Line">>, <<"Corner", "Surface">>,
                               <<"Corner", "Block">>, <<"Line", "Surface">>,
                               <<"Line", "Block">>, <<"Surface", "Block">>}
        BY <1>4, <2>1
    <2>3. k = "Line"
        BY <1>5, <1>6, <2>1, <2>2
    <2>4. l \in {"Surface", "Block"}
        BY <2>2, <2>3
    <2>5. q[2] \in one
        BY <1>3, <1>6, <1>7, <2>2, <2>4
    <2>6. QED
        BY <1>2, <2>2, <2>5 DEF two
<1>9. \A id \in S : id \in Stored(m, "Corner") => id \in three
    <2>1. SUFFICES ASSUME NEW id \in S, id \in Stored(m, "Corner"),
                          id \notin anchors
                   PROVE  id \in three
        BY <1>3
    <2>2. PICK q \in m.relations, k \in Kinds, l \in Kinds :
                /\ q[1] = id /\ q[3] # ITEM_RELATION /\ q[2] \in S
                /\ id \in Stored(m, k) /\ q[2] \in Stored(m, l)
                /\ <<k, l>> \in {<<"Corner", "Line">>, <<"Corner", "Surface">>,
                               <<"Corner", "Block">>, <<"Line", "Surface">>,
                               <<"Line", "Block">>, <<"Surface", "Block">>}
        BY <1>4, <2>1
    <2>3. k = "Corner"
        BY <1>5, <1>6, <2>1, <2>2
    <2>4. l \in {"Line", "Surface", "Block"}
        BY <2>2, <2>3
    <2>5. q[2] \in two
        BY <1>3, <1>6, <1>7, <1>8, <2>2, <2>4
    <2>6. QED
        BY <1>2, <2>2, <2>5 DEF three
<1>10. S \subseteq three
    <2>1. SUFFICES ASSUME NEW id \in S
                   PROVE  id \in three
        OBVIOUS
    <2>2. PICK k \in Kinds : id \in Stored(m, k)
        BY DEF HasOnlyParts, AllStored
    <2>3. CASE k \notin {"Surface", "Line", "Corner"}
        BY <1>3, <2>2, <2>3
    <2>4. QED
        BY <1>3, <1>7, <1>8, <1>9, <2>2, <2>3
<1>11. three = S
    BY <1>3, <1>10
<1>12. QED
    BY <1>11 DEF three, two, one, W
\* What is left when the surfaces or only the lines and the corners that
\* nothing needs are removed.
LEMMA NeededParts ==
    ASSUME NEW m, IsModel(m), NEW filtered, NEW X,
           \/ /\ filtered = {"Surface", "Line", "Corner"}
              /\ X = Needed(m, "Surface", AllStored(m))
           \/ /\ filtered = {"Line", "Corner"}
              /\ X = AllStored(m)
    PROVE  LET S == Needed(m, "Corner", Needed(m, "Line", X))
               anchors == m.inactive
                            \cup UNION {Stored(m, k) : k \in Kinds \ filtered}
           IN  HasParts(m, S, anchors) /\ HasOnlyParts(m, S, anchors)
<1> DEFINE Y == Needed(m, "Line", X)
           S == Needed(m, "Corner", Y)
           anchors == m.inactive
                        \cup UNION {Stored(m, k) : k \in Kinds \ filtered}
           IsPart(q, id, T) ==
                q[1] = id /\ q[3] # ITEM_RELATION /\ q[2] \in T
<1>1. /\ X \subseteq AllStored(m) /\ Y \subseteq X /\ S \subseteq Y
      /\ \A id \in AllStored(m) :
            id \in X <=> \/ "Surface" \notin filtered
                         \/ id \notin Stored(m, "Surface")
                         \/ id \in m.inactive
                         \/ \E q \in m.relations : IsPart(q, id, AllStored(m))
      /\ \A id \in X :
            id \in Y <=> \/ id \notin Stored(m, "Line")
                         \/ id \in m.inactive
                         \/ \E q \in m.relations : IsPart(q, id, X)
      /\ \A id \in Y :
            id \in S <=> \/ id \notin Stored(m, "Corner")
                         \/ id \in m.inactive
                         \/ \E q \in m.relations : IsPart(q, id, Y)
    <2>1. /\ Y \subseteq X /\ S \subseteq Y
          /\ \A id \in X :
                id \in Y <=> \/ id \notin Stored(m, "Line")
                             \/ id \in m.inactive
                             \/ \E q \in m.relations : IsPart(q, id, X)
          /\ \A id \in Y :
                id \in S <=> \/ id \notin Stored(m, "Corner")
                             \/ id \in m.inactive
                             \/ \E q \in m.relations : IsPart(q, id, Y)
        BY DEF Needed
    <2>2. /\ X \subseteq AllStored(m)
          /\ \A id \in AllStored(m) :
                id \in X <=> \/ "Surface" \notin filtered
                             \/ id \notin Stored(m, "Surface")
                             \/ id \in m.inactive
                             \/ \E q \in m.relations : IsPart(q, id, AllStored(m))
        BY DEF Needed
    <2> HIDE DEF Y, S, anchors, IsPart
    <2>3. QED
        BY <2>1, <2>2
<1>2. /\ m.inactive \subseteq AllStored(m)
      /\ \A id : \A k, l \in Kinds :
            id \in Stored(m, k) /\ id \in Stored(m, l) => k = l
      /\ \A k \in Kinds : Stored(m, k) \subseteq AllStored(m)
    BY PartsOfModel DEF StorageHolds, AllStored
<1>3. /\ {"Corner", "Line", "Surface", "Block"} \subseteq Kinds
      /\ "Line" \in filtered /\ "Corner" \in filtered
      /\ filtered \subseteq {"Surface", "Line", "Corner"}
    BY KindsAssumption
<1>4. \A q \in m.relations : q[3] # ITEM_RELATION =>
            \E k, l \in Kinds :
              /\ q[1] \in Stored(m, k) /\ q[2] \in Stored(m, l)
              /\ q[1] \in AllStored(m) /\ q[2] \in AllStored(m)
              /\ <<k, l>> \in {<<"Corner", "Line">>, <<"Corner", "Surface">>,
                               <<"Corner", "Block">>, <<"Line", "Surface">>,
                               <<"Line", "Block">>, <<"Surface", "Block">>}
    BY PartsAreOfLowerDimension
<1>5. \A id : id \in anchors <=>
            \/ id \in m.inactive
            \/ \E k \in Kinds : k \notin filtered /\ id \in Stored(m, k)
    OBVIOUS
<1> HIDE DEF Y, S, anchors
<1>6. anchors \subseteq S
    <2>1. SUFFICES ASSUME NEW id \in anchors
                   PROVE  id \in S
        OBVIOUS
    <2>2. CASE id \in m.inactive
        BY <1>1, <1>2, <2>2
    <2>3. CASE \E k \in Kinds : k \notin filtered /\ id \in Stored(m, k)
        <3>1. PICK k \in Kinds : k \notin filtered /\ id \in Stored(m, k)
            BY <2>3
        <3>2. /\ id \in AllStored(m)
              /\ id \notin Stored(m, "Line") /\ id \notin Stored(m, "Corner")
              /\ "Surface" \in filtered => id \notin Stored(m, "Surface")
            BY <1>2, <1>3, <3>1
        <3>3. QED
            BY <1>1, <3>2
    <2>4. QED
        BY <1>5, <2>1, <2>2, <2>3
<1>7. ASSUME NEW q \in m.relations, q[3] # ITEM_RELATION, q[2] \in S
      PROVE  q[1] \in S
    <2>1. q[1] \in AllStored(m)
        BY <1>4, <1>7
    <2>2. q[2] \in AllStored(m) /\ q[2] \in X /\ q[2] \in Y
        BY <1>1, <1>7
    <2>3. /\ IsPart(q, q[1], AllStored(m)) /\ IsPart(q, q[1], X)
          /\ IsPart(q, q[1], Y)
        BY <1>7, <2>2
    <2> HIDE DEF IsPart
    <2>4. q[1] \in X
        BY <1>1, <2>1, <2>3
    <2>5. q[1] \in Y
        BY <1>1, <2>3, <2>4
    <2>6. QED
        BY <1>1, <2>3, <2>5
<1>8. ASSUME NEW id \in S, id \notin anchors
      PROVE  \E q \in m.relations : IsPart(q, id, S)
    <2>1. id \in AllStored(m) /\ id \in X /\ id \in Y /\ id \notin m.inactive
        BY <1>1, <1>5, <1>8
    <2>2. PICK k \in Kinds : id \in Stored(m, k)
        BY <2>1 DEF AllStored
    <2>3. k \in filtered
        BY <1>5, <1>8, <2>2
    <2>4. \A q \in m.relations :
                q[1] = id /\ q[3] # ITEM_RELATION =>
                \E l \in Kinds :
                  /\ q[2] \in Stored(m, l)
                  /\ <<k, l>> \in {<<"Corner", "Line">>, <<"Corner", "Surface">>,
                               <<"Corner", "Block">>, <<"Line", "Surface">>,
                               <<"Line", "Block">>, <<"Surface", "Block">>}
        BY <1>2, <1>4, <2>2
    <2>5. CASE k = "Surface"
        <3>1. PICK q \in m.relations : IsPart(q, id, AllStored(m))
            BY <1>1, <2>1, <2>2, <2>3, <2>5
        <3>2. q[2] \in Stored(m, "Block")
            BY <2>4, <2>5, <3>1
        <3>3. q[2] \in anchors
            BY <1>3, <1>5, <3>2
        <3>4. QED
            BY <1>6, <3>1, <3>3
    <2>6. CASE k = "Line"
        <3>1. PICK q \in m.relations : IsPart(q, id, X)
            BY <1>1, <2>1, <2>2, <2>6
        <3>2. q[2] \in Stored(m, "Surface") \/ q[2] \in Stored(m, "Block")
            BY <2>4, <2>6, <3>1
        <3>3. q[2] \notin Stored(m, "Line") /\ q[2] \notin Stored(m, "Corner")
            BY <1>2, <1>3, <3>2
        <3>4. q[2] \in S
            BY <1>1, <3>1, <3>3
        <3>5. QED
            BY <3>1, <3>4
    <2>7. CASE k = "Corner"
        <3>1. PICK q \in m.relations : IsPart(q, id, Y)
            BY <1>1, <2>1, <2>2, <2>7
        <3>2. q[2] \notin Stored(m, "Corner")
            <4>1. PICK l \in {"Line", "Surface", "Block"} : q[2] \in Stored(m, l)
                BY <2>4, <2>7, <3>1
            <4>2. QED
                BY <1>2, <1>3, <4>1
        <3>3. q[2] \in S
            BY <1>1, <3>1, <3>2
        <3>4. QED
            BY <3>1, <3>3
    <2>8. QED
        BY <1>3, <2>3, <2>5, <2>6, <2>7
<1>9. HasParts(m, S, anchors)
    BY <1>6, <1>7 DEF HasParts
<1>10. HasOnlyParts(m, S, anchors)
    BY <1>1, <1>8 DEF HasOnlyParts
<1>11. QED
    BY <1>9, <1>10 DEF S, Y, anchors

\* Once the isolated unique vertices are deleted too, a part of the model is
\* left.
LEMMA PartKept ==
    ASSUME NEW m, IsModel(m), NEW c, IsModel(c), NEW S, KeepsOnly(m, c, S)
    PROVE  LET r == DeleteIsolatedVertices(c)
           IN  IsModel(r) /\ KeepsPart(m, r, S)
<1> DEFINE r == DeleteIsolatedVertices(c)
<1>1. IsModel(r) /\ DifferInVertices(c, r) /\ IdentifiedAlike(c, r)
    BY IsolatedDeleted
<1> HIDE DEF r
<1>2. /\ r.dim = c.dim /\ r.components = c.components
      /\ r.inactive = c.inactive /\ r.relations = c.relations
    BY <1>1 DEF DifferInVertices
<1>3. \A x : IsVertexOf(r, x) <=> IsVertexOf(m, x) /\ x[2] \in S
    BY <1>1 DEF IdentifiedAlike, KeepsOnly
<1>4. \A x : IsVertexOf(r, x) =>
            IsVertexOf(c, x) /\ UniqueOf(c, x) = UniqueOf(m, x)
    BY <1>1 DEF IdentifiedAlike, KeepsOnly
<1>5. /\ \A x : IsVertexOf(c, x) =>
            (UniqueOf(r, x) = NoId <=> UniqueOf(c, x) = NoId)
      /\ \A x, y : IsVertexOf(c, x) /\ IsVertexOf(c, y) =>
            (UniqueOf(r, x) = UniqueOf(r, y)
                <=> UniqueOf(c, x) = UniqueOf(c, y))
    BY <1>1 DEF IdentifiedAlike
<1>6. /\ \A x : IsVertexOf(r, x) =>
            (UniqueOf(r, x) = NoId <=> UniqueOf(m, x) = NoId)
      /\ \A x, y : IsVertexOf(r, x) /\ IsVertexOf(r, y) =>
            (UniqueOf(r, x) = UniqueOf(r, y)
                <=> UniqueOf(m, x) = UniqueOf(m, y))
    BY <1>4, <1>5
<1>7. /\ c.dim = m.dim
      /\ \A k \in Kinds : c.components[k] = Kept(m.components[k], S)
      /\ c.inactive = m.inactive \cap S
      /\ \A q : q \in c.relations <=>
            q \in m.relations /\ q[1] \in S /\ q[2] \in S
    BY DEF KeepsOnly
<1>8. KeepsPart(m, r, S)
    BY <1>2, <1>3, <1>6, <1>7 DEF KeepsPart
<1>9. QED
    BY <1>1, <1>8 DEF r

\* The two filters.
LEMMA FiltersKeepParts ==
    ASSUME NEW m, IsModel(m)
    PROVE  LET X == Needed(m, "Surface", AllStored(m))
               S == Needed(m, "Corner", Needed(m, "Line", X))
               T == Needed(m, "Corner", Needed(m, "Line", AllStored(m)))
           IN  /\ IsModel(FilteredBRep(m)) /\ KeepsPart(m, FilteredBRep(m), S)
               /\ IsModel(FilteredSection(m))
               /\ KeepsPart(m, FilteredSection(m), T)
<1> DEFINE All == AllStored(m)
<1>1. {"Corner", "Line", "Surface"} \subseteq Kinds
    BY KindsAssumption
<1>2. KeepsOnly(m, m, All)
    BY KeepsAll
<1>3. ASSUME NEW a, IsModel(a), NEW X, X \subseteq All, KeepsOnly(m, a, X)
      PROVE  LET r == DeleteIsolatedVertices(
                        RemoveUnused(RemoveUnused(a, "Line"), "Corner"))
                 Z == Needed(m, "Corner", Needed(m, "Line", X))
             IN  IsModel(r) /\ KeepsPart(m, r, Z)
    <2> DEFINE b == RemoveUnused(a, "Line")
               c == RemoveUnused(b, "Corner")
               Y == Needed(m, "Line", X)
               Z == Needed(m, "Corner", Y)
    <2>1. IsModel(b) /\ KeepsOnly(m, b, Y) /\ Y \subseteq X
        BY <1>1, <1>3, NextUnusedRemoved
    <2> HIDE DEF b, Y
    <2>2. Y \subseteq AllStored(m)
        BY <1>3, <2>1
    <2>3. IsModel(c) /\ KeepsOnly(m, c, Z)
        BY <1>1, <2>1, <2>2, NextUnusedRemoved
    <2> HIDE DEF c, Z
    <2>4. IsModel(DeleteIsolatedVertices(c))
            /\ KeepsPart(m, DeleteIsolatedVertices(c), Z)
        BY <2>3, PartKept
    <2>5. QED
        BY <2>4 DEF Z, Y, c, b
<1> DEFINE a == RemoveUnused(m, "Surface")
           X == Needed(m, "Surface", All)
<1>4. IsModel(a) /\ KeepsOnly(m, a, X) /\ X \subseteq All
    BY <1>1, <1>2, NextUnusedRemoved
<1>5. FilteredBRep(m) = DeleteIsolatedVertices(
            RemoveUnused(RemoveUnused(a, "Line"), "Corner"))
    BY DEF FilteredBRep
<1>6. FilteredSection(m) = DeleteIsolatedVertices(
            RemoveUnused(RemoveUnused(m, "Line"), "Corner"))
    BY DEF FilteredSection
<1> HIDE DEF a, X
<1>7. LET Z == Needed(m, "Corner", Needed(m, "Line", X))
      IN  IsModel(FilteredBRep(m)) /\ KeepsPart(m, FilteredBRep(m), Z)
    BY <1>3, <1>4, <1>5
<1>8. LET Z == Needed(m, "Corner", Needed(m, "Line", All))
      IN  IsModel(FilteredSection(m)) /\ KeepsPart(m, FilteredSection(m), Z)
    BY <1>2, <1>3, <1>6
<1>9. QED
    BY <1>7, <1>8 DEF X

\* filter_..._components_with_regards_to_...() keeps exactly the components that
\* are needed, as they were, for every model a program builds.
THEOREM FiltersKeepWhatIsUsed == ModelSpec => []FilterKeepsWhatIsUsed
<1>1. ModelInvariant => FilterKeepsWhatIsUsed
    <2> SUFFICES ASSUME ModelInvariant PROVE FilterKeepsWhatIsUsed
        OBVIOUS
    <2> DEFINE result == IF model.dim = 3 THEN FilteredBRep(model)
                                          ELSE FilteredSection(model)
               filtered == IF model.dim = 3 THEN {"Surface", "Line", "Corner"}
                                            ELSE {"Line", "Corner"}
               anchors == model.inactive
                    \cup UNION {Stored(model, k) : k \in Kinds \ filtered}
               used == WithParts(model, WithParts(model,
                            WithParts(model, anchors)))
               X == IF model.dim = 3
                    THEN Needed(model, "Surface", AllStored(model))
                    ELSE AllStored(model)
               S == Needed(model, "Corner", Needed(model, "Line", X))
    <2>1. IsModel(model)
        BY DEF ModelInvariant, IsBRepOrSection
    <2>2. IsModel(result) /\ KeepsPart(model, result, S)
        BY <2>1, FiltersKeepParts
    <2>3. HasParts(model, S, anchors) /\ HasOnlyParts(model, S, anchors)
        <3>1. \/ /\ filtered = {"Surface", "Line", "Corner"}
                 /\ X = Needed(model, "Surface", AllStored(model))
              \/ /\ filtered = {"Line", "Corner"}
                 /\ X = AllStored(model)
            OBVIOUS
        <3> HIDE DEF filtered, X
        <3>2. QED
            BY <2>1, <3>1, NeededParts
    <2>4. \A k \in Kinds \ {"Surface", "Line", "Corner"} :
                Stored(model, k) \subseteq anchors
        OBVIOUS
    <2> HIDE DEF anchors, S, result
    <2>5. used = S
        BY <2>1, <2>3, <2>4, PartsInThreeTurns
    <2>6. IsCopy(result, model, [id \in S |-> id])
        BY <2>1, <2>2, KeptPartIsCopy
    <2> HIDE DEF used
    <2>7. IsCopy(result, model, [id \in used |-> id])
        BY <2>5, <2>6
    <2>8. QED
        BY <2>7 DEF FilterKeepsWhatIsUsed, result, used, anchors, filtered
<1>2. QED
    BY <1>1, ModelsAreValid, PTL
=============================================================================
