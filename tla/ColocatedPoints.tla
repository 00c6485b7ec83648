--------------------------- MODULE ColocatedPoints ---------------------------
(***************************************************************************)
(* What NNSearch::colocated_index_mapping() promises of the points it is   *)
(* given: points are picked in some order, and each takes with it every    *)
(* point near it that none has taken before.  A point is the index of its  *)
(* coordinates; a point whose coordinates are not numbers is near nothing, *)
(* not even itself.                                                        *)
(***************************************************************************)
EXTENDS Integers

CONSTANT Points  \* indices

VARIABLES
    near,     \* the pairs of points that are within epsilon
    mapping,  \* per point, the one that took it, or NoPoint
    mapped    \* the computation has ended

vars == <<near, mapping, mapped>>

NoPoint == -1

\* The distances that the search can meet: the same both ways, and a point
\* near another one is a point.
Proximities ==
    {n \in SUBSET (Points \X Points) :
        \A p, q \in Points :
            <<p, q>> \in n => <<q, p>> \in n /\ <<p, p>> \in n}

Init ==
    /\ near \in Proximities
    /\ mapping = [p \in Points |-> NoPoint]
    /\ mapped = FALSE

\* p represents itself and every point near it that has no representative.
Represent(p) ==
    /\ ~ mapped
    /\ mapping[p] = NoPoint
    /\ mapping' = [q \in Points |->
                      IF mapping[q] = NoPoint /\ <<p, q>> \in near
                      THEN p ELSE mapping[q]]
    /\ UNCHANGED <<near, mapped>>

\* Nothing is left to represent.
Finish ==
    /\ ~ mapped
    /\ \A p \in Points : <<p, p>> \in near => mapping[p] # NoPoint
    /\ mapped' = TRUE
    /\ UNCHANGED <<near, mapping>>

Next == Finish \/ \E p \in Points : Represent(p)

Spec == Init /\ [][Next]_vars
=============================================================================
