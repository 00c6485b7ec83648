-------------------------- MODULE ColocatedMapping --------------------------
(***************************************************************************)
(* NNSearch::colocated_index_mapping(): which points are the same within   *)
(* epsilon, computed by one task per point in async::parallel_for.         *)
(*                                                                         *)
(* A task leaves when its point has a representative, which it reads       *)
(* without the lock while others write: the read may be older than the     *)
(* last write.  Otherwise it searches the neighbors of its point, takes    *)
(* the lock, tests again and takes the neighbors that nobody took, one     *)
(* after the other.  After the last task the caller alone renumbers the    *)
(* points that represent themselves, or throws when a point has none.      *)
(***************************************************************************)
EXTENDS Renumbering

CONSTANT NbPoints

ASSUME NbPointsAssumption == NbPoints \in Nat

Points == 0 .. NbPoints - 1

VARIABLES
    near,       \* the pairs of points that neighbors() finds within epsilon
    mapping,    \* per point, its representative or NoId
    mutex,      \* the task that holds it, or NoId
    pc,         \* where each task is
    neighbors,  \* per task, the neighbors it has not looked at
    result      \* ColocatedInfo once computed, or why there is none

mappingVars == <<near, mapping, mutex, pc, neighbors, result>>

NoResult == [outcome |-> "none"]
Thrown == [outcome |-> "thrown"]

Goto(p, label) == pc' = [pc EXCEPT ![p] = label]

Near(p) == {q \in Points : <<p, q>> \in near}

\* The mapping as if each task did its loop at once, when it unlocks.
Published ==
    [p \in Points |->
        IF mapping[p] # NoId /\ mapping[p] = mutex /\ pc[mutex] = "take"
        THEN NoId ELSE mapping[p]]

Colocated == INSTANCE ColocatedPoints
    WITH mapping <- Published, mapped <- result # NoResult

-----------------------------------------------------------------------------
MappingInit ==
    /\ near \in Colocated!Proximities
    /\ mapping = [p \in Points |-> NoId]
    /\ mutex = NoId
    /\ pc = [p \in Points |-> "test"]
    /\ neighbors = [p \in Points |-> {}]
    /\ result = NoResult

\* if( mapping[point_id] != NO_ID ) return; without the lock
Skip(p) ==
    /\ pc[p] = "test"
    /\ mapping[p] # NoId
    /\ Goto(p, "done")
    /\ UNCHANGED <<near, mapping, mutex, neighbors, result>>

\* The read gave NO_ID, which may be no longer true: the task searches.
Search(p) ==
    /\ pc[p] = "test"
    /\ neighbors' = [neighbors EXCEPT ![p] = Near(p)]
    /\ Goto(p, "lock")
    /\ UNCHANGED <<near, mapping, mutex, result>>

\* std::lock_guard< std::mutex > lock( mutex )
Lock(p) ==
    /\ pc[p] = "lock"
    /\ mutex = NoId
    /\ mutex' = p
    /\ Goto(p, "recheck")
    /\ UNCHANGED <<near, mapping, neighbors, result>>

\* Mutant: the point is not tested again under the lock.
TakeUnchecked(p) ==
    /\ pc[p] = "recheck"
    /\ Goto(p, "take")
    /\ UNCHANGED <<near, mapping, mutex, neighbors, result>>

\* Mutant: the early return keeps the mutex locked.
ReturnLocked(p) ==
    /\ pc[p] = "recheck"
    /\ Goto(p, IF mapping[p] # NoId THEN "done" ELSE "take")
    /\ UNCHANGED <<near, mapping, mutex, neighbors, result>>

\* if( mapping[point_id] != NO_ID ), under the lock
Recheck(p) ==
    /\ pc[p] = "recheck"
    /\ Goto(p, IF mapping[p] # NoId THEN "unlock" ELSE "take")
    /\ UNCHANGED <<near, mapping, mutex, neighbors, result>>

\* Mutant: a neighbor that has a representative gets another.
TakeAgain(p) ==
    /\ pc[p] = "take"
    /\ \E q \in neighbors[p] :
        /\ mapping' = [mapping EXCEPT ![q] = p]
        /\ neighbors' = [neighbors EXCEPT ![p] = @ \ {q}]
    /\ UNCHANGED <<near, mutex, pc, result>>

\* One turn of the loop over the neighbors, which come in any order.
Take(p) ==
    /\ pc[p] = "take"
    /\ \E q \in neighbors[p] :
        /\ mapping' = [mapping EXCEPT ![q] = IF @ = NoId THEN p ELSE @]
        /\ neighbors' = [neighbors EXCEPT ![p] = @ \ {q}]
    /\ UNCHANGED <<near, mutex, pc, result>>

\* The loop ends.
Taken(p) ==
    /\ pc[p] = "take"
    /\ neighbors[p] = {}
    /\ Goto(p, "unlock")
    /\ UNCHANGED <<near, mapping, mutex, neighbors, result>>

\* The lock goes out of scope.
Unlock(p) ==
    /\ pc[p] = "unlock"
    /\ mutex' = NoId
    /\ Goto(p, "done")
    /\ UNCHANGED <<near, mapping, neighbors, result>>

Task(p) ==
    Skip(p) \/ Search(p) \/ Lock(p) \/ Recheck(p) \/ Take(p) \/ Taken(p)
        \/ Unlock(p)

-----------------------------------------------------------------------------
Unique(f) == {p \in Points : f[p] = p}

\* Mutant: the mapping is not composed with the renumbering.
InfoOfRepresentatives(f) ==
    [outcome |-> "computed",
     colocated_input_points |-> f,
     unique_points |->
        DeleteElements([p \in Points |-> p], Points \ Unique(f)),
     colocated_mapping |-> f]

\* The points that represent themselves are compacted, and the mapping of
\* every point is sent through old2new.
Info(f) ==
    LET deleted == Points \ Unique(f)
        old2new == MappingAfterDeletion(NbPoints, deleted)
    IN  [outcome |-> "computed",
         colocated_input_points |-> f,
         unique_points |-> DeleteElements([p \in Points |-> p], deleted),
         colocated_mapping |-> [p \in Points |-> old2new[f[p]]]]

\* parallel_for returns and the caller collects the result.
Collect ==
    /\ \A p \in Points : pc[p] = "done"
    /\ result = NoResult
    /\ result' = IF \E p \in Points : mapping[p] = NoId
                 THEN Thrown ELSE Info(mapping)
    /\ UNCHANGED <<near, mapping, mutex, pc, neighbors>>

MappingNext == Collect \/ \E p \in Points : Task(p)

MappingSpec == MappingInit /\ [][MappingNext]_mappingVars

\* Threads run; a task takes the lock once, so the others cannot keep it from
\* a waiting task for ever.
Fairness == WF_mappingVars(Collect) /\ \A p \in Points : WF_mappingVars(Task(p))

FairSpec == MappingSpec /\ Fairness

-----------------------------------------------------------------------------
MappingTypeOK ==
    /\ near \in SUBSET (Points \X Points)
    /\ mapping \in [Points -> Points \cup {NoId}]
    /\ mutex \in Points \cup {NoId}
    /\ pc \in [Points -> {"test", "lock", "recheck", "take", "unlock", "done"}]
    /\ neighbors \in [Points -> SUBSET Points]
    /\ result.outcome \in {"none", "thrown", "computed"}

\* Outside of the loop of a task, a representative represents itself and is
\* near the points it represents, and two representatives are never near each
\* other: whatever task came first, and whatever the others read before it.
RepresentativesStandApart ==
    mutex = NoId =>
        \A p, q \in Points :
            /\ mapping[p] # NoId =>
                /\ mapping[mapping[p]] = mapping[p]
                /\ <<mapping[p], p>> \in near
            /\ p \in Unique(mapping) /\ q \in Unique(mapping) /\ p # q =>
                <<p, q>> \notin near

\* The result sends every point to a unique point near it, the unique points
\* are distinct and each is its own image; there is none if and only if a
\* point is not near itself (a coordinate that is not a number).
ResultIsSound ==
    /\ result.outcome = "thrown" => \E p \in Points : <<p, p>> \notin near
    /\ result.outcome = "computed" =>
        \A p \in Points :
            LET index == result.colocated_mapping[p]
            IN  /\ index \in DOMAIN result.unique_points
                /\ <<result.unique_points[index], p>> \in near
                /\ result.unique_points[index]
                    = result.colocated_input_points[p]

\* Each task does at most one step of the sequential algorithm.
ImplementsColocatedPoints == Colocated!Spec

\* The call returns or throws.
Terminates == <>(result # NoResult)
=============================================================================
