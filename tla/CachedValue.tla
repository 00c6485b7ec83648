----------------------------- MODULE CachedValue -----------------------------
(***************************************************************************)
(* geode::CachedValue: a value computed on demand by const methods, hence  *)
(* by several threads at a time, and forgotten by reset().                 *)
(*                                                                         *)
(* operator() tests the atomic flag computed_, locks mutex_ and tests it   *)
(* again before it computes.  It returns a reference: the caller reads     *)
(* value_ long after the call.  The assignment of value_ is not atomic,    *)
(* so it is two steps here, with Torn in between.  What the computer       *)
(* reads changes only through a builder, which needs the object for itself *)
(* and calls reset().                                                      *)
(***************************************************************************)
EXTENDS Naturals

CONSTANTS
    Threads,          \* the threads that call operator()
    Arguments,        \* what they may pass to the computer
    Sources,          \* the states of what the computer reads
    Result(_, _),     \* computer(argument) in a state of the source
    NoThread, Torn

ASSUME ThreadAssumption == NoThread \notin Threads
ASSUME TornAssumption == \A s \in Sources, a \in Arguments : Result(s, a) # Torn

VARIABLES
    source,    \* what the computer reads
    value,     \* value_
    computed,  \* computed_
    mutex,     \* mutex_: the thread that holds it, or NoThread
    pc,        \* where each thread is
    argument   \* per thread, the argument of its last call

vars == <<source, value, computed, mutex, pc, argument>>

Values == {Result(s, a) : s \in Sources, a \in Arguments}

\* What the last call of t should see as long as t uses the reference.
Expected(t) == Result(source, argument[t])

Inside == {"recheck", "compute", "assign", "publish", "unlock"}

Goto(t, label) == pc' = [pc EXCEPT ![t] = label]

-----------------------------------------------------------------------------
\* A default-constructed value that was not computed.
Init ==
    /\ source \in Sources
    /\ value = Torn
    /\ computed = FALSE
    /\ mutex = NoThread
    /\ pc = [t \in Threads |-> "idle"]
    /\ argument \in [Threads -> Arguments]

\* operator() is called.
Call(t) ==
    /\ pc[t] = "idle"
    /\ \E a \in Arguments : argument' = [argument EXCEPT ![t] = a]
    /\ Goto(t, "test")
    /\ UNCHANGED <<source, value, computed, mutex>>

\* if( !computed_ ), without the lock
Test(t) ==
    /\ pc[t] = "test"
    /\ Goto(t, IF computed THEN "reading" ELSE "lock")
    /\ UNCHANGED <<source, value, computed, mutex, argument>>

\* absl::MutexLock lock{ mutex_ }
Lock(t) ==
    /\ pc[t] = "lock"
    /\ mutex = NoThread
    /\ mutex' = t
    /\ Goto(t, "recheck")
    /\ UNCHANGED <<source, value, computed, argument>>

\* Mutant: computed_ is not tested again under the lock.
ComputeUnchecked(t) ==
    /\ pc[t] = "recheck"
    /\ Goto(t, "compute")
    /\ UNCHANGED <<source, value, computed, mutex, argument>>

\* if( !computed_ ), under the lock
Recheck(t) ==
    /\ pc[t] = "recheck"
    /\ Goto(t, IF computed THEN "unlock" ELSE "compute")
    /\ UNCHANGED <<source, value, computed, mutex, argument>>

\* The computer returns and the assignment of value_ begins.
Compute(t) ==
    /\ pc[t] = "compute"
    /\ value' = Torn
    /\ Goto(t, "assign")
    /\ UNCHANGED <<source, computed, mutex, argument>>

\* Mutant: the exception leaves the mutex locked.
ThrowLocked(t) ==
    /\ pc[t] = "compute"
    /\ Goto(t, "idle")
    /\ UNCHANGED <<source, value, computed, mutex, argument>>

\* The computer throws: the lock is released, nothing is kept, and the
\* exception leaves operator().
ComputeThrows(t) ==
    /\ pc[t] = "compute"
    /\ mutex' = NoThread
    /\ Goto(t, "idle")
    /\ UNCHANGED <<source, value, computed, argument>>

\* The assignment ends.
Assign(t) ==
    /\ pc[t] = "assign"
    /\ value' = Expected(t)
    /\ Goto(t, "publish")
    /\ UNCHANGED <<source, computed, mutex, argument>>

\* computed_ = true
Publish(t) ==
    /\ pc[t] = "publish"
    /\ computed' = TRUE
    /\ Goto(t, "unlock")
    /\ UNCHANGED <<source, value, mutex, argument>>

\* The lock goes out of scope, value_ is returned by reference.
Unlock(t) ==
    /\ pc[t] = "unlock"
    /\ mutex' = NoThread
    /\ Goto(t, "reading")
    /\ UNCHANGED <<source, value, computed, argument>>

\* The caller drops the reference.
Drop(t) ==
    /\ pc[t] = "reading"
    /\ Goto(t, "idle")
    /\ UNCHANGED <<source, value, computed, mutex, argument>>

\* Mutant: the builder forgets reset().
ChangeWithoutReset ==
    /\ \A t \in Threads : pc[t] = "idle"
    /\ source' \in Sources \ {source}
    /\ UNCHANGED <<value, computed, mutex, pc, argument>>

\* A builder changes what the computer reads, alone with the object.
Change ==
    /\ \A t \in Threads : pc[t] = "idle"
    /\ source' \in Sources \ {source}
    /\ computed' = FALSE
    /\ UNCHANGED <<value, mutex, pc, argument>>

\* The steps inside operator().
Step(t) ==
    \/ Test(t)
    \/ Lock(t)
    \/ Recheck(t)
    \/ Compute(t)
    \/ ComputeThrows(t)
    \/ Assign(t)
    \/ Publish(t)
    \/ Unlock(t)

Next == Change \/ \E t \in Threads : Call(t) \/ Step(t) \/ Drop(t)

Spec == Init /\ [][Next]_vars

\* Threads run; absl::Mutex lets every waiter in sooner or later.
Fairness == \A t \in Threads : WF_vars(Step(t)) /\ SF_vars(Lock(t))

FairSpec == Spec /\ Fairness

-----------------------------------------------------------------------------
TypeOK ==
    /\ source \in Sources
    /\ value \in Values \cup {Torn}
    /\ computed \in BOOLEAN
    /\ mutex \in Threads \cup {NoThread}
    /\ pc \in [Threads -> {"idle", "test", "lock", "reading"} \cup Inside]
    /\ argument \in [Threads -> Arguments]

\* A reference that operator() returned shows a whole value, computed from
\* the source as it is, by whichever thread: never half of an assignment,
\* never what was cached before the last change.
ReadersSeeCurrentValue ==
    \A t \in Threads : pc[t] = "reading" =>
        value \in {Result(source, a) : a \in Arguments}

\* value_ is not assigned while a thread holds a reference to it, and between
\* two resets it is assigned by at most one computation.
ComputedOncePerReset ==
    [][ value' # value =>
          /\ ~ computed
          /\ \A t \in Threads : pc[t] # "reading" ]_vars

\* Every call returns or throws: no caller waits for ever for the lock, not
\* even when the computation of another one throws while it holds it.
CallsEnd ==
    \A t \in Threads :
        pc[t] \in {"test", "lock"} \cup Inside ~> pc[t] \in {"reading", "idle"}
=============================================================================
