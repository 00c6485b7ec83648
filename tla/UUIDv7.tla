------------------------------- MODULE UUIDv7 -------------------------------
(***************************************************************************)
(* The generator of universally unique identifiers, uuid.cpp.              *)
(*                                                                         *)
(* Every component of a model, every attribute and every mesh is named by  *)
(* a version 7 UUID.  Its first 64 bits are a millisecond timestamp and a  *)
(* 12-bit sequence number; the threads of the process share both in one    *)
(* atomic word, g_state, that they advance with compare_exchange_weak.     *)
(* The remaining 62 bits are random and are left out: what is checked here *)
(* does not rely on luck.                                                  *)
(*                                                                         *)
(* One action per atomic step: reading the wall clock, loading g_state and *)
(* computing its successor (local to the thread), the compare-exchange.    *)
(* The wall clock is the system's: it may be set back at any time.         *)
(***************************************************************************)
EXTENDS Integers

CONSTANTS
    Threads,      \* the threads that construct uuids
    MaxClock,     \* bound: the wall clock reads 0 .. MaxClock
    MaxDriftMs,   \* kMaxDriftMs
    SeqMask,      \* kSeqMask: a sequence number is in 0 .. SeqMask
    MaxAttempts   \* MAX_SAFETY_COUNT: calls of generate() per constructor

ASSUME ClockAssumption == MaxClock \in Nat
ASSUME DriftAssumption == MaxDriftMs \in Nat \ {0}
ASSUME SeqAssumption == SeqMask \in Nat /\ SeqMask >= 2
ASSUME AttemptsAssumption == MaxAttempts \in Nat \ {0}

VARIABLES
    clock,     \* the wall clock, in milliseconds
    peak,      \* history: the highest value the wall clock ever had
    g_state,   \* the shared word, [ts, seq]
    pc,        \* where each thread is
    real_ms,   \* per thread, the clock as last read, then capped
    old,       \* per thread, g_state as last loaded
    next,      \* per thread, the word it wants to publish
    attempts,  \* per thread, calls of generate() made by this constructor
    issued     \* history: per thread, the stamps its uuids carry

vars == <<clock, peak, g_state, pc, real_ms, old, next, attempts, issued>>

-----------------------------------------------------------------------------
Stamp == [ts : Nat, seq : 0 .. SeqMask]

\* uuid::operator< on the first eight bytes: big-endian, timestamp first.
Before(a, b) == a.ts < b.ts \/ (a.ts = b.ts /\ a.seq < b.seq)

\* fresh_sequence(): absl::Uniform excludes its upper end, zero is redrawn.
FreshSequence == 1 .. SeqMask - 1

\* "Enforce drift cap": a real time too far ahead is cut down.
Capped(real, o) ==
    IF real > o.ts + MaxDriftMs THEN o.ts + MaxDriftMs ELSE real

\* (seq + 1) & kSeqMask
Increment(seq) == IF seq = SeqMask THEN 0 ELSE seq + 1

\* The sequence numbers after o's in the same millisecond; {0} is a wrap.
NextSequence(real, o) ==
    IF o.seq = 0 /\ real = o.ts THEN FreshSequence ELSE {Increment(o.seq)}

\* Mutant: a sequence that wraps stays in its millisecond.
SuccessorsWithoutCarry(real, o) ==
    IF real > o.ts
    THEN [ts : {real}, seq : FreshSequence]
    ELSE [ts : {o.ts}, seq : NextSequence(real, o)]

\* The words generate() may try to publish when it has loaded o and its
\* capped clock reads real: a later millisecond with a fresh sequence, the
\* next sequence, or, when the sequence wraps, the next millisecond.
Successors(real, o) ==
    IF real > o.ts
    THEN [ts : {real}, seq : FreshSequence]
    ELSE [ts : {o.ts}, seq : NextSequence(real, o) \ {0}]
         \cup IF 0 \in NextSequence(real, o)
              THEN [ts : {o.ts + 1}, seq : FreshSequence]
              ELSE {}

\* Mutant: generate() never returns nullopt.
NeverExceedsDrift(real, o) == FALSE

\* The two "return std::nullopt" of generate().
ExceedsDrift(real, o) ==
    \E n \in Successors(real, o) : n.ts > real + MaxDriftMs

-----------------------------------------------------------------------------
\* Static initialisation of g_state: the clock, and a sequence that is not 0.
Init ==
    /\ clock \in 0 .. MaxClock
    /\ peak = clock
    /\ g_state \in [ts : {clock}, seq : 1 .. SeqMask]
    /\ pc = [t \in Threads |-> "idle"]
    /\ real_ms = [t \in Threads |-> 0]
    /\ old = [t \in Threads |-> g_state]
    /\ next = [t \in Threads |-> g_state]
    /\ attempts = [t \in Threads |-> 0]
    /\ issued = [t \in Threads |-> {}]

\* The system sets its clock, forwards or backwards.
SetClock ==
    /\ clock' \in (0 .. MaxClock) \ {clock}
    /\ peak' = IF clock' > peak THEN clock' ELSE peak
    /\ UNCHANGED <<g_state, pc, real_ms, old, next, attempts, issued>>

\* uuid::uuid() is called, or has returned or thrown and is called again.
Construct(t) ==
    /\ pc[t] \in {"idle", "returned", "thrown"}
    /\ pc' = [pc EXCEPT ![t] = "generate"]
    /\ attempts' = [attempts EXCEPT ![t] = 0]
    /\ UNCHANGED <<clock, peak, g_state, real_ms, old, next, issued>>

\* generate() reads the clock, on entry and after a failed exchange.
ReadClock(t) ==
    /\ pc[t] = "generate"
    /\ real_ms' = [real_ms EXCEPT ![t] = clock]
    /\ pc' = [pc EXCEPT ![t] = "load"]
    /\ UNCHANGED <<clock, peak, g_state, old, next, attempts, issued>>

\* generate() loads g_state and computes its successor.
LoadAndCompute(t) ==
    /\ pc[t] = "load"
    /\ old' = [old EXCEPT ![t] = g_state]
    /\ real_ms' = [real_ms EXCEPT ![t] = Capped(real_ms[t], g_state)]
    /\ \E n \in Successors(real_ms'[t], g_state) :
        next' = [next EXCEPT ![t] = n]
    /\ ~ ExceedsDrift(real_ms'[t], g_state)
    /\ pc' = [pc EXCEPT ![t] = "exchange"]
    /\ UNCHANGED <<clock, peak, g_state, attempts, issued>>

\* Mutant: the constructor throws one call too late.
GiveUpOneTooLate(t) ==
    /\ pc[t] = "load"
    /\ ExceedsDrift(Capped(real_ms[t], g_state), g_state)
    /\ attempts' = [attempts EXCEPT ![t] = @ + 1]
    /\ pc' = [pc EXCEPT ![t] =
                IF attempts'[t] > MaxAttempts THEN "thrown" ELSE "generate"]
    /\ UNCHANGED <<clock, peak, g_state, real_ms, old, next, issued>>

\* Mutant: the constructor does not count its calls of generate().
GiveUpUncounted(t) ==
    /\ pc[t] = "load"
    /\ ExceedsDrift(Capped(real_ms[t], g_state), g_state)
    /\ pc' = [pc EXCEPT ![t] = "generate"]
    /\ UNCHANGED <<clock, peak, g_state, real_ms, old, next, attempts, issued>>

\* generate() returns nullopt; the constructor sleeps and calls it again, or
\* throws after MAX_SAFETY_COUNT calls.
GiveUp(t) ==
    /\ pc[t] = "load"
    /\ ExceedsDrift(Capped(real_ms[t], g_state), g_state)
    /\ attempts' = [attempts EXCEPT ![t] = @ + 1]
    /\ pc' = [pc EXCEPT ![t] =
                IF attempts'[t] = MaxAttempts THEN "thrown" ELSE "generate"]
    /\ UNCHANGED <<clock, peak, g_state, real_ms, old, next, issued>>

\* Mutant: a plain store instead of the compare-exchange.
StoreUnchecked(t) ==
    /\ pc[t] = "exchange"
    /\ g_state' = next[t]
    /\ issued' = [issued EXCEPT ![t] = @ \cup {next[t]}]
    /\ pc' = [pc EXCEPT ![t] = "returned"]
    /\ UNCHANGED <<clock, peak, real_ms, old, next, attempts>>

\* compare_exchange_weak finds what was loaded and publishes the successor.
ExchangeSucceeds(t) ==
    /\ pc[t] = "exchange"
    /\ g_state = old[t]
    /\ g_state' = next[t]
    /\ issued' = [issued EXCEPT ![t] = @ \cup {next[t]}]
    /\ pc' = [pc EXCEPT ![t] = "returned"]
    /\ UNCHANGED <<clock, peak, real_ms, old, next, attempts>>

\* It finds another word, or fails spuriously as the weak form may; the loop
\* backs off, reads the clock and loads again.
ExchangeFails(t) ==
    /\ pc[t] = "exchange"
    /\ pc' = [pc EXCEPT ![t] = "generate"]
    /\ UNCHANGED <<clock, peak, g_state, real_ms, old, next, attempts, issued>>

Step(t) ==
    \/ ReadClock(t)
    \/ LoadAndCompute(t)
    \/ GiveUp(t)
    \/ ExchangeSucceeds(t)
    \/ ExchangeFails(t)

Next == SetClock \/ \E t \in Threads : Construct(t) \/ Step(t)

Spec == Init /\ [][Next]_vars

\* A thread inside the constructor is scheduled, and an exchange that could
\* succeed again and again does not fail spuriously for ever.
Fairness == \A t \in Threads :
    /\ WF_vars(Step(t))
    /\ SF_vars(ExchangeSucceeds(t))

FairSpec == Spec /\ Fairness

-----------------------------------------------------------------------------
TypeOK ==
    /\ clock \in 0 .. MaxClock
    /\ peak \in 0 .. MaxClock
    /\ g_state \in Stamp
    /\ pc \in [Threads -> {"idle", "generate", "load", "exchange",
                           "returned", "thrown"}]
    /\ real_ms \in [Threads -> Nat]
    /\ old \in [Threads -> Stamp]
    /\ next \in [Threads -> Stamp]
    /\ attempts \in [Threads -> 0 .. MaxAttempts]
    /\ issued \in [Threads -> SUBSET Stamp]

\* Two threads never obtain the same timestamp and sequence, whatever the
\* clock does and whichever exchanges fail: uniqueness needs no random bit.
NoSharedStamp ==
    \A t, u \in Threads : t # u => issued[t] \cap issued[u] = {}

\* The uuid a constructor returns is after every uuid returned before it, by
\* any thread: the order of uuid::operator< is the order of creation, even
\* when the wall clock is set back in between.
LaterIsGreater ==
    [][ \A t \in Threads :
          (pc[t] = "exchange" /\ pc'[t] = "returned") =>
              \A u \in Threads : \A r \in issued[u] : Before(r, g_state')
      ]_vars

\* The virtual clock runs ahead of the wall clock by kMaxDriftMs at most,
\* however many uuids a burst asks for ("Max drift ahead of real time").
DriftBounded == g_state.ts <= peak + MaxDriftMs

\* Every constructor call returns or throws, unless other calls publish for
\* ever: the exchange loop is lock-free, spurious failures do not stop it, and
\* a clock set far back makes the constructor throw instead of spin.
CallsComplete ==
    \/ \A t \in Threads :
          pc[t] \in {"generate", "load", "exchange"} ~>
              pc[t] \in {"returned", "thrown"}
    \/ []<><<g_state' # g_state>>_vars
=============================================================================
