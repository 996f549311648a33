----------------------------- MODULE MemoryLeak -----------------------------
(***************************************************************************)
(* MemoryLeakFaultService of payment-service: the MEMORY_LEAK fault.  One  *)
(* scheduler thread runs allocateIfEnabled again and again (fixedDelay, so *)
(* never twice at once) while HTTP threads run inject() and reset().  The  *)
(* flag, the counter and the list are each thread-safe, nothing holds them *)
(* together: a thread may stop between any two of their accesses.          *)
(*                                                                         *)
(* The list is modelled by the bytes it keeps alive.                       *)
(***************************************************************************)
EXTENDS Integers, FiniteSets

CONSTANTS
    Admins,       \* threads serving POST /inject-memory-leak, /reset-memory-leak
    ChunkSize,    \* app.fault.memory-leak.chunk-size-bytes
    MaxTotal      \* app.fault.memory-leak.max-total-bytes

ASSUME LeakAssumption ==
    ChunkSize \in Nat \ {0} /\ MaxTotal \in Nat /\ IsFiniteSet(Admins)

VARIABLES
    enabled,          \* the AtomicBoolean
    retainedBytes,    \* the AtomicLong
    retained,         \* bytes held by retainedChunks
    tick,             \* where allocateIfEnabled is
    admin             \* where each admin call is

vars == <<enabled, retainedBytes, retained, tick, admin>>

TypeOK ==
    /\ enabled \in BOOLEAN
    /\ retainedBytes \in Nat /\ retained \in Nat
    /\ tick \in {"idle", "checkCap", "add", "count"}
    /\ admin \in [Admins -> {"idle", "zero", "clear"}]

Init ==
    /\ enabled = FALSE
    /\ retainedBytes = 0 /\ retained = 0
    /\ tick = "idle"
    /\ admin = [x \in Admins |-> "idle"]

-----------------------------------------------------------------------------
\* allocateIfEnabled.

TickStart ==
    /\ tick = "idle" /\ enabled
    /\ tick' = "checkCap"
    /\ UNCHANGED <<enabled, retainedBytes, retained, admin>>

\* Mutant of BelowCap: the next chunk is not counted.
BelowCapByOne == retainedBytes <= MaxTotal

BelowCap == retainedBytes + ChunkSize <= MaxTotal

TickCheck ==
    /\ tick = "checkCap"
    /\ tick' = IF BelowCap THEN "add" ELSE "idle"
    /\ UNCHANGED <<enabled, retainedBytes, retained, admin>>

TickAdd ==
    /\ tick = "add"
    /\ retained' = retained + ChunkSize
    /\ tick' = "count"
    /\ UNCHANGED <<enabled, retainedBytes, admin>>

TickCount ==
    /\ tick = "count"
    /\ retainedBytes' = retainedBytes + ChunkSize
    /\ tick' = "idle"
    /\ UNCHANGED <<enabled, retained, admin>>

Tick == TickStart \/ TickCheck \/ TickAdd \/ TickCount

-----------------------------------------------------------------------------
\* inject() and reset().

Inject(x) ==
    /\ admin[x] = "idle"
    /\ enabled' = TRUE
    /\ UNCHANGED <<retainedBytes, retained, tick, admin>>

ResetStart(x) ==
    /\ admin[x] = "idle"
    /\ enabled' = FALSE
    /\ admin' = [admin EXCEPT ![x] = "zero"]
    /\ UNCHANGED <<retainedBytes, retained, tick>>

\* Mutant of ResetZero: takes off what is in the list.
ResetSubtracts(x) ==
    /\ admin[x] = "zero"
    /\ retainedBytes' = retainedBytes - retained
    /\ admin' = [admin EXCEPT ![x] = "clear"]
    /\ UNCHANGED <<enabled, retained, tick>>

\* Mutant of ResetZero: the counter keeps what it has counted.
ResetForgetsCounter(x) ==
    /\ admin[x] = "zero"
    /\ admin' = [admin EXCEPT ![x] = "clear"]
    /\ UNCHANGED <<enabled, retainedBytes, retained, tick>>

ResetZero(x) ==
    /\ admin[x] = "zero"
    /\ retainedBytes' = 0
    /\ admin' = [admin EXCEPT ![x] = "clear"]
    /\ UNCHANGED <<enabled, retained, tick>>

\* Mutant of ResetClear: the chunks stay in the list.
ResetKeeps(x) ==
    /\ admin[x] = "clear"
    /\ admin' = [admin EXCEPT ![x] = "idle"]
    /\ UNCHANGED <<enabled, retainedBytes, retained, tick>>

ResetClear(x) ==
    /\ admin[x] = "clear"
    /\ retained' = 0
    /\ admin' = [admin EXCEPT ![x] = "idle"]
    /\ UNCHANGED <<enabled, retainedBytes, tick>>

Next ==
    \/ Tick
    \/ \E x \in Admins : Inject(x) \/ ResetStart(x) \/ ResetZero(x) \/ ResetClear(x)

Spec == Init /\ [][Next]_vars

\* The scheduler never stops ticking and a reset() that has begun goes on;
\* nobody has to call inject() or reset().
FairSpec ==
    /\ Spec
    /\ WF_vars(Tick)
    /\ \A x \in Admins : WF_vars(ResetZero(x) \/ ResetClear(x))

-----------------------------------------------------------------------------
\* Resets that have zeroed the counter and not yet cleared the list.
Clearing == {x \in Admins : admin[x] = "clear"}

\* The cap of allocateIfEnabled, wherever threads interleave: the memory kept
\* alive is within maxTotalBytes, plus one chunk that is being counted, plus
\* once the cap again for every reset() caught between its two halves.
RetainedBounded ==
    retained <= MaxTotal * (1 + Cardinality(Clearing))
                + (IF tick = "count" THEN ChunkSize ELSE 0)

CallsReturned == \A x \in Admins : admin[x] = "idle"

Stopped == ~ enabled /\ tick = "idle" /\ CallsReturned

\* Once the fault is off and every call has returned, at most the one chunk of
\* a tick that had already seen the flag is still there, however many injects
\* and resets overlapped.
LeftoverBounded == Stopped => retained <= ChunkSize

\* MemoryLeakFaultService.java:16-20: from the moment on when all calls have returned
\* and the fault is off, a fault that is injected and not reset fills the list up to the
\* cap, but for one chunk, which a tick that a reset has overtaken may have counted
\* although the list was cleared of it.
\* (It is the list that keeps memory alive.  An inject() that overlaps a reset() is
\* excluded for a reason: the counter may then be ahead of the list by all of the cap.)
LeakFillsUp ==
    []((CallsReturned /\ ~ enabled /\ []CallsReturned /\ <>enabled)
           => <>[](retained + 2 * ChunkSize > MaxTotal))
=============================================================================
