-------------------------- MODULE MemoryLeakProofs --------------------------
(***************************************************************************)
(* What holds of the memory-leak fault for every chunk size, cap and       *)
(* finite set of admin threads.                                            *)
(***************************************************************************)
EXTENDS MemoryLeak, FiniteSetTheorems, TLAPS

USE LeakAssumption

LEMMA TypeInit == Init => TypeOK
<1> SUFFICES ASSUME Init PROVE TypeOK
  OBVIOUS
<1>1. enabled \in BOOLEAN
  BY Zenon DEF Init
<1> QED BY <1>1 DEF Init, TypeOK

LEMMA TypeStep == TypeOK /\ [Next]_vars => TypeOK'
<1> SUFFICES ASSUME TypeOK, [Next]_vars PROVE TypeOK'
  OBVIOUS
<1>1. enabled' \in BOOLEAN
  BY Zenon DEF TypeOK, vars, Next, Tick, TickStart, TickCheck, TickAdd, TickCount,
               Inject, ResetStart, ResetZero, ResetClear
<1> USE <1>1 DEF TypeOK
<1>2. CASE Tick
  BY <1>2 DEF Tick, TickStart, TickCheck, TickAdd, TickCount
<1>3. ASSUME NEW x \in Admins,
             Inject(x) \/ ResetStart(x) \/ ResetZero(x) \/ ResetClear(x)
      PROVE  TypeOK'
  BY <1>3 DEF Inject, ResetStart, ResetZero, ResetClear
<1>4. CASE UNCHANGED vars
  BY <1>4 DEF vars
<1> QED BY <1>2, <1>3, <1>4 DEF Next

\* Every variable keeps its type.
THEOREM TypeCorrect == Spec => []TypeOK
  BY TypeInit, TypeStep, PTL DEF Spec

-----------------------------------------------------------------------------
(* The bound on memory. *)

InFlight == IF tick = "count" THEN ChunkSize ELSE 0

\* The counter is within the cap, an allocation that has been allowed stays
\* allowed (resets only lower the counter), and the list is ahead of the
\* counter by what each unfinished reset took off it.
CapInv ==
    /\ retainedBytes <= MaxTotal
    /\ tick \in {"add", "count"} => retainedBytes + ChunkSize <= MaxTotal
    /\ retained <= retainedBytes + MaxTotal * Cardinality(Clearing) + InFlight

LEMMA ClearingFinite == IsFiniteSet(Clearing) /\ Cardinality(Clearing) \in Nat
  BY FS_Subset, FS_CardinalityType DEF Clearing

LEMMA CapInit == Init => CapInv
<1> SUFFICES ASSUME Init PROVE CapInv
  OBVIOUS
<1>1. MaxTotal * Cardinality(Clearing) \in Nat
  BY ClearingFinite
<1> QED BY <1>1 DEF Init, CapInv, InFlight

LEMMA CapStep == TypeOK /\ CapInv /\ [Next]_vars => CapInv'
<1> SUFFICES ASSUME TypeOK, CapInv, [Next]_vars PROVE CapInv'
  OBVIOUS
<1> DEFINE k == Cardinality(Clearing)
<1>0. /\ k \in Nat /\ MaxTotal * k \in Nat
      /\ retained \in Nat /\ retainedBytes \in Nat
  BY ClearingFinite DEF TypeOK
<1>1. CASE Tick
  <2>1. admin' = admin
    BY <1>1 DEF Tick, TickStart, TickCheck, TickAdd, TickCount
  <2>2. k' = k
    BY <2>1 DEF Clearing
  <2> QED BY <1>0, <1>1, <2>2
          DEF CapInv, InFlight, Tick, TickStart, TickCheck, TickAdd, TickCount, BelowCap
<1>2. ASSUME NEW x \in Admins, Inject(x) \/ ResetStart(x) PROVE CapInv'
  <2>1. Clearing' = Clearing
    BY <1>2 DEF Clearing, Inject, ResetStart, TypeOK
  <2>2. retained' = retained /\ retainedBytes' = retainedBytes /\ tick' = tick
    BY <1>2 DEF Inject, ResetStart
  <2> QED BY <2>1, <2>2 DEF CapInv, InFlight
<1>3. ASSUME NEW x \in Admins, ResetZero(x) PROVE CapInv'
  <2>1. Clearing' = Clearing \cup {x} /\ x \notin Clearing
    BY <1>3 DEF Clearing, ResetZero, TypeOK
  <2>2. k' = k + 1
    BY <2>1, ClearingFinite, FS_AddElement
  <2>3. MaxTotal * (k + 1) = MaxTotal * k + MaxTotal
    BY <1>0
  <2>4. retained' = retained /\ retainedBytes' = 0 /\ tick' = tick
    BY <1>3 DEF ResetZero
  <2>5. InFlight' = InFlight /\ InFlight \in Nat
    BY <2>4 DEF InFlight
  <2> QED BY <1>0, <2>2, <2>3, <2>4, <2>5 DEF CapInv
<1>4. ASSUME NEW x \in Admins, ResetClear(x) PROVE CapInv'
  <2>1. MaxTotal * k' \in Nat
    <3>1. Clearing' \subseteq Admins
      BY DEF Clearing
    <3> QED BY <3>1, FS_Subset, FS_CardinalityType
  <2> QED BY <1>0, <1>4, <2>1 DEF ResetClear, CapInv, InFlight
<1>5. CASE UNCHANGED vars
  BY <1>5 DEF vars, CapInv, InFlight, Clearing
<1> QED BY <1>1, <1>2, <1>3, <1>4, <1>5 DEF Next

\* The memory the fault keeps alive is bounded, for every number of admins.
THEOREM MemoryIsBounded == Spec => []RetainedBounded
<1>1. TypeOK /\ CapInv => RetainedBounded
  <2> SUFFICES ASSUME TypeOK, CapInv PROVE RetainedBounded
    OBVIOUS
  <2>1. Cardinality(Clearing) \in Nat
    BY ClearingFinite
  <2>2. MaxTotal * (1 + Cardinality(Clearing)) = MaxTotal + MaxTotal * Cardinality(Clearing)
    BY <2>1
  <2>3. MaxTotal * Cardinality(Clearing) \in Nat
    BY <2>1
  <2> QED BY <2>2, <2>3 DEF TypeOK, CapInv, InFlight, RetainedBounded
<1> QED BY <1>1, TypeCorrect, CapInit, CapStep, PTL DEF Spec

-----------------------------------------------------------------------------
(* What is left after the fault. *)

Pending == IF tick \in {"checkCap", "add"} THEN ChunkSize ELSE 0

\* While the fault is off no tick starts, so only the one that had already
\* read the flag can still add to the list the last reset cleared.
LeftoverInv ==
    ~ enabled /\ (\A x \in Admins : admin[x] = "idle") => retained + Pending <= ChunkSize

LEMMA LeftoverStep == TypeOK /\ LeftoverInv /\ [Next]_vars => LeftoverInv'
<1> SUFFICES ASSUME TypeOK, LeftoverInv, [Next]_vars,
                    ~ enabled', \A x \in Admins : admin'[x] = "idle"
             PROVE  (retained + Pending <= ChunkSize)'
  BY DEF LeftoverInv
<1>1. CASE Tick
  BY <1>1 DEF TypeOK, LeftoverInv, Pending, Tick, TickStart, TickCheck, TickAdd, TickCount
<1>2. ASSUME NEW x \in Admins, ResetClear(x)
      PROVE  (retained + Pending <= ChunkSize)'
  BY <1>2 DEF ResetClear, Pending
<1>3. ASSUME NEW x \in Admins, Inject(x) \/ ResetStart(x) \/ ResetZero(x)
      PROVE  FALSE
  BY <1>3 DEF Inject, ResetStart, ResetZero, TypeOK
<1>4. CASE UNCHANGED vars
  BY <1>4 DEF vars, LeftoverInv, Pending
<1> QED BY <1>1, <1>2, <1>3, <1>4 DEF Next

\* However many injects and resets overlap, at most one chunk outlives them.
THEOREM LeftoverIsBounded == Spec => []LeftoverBounded
<1>1. Init => LeftoverInv
  BY DEF Init, LeftoverInv, Pending
<1>2. TypeOK /\ LeftoverInv => LeftoverBounded
  BY DEF TypeOK, LeftoverInv, LeftoverBounded, Stopped, CallsReturned, Pending
<1> QED BY <1>1, <1>2, LeftoverStep, TypeCorrect, PTL DEF Spec

-----------------------------------------------------------------------------
(* The counter against the list. *)

\* While the fault is off and no reset has yet to zero it, the counter stands for one
\* chunk at most, that of the tick which had already read the flag included.
CounterInv ==
    ~ enabled /\ (\A x \in Admins : admin[x] # "zero")
        => retainedBytes + (IF tick = "idle" THEN 0 ELSE ChunkSize) <= ChunkSize

LEMMA CounterStep == TypeOK /\ CounterInv /\ [Next]_vars => CounterInv'
<1> SUFFICES ASSUME TypeOK, CounterInv, [Next]_vars,
                    ~ enabled', \A x \in Admins : admin'[x] # "zero"
             PROVE  (retainedBytes + (IF tick = "idle" THEN 0 ELSE ChunkSize) <= ChunkSize)'
  BY DEF CounterInv
<1>1. CASE Tick
  BY <1>1 DEF TypeOK, CounterInv, Tick, TickStart, TickCheck, TickAdd, TickCount
<1>2. ASSUME NEW x \in Admins, Inject(x) \/ ResetStart(x) PROVE FALSE
  BY <1>2 DEF Inject, ResetStart, TypeOK
<1>3. ASSUME NEW x \in Admins, ResetZero(x)
      PROVE  (retainedBytes + (IF tick = "idle" THEN 0 ELSE ChunkSize) <= ChunkSize)'
  BY <1>3 DEF ResetZero, TypeOK
<1>4. ASSUME NEW x \in Admins, ResetClear(x)
      PROVE  (retainedBytes + (IF tick = "idle" THEN 0 ELSE ChunkSize) <= ChunkSize)'
  <2>1. \A y \in Admins : admin[y] # "zero"
    BY <1>4 DEF ResetClear, TypeOK
  <2> QED BY <1>4, <2>1 DEF ResetClear, CounterInv
<1>5. CASE UNCHANGED vars
  BY <1>5 DEF vars, CounterInv
<1> QED BY <1>1, <1>2, <1>3, <1>4, <1>5 DEF Next

\* The counter is at most one chunk ahead of the list.
AlmostCounted == retainedBytes + InFlight <= retained + ChunkSize

LEMMA AlmostCountedStep ==
    TypeOK /\ AlmostCounted /\ CallsReturned /\ CallsReturned' /\ [Next]_vars
        => AlmostCounted'
<1> SUFFICES ASSUME TypeOK, AlmostCounted, CallsReturned, CallsReturned', [Next]_vars
             PROVE  AlmostCounted'
  OBVIOUS
<1>1. CASE Tick
  BY <1>1 DEF TypeOK, AlmostCounted, InFlight, Tick, TickStart, TickCheck, TickAdd, TickCount
<1>2. ASSUME NEW x \in Admins, Inject(x) PROVE AlmostCounted'
  BY <1>2 DEF Inject, AlmostCounted, InFlight
<1>3. ASSUME NEW x \in Admins, ResetStart(x) \/ ResetZero(x) \/ ResetClear(x)
      PROVE  FALSE
  BY <1>3 DEF CallsReturned, ResetStart, ResetZero, ResetClear, TypeOK
<1>4. CASE UNCHANGED vars
  BY <1>4 DEF vars, AlmostCounted, InFlight
<1> QED BY <1>1, <1>2, <1>3, <1>4 DEF Next

FullButForOne == retained + 2 * ChunkSize > MaxTotal

\* allocateIfEnabled gives up below the cap for no other reason than the cap: after
\* a moment of rest and without another reset, it refuses a chunk only when the list
\* itself is full but for one.  LeakFillsUp without what fairness adds to it.
THEOREM LeakStopsWhenFull ==
    Spec => []((CallsReturned /\ ~ enabled /\ []CallsReturned)
                   => [](tick = "checkCap" /\ ~ BelowCap => FullButForOne))
<1>1. Init => CounterInv
  BY DEF Init, CounterInv
<1>2. TypeOK /\ CounterInv /\ CallsReturned /\ ~ enabled => AlmostCounted
  BY DEF TypeOK, CounterInv, CallsReturned, AlmostCounted, InFlight
<1>3. TypeOK /\ AlmostCounted => (tick = "checkCap" /\ ~ BelowCap => FullButForOne)
  BY DEF TypeOK, AlmostCounted, InFlight, BelowCap, FullButForOne
<1> QED BY <1>1, <1>2, <1>3, CounterStep, AlmostCountedStep, TypeCorrect, PTL DEF Spec
=============================================================================
