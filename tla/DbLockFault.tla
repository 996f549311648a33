----------------------------- MODULE DbLockFault -----------------------------
(***************************************************************************)
(* DbLockFaultService: the DB_POOL_EXHAUSTION fault of ledger-service.     *)
(* inject() takes connections out of the pool and keeps them, reset()      *)
(* closes them; both are synchronized on the service.  getConnection() may *)
(* block for the pool's timeout and throw, in which case inject() releases *)
(* what it has acquired.                                                   *)
(*                                                                         *)
(* A call goes through                                                     *)
(*   idle | injectWait -> acquire [-> rollback] -> idle                    *)
(*        | resetWait  -> release               -> idle                    *)
(***************************************************************************)
EXTENDS HikariPool

CONSTANTS
    Callers,         \* threads serving POST /inject-db-lock, /reset-db-lock
    HoldRequested,   \* app.fault.db-lock.connections-to-hold
    NoCaller         \* the monitor is free

ASSUME DbLockAssumption == HoldRequested \in Nat /\ NoCaller \notin Callers

VARIABLES
    enabled,      \* the AtomicBoolean
    held,         \* heldConnections.size()
    openHeld,     \* how many of those are still open
    acquired,     \* inject's counter, of the call that holds the monitor
    monitor,      \* who is inside a synchronized method
    call          \* stage of each caller

faultVars == <<enabled, held, openHeld, acquired, monitor, call>>

\* Mutant of SafeHold: clamped to the size of the pool.
HoldWholePool == IF HoldRequested <= PoolMax THEN HoldRequested ELSE PoolMax

\* Math.min(requestedHoldCount, maximumPoolSize - 1)
SafeHold == IF HoldRequested <= PoolMax - 1 THEN HoldRequested ELSE PoolMax - 1

FaultTypeOK ==
    /\ enabled \in BOOLEAN
    /\ held \in Nat /\ openHeld \in Nat /\ acquired \in Nat
    /\ monitor \in Callers \cup {NoCaller}
    /\ call \in [Callers -> {"idle", "injectWait", "acquire", "rollback",
                             "resetWait", "release"}]

FaultInit ==
    /\ enabled = FALSE
    /\ held = 0 /\ openHeld = 0 /\ acquired = 0
    /\ monitor = NoCaller
    /\ call = [x \in Callers |-> "idle"]

CallGoto(x, stage) == call' = [call EXCEPT ![x] = stage]
Enter(x) == monitor = NoCaller /\ monitor' = x
Leave(x) == monitor' = NoCaller /\ CallGoto(x, "idle")

InjectCall(x) ==
    /\ call[x] = "idle" /\ CallGoto(x, "injectWait")
    /\ UNCHANGED <<enabled, held, openHeld, acquired, monitor, idle>>

ResetCall(x) ==
    /\ call[x] = "idle" /\ CallGoto(x, "resetWait")
    /\ UNCHANGED <<enabled, held, openHeld, acquired, monitor, idle>>

\* inject() while the fault is on: returns at once.
InjectAgain(x) ==
    /\ call[x] = "injectWait" /\ monitor = NoCaller
    /\ enabled
    /\ CallGoto(x, "idle")
    /\ UNCHANGED <<enabled, held, openHeld, acquired, monitor, idle>>

InjectEnter(x) ==
    /\ call[x] = "injectWait" /\ Enter(x)
    /\ ~ enabled
    /\ acquired' = 0
    /\ CallGoto(x, "acquire")
    /\ UNCHANGED <<enabled, held, openHeld, idle>>

AcquireOne(x) ==
    /\ call[x] = "acquire" /\ acquired < SafeHold
    /\ Borrow
    /\ held' = held + 1 /\ openHeld' = openHeld + 1 /\ acquired' = acquired + 1
    /\ UNCHANGED <<enabled, monitor, call>>

\* Mutant of AcquireTimesOut: the catch block forgets releaseAll.
AcquireGivesUp(x) ==
    /\ call[x] = "acquire" /\ acquired < SafeHold
    /\ BorrowTimesOut
    /\ Leave(x)
    /\ UNCHANGED <<enabled, held, openHeld, acquired>>

AcquireTimesOut(x) ==
    /\ call[x] = "acquire" /\ acquired < SafeHold
    /\ BorrowTimesOut
    /\ CallGoto(x, "rollback")
    /\ UNCHANGED <<enabled, held, openHeld, acquired, monitor>>

\* Mutant of InjectDone: the loop wants one connection more than it takes.
InjectNeverDone(x) ==
    /\ call[x] = "acquire" /\ acquired > SafeHold
    /\ enabled' = TRUE
    /\ Leave(x)
    /\ UNCHANGED <<held, openHeld, acquired, idle>>

InjectDone(x) ==
    /\ call[x] = "acquire" /\ acquired >= SafeHold
    /\ enabled' = TRUE
    /\ Leave(x)
    /\ UNCHANGED <<held, openHeld, acquired, idle>>

ResetEnter(x) ==
    /\ call[x] = "resetWait" /\ Enter(x)
    /\ CallGoto(x, "release")
    /\ UNCHANGED <<enabled, held, openHeld, acquired, idle>>

\* releaseAll closes the connections one after another, then clears the list.  A close()
\* that throws is logged and the loop goes on; the pool drops and replaces such a
\* connection, so that a place is given back either way.
CloseOne(x) ==
    /\ call[x] \in {"rollback", "release"} /\ openHeld > 0
    /\ openHeld' = openHeld - 1
    /\ GiveBack
    /\ UNCHANGED <<enabled, held, acquired, monitor, call>>

Cleared(x) ==
    /\ call[x] \in {"rollback", "release"} /\ openHeld = 0
    /\ held' = 0
    /\ enabled' = IF call[x] = "release" THEN FALSE ELSE enabled
    /\ Leave(x)
    /\ UNCHANGED <<openHeld, acquired, idle>>

\* What a call that has been made does next.
Proceed(x) ==
    \/ InjectAgain(x) \/ InjectEnter(x) \/ AcquireOne(x) \/ AcquireTimesOut(x)
    \/ InjectDone(x) \/ ResetEnter(x) \/ CloseOne(x) \/ Cleared(x)

\* The process dies: its connections are closed with it, nothing is stored.
FaultCrash ==
    /\ enabled' = FALSE
    /\ held' = 0 /\ openHeld' = 0 /\ acquired' = 0
    /\ monitor' = NoCaller
    /\ call' = [x \in Callers |-> "idle"]
=============================================================================
