-------------------------- MODULE LedgerUnderFault --------------------------
(***************************************************************************)
(* One ledger-service process: the business requests of LedgerService and  *)
(* the fault controller of DbLockFault draw connections from one pool, and *)
(* the process may be killed and restarted at any time (the restart itself *)
(* is immediate: what matters is what is lost and what is kept).           *)
(***************************************************************************)
EXTENDS LedgerService, DbLockFault, RunningSums, FiniteSets

CONSTANT MaxCrashes     \* bound: how often the process dies

ASSUME MaxCrashesAssumption == MaxCrashes \in Nat

\* Connections are counted over the requests in flight.
ASSUME RequestsAssumption == IsFiniteSet(Requests)

VARIABLE crashes

vars == <<idle, ledgerVars, faultVars, crashes>>

Init ==
    /\ PoolInit
    /\ LedgerInit
    /\ FaultInit
    /\ crashes = 0

RequestStep(r) == (Arrive(r) \/ Continue(r)) /\ UNCHANGED <<faultVars, crashes>>

AdminStep(x) == /\ InjectCall(x) \/ ResetCall(x) \/ Proceed(x)
                /\ UNCHANGED <<ledgerVars, crashes>>

Crash ==
    /\ crashes < MaxCrashes
    /\ crashes' = crashes + 1
    /\ LedgerCrash
    /\ FaultCrash
    /\ idle' = PoolMax

Next ==
    \/ \E r \in Requests : RequestStep(r)
    \/ \E x \in Callers : AdminStep(x)
    \/ Crash

\* A thread inside the service keeps running: locks and connections it waits
\* for are granted if they stay available, and a wait for a connection ends
\* with the pool's timeout.  Nobody has to send a request or call the fault
\* controller, and the process need not die.
Fairness ==
    /\ \A r \in Requests : WF_vars(Continue(r) /\ UNCHANGED <<faultVars, crashes>>)
    /\ \A x \in Callers : WF_vars(Proceed(x) /\ UNCHANGED <<ledgerVars, crashes>>)

Spec == Init /\ [][Next]_vars
FairSpec == Spec /\ Fairness

-----------------------------------------------------------------------------
(* Safety. *)

\* Every variable has its type.
TypeOK ==
    /\ idle \in Nat
    /\ LedgerTypeOK
    /\ FaultTypeOK
    /\ crashes \in 0..MaxCrashes

\* What findByAccountIdForUpdate and the unique index on account_id guarantee
\* between a request's read and its commit (AccountRepository.java:15-18): the
\* entity still equals the committed row, the locks in force belong to requests
\* that are about to write, and an account being inserted is not there yet.
LockDiscipline ==
    /\ \A r \in Requests :
          /\ pc[r] \in {"apply", "insert", "commit"} => op[r].kind # "get"
          /\ pc[r] = "apply" => op[r].kind \in Entering
          /\ pc[r] = "insert" => op[r].kind = "create"
          /\ pc[r] \in {"apply", "commit"} => rowLock[Account(r)] = r
          /\ pc[r] \in {"apply", "commit"} /\ op[r].kind \in Entering =>
                /\ Account(r) \in open
                /\ seen[r] = balance[Account(r)]
          /\ pc[r] = "commit" /\ op[r].kind = "debit" => op[r].amount <= seen[r]
          /\ pc[r] = "commit" /\ op[r].kind = "create" => Account(r) \notin open
    /\ \A a \in Accounts : rowLock[a] # None =>
          /\ pc[rowLock[a]] \in {"apply", "commit"}
          /\ Account(rowLock[a]) = a

\* Row w is what a debit or credit of an account with balance b leaves behind.
Follows(w, b) ==
    w.balanceAfter = IF w.type = "debit" THEN b - w.amount ELSE b + w.amount

\* Committed rows tell the whole story of an account (LedgerService.debit and
\* .credit, recordTransaction): each row's balanceAfter follows from the row
\* before it, the last one is the balance of the account, and there are no rows
\* without an account.  A lost update or a row without its balance breaks it.
JournalChain ==
    \A a \in Accounts :
        /\ journal[a] # <<>> =>
              a \in open /\ balance[a] = journal[a][Len(journal[a])].balanceAfter
        /\ \A i \in 1..(Len(journal[a]) - 1) :
              Follows(journal[a][i+1], journal[a][i].balanceAfter)

\* What the rows of a type have moved, all told.
Moved(rows, type) ==
    LET moves == [i \in DOMAIN rows |-> IF rows[i].type = type THEN rows[i].amount ELSE 0]
    IN  RunningSum(moves, Len(rows))[Len(rows)]

\* The books of account a, if request c has created it.
BooksFrom(c, a) ==
    /\ op[c].kind = "create" /\ Account(c) = a /\ op[c].currency = currencyOf[a]
    /\ reply[c] = "201" \/ pc[c] = "lost"
    /\ balance[a] + Moved(journal[a], "debit") = op[c].amount + Moved(journal[a], "credit")
    /\ \A i \in DOMAIN journal[a] :
          LET row == journal[a][i]
          IN  op[row.request] = [kind |-> row.type, account |-> a,
                                 currency |-> currencyOf[a], amount |-> row.amount]

\* Money neither appears nor vanishes (LedgerService.debit, .credit and
\* .createAccount): an account goes back to one create request, and what has come
\* in since then, less what has gone out, makes its balance.  Every row is what
\* some request has asked for, in the currency the account was created with.
BooksBalance == \A a \in open : \E c \in Requests : BooksFrom(c, a)

\* The committed rows of request r.
RowsOf(r) == UNION {{<<a, i>> : i \in {k \in DOMAIN journal[a] :
                                            journal[a][k].request = r}} : a \in Accounts}

\* The status a caller sees and what the database keeps agree: 200 for a debit
\* or credit means exactly one row, on the right account; any other status
\* means no row; no answer (the process died) means at most one.
ReplyMatchesJournal ==
    \A r \in Requests :
        /\ \A w \in RowsOf(r) : w[1] = Account(r) /\ op[r].kind \in Entering
        /\ pc[r] = "replied" /\ reply[r] = "200" /\ op[r].kind \in Entering
              => Cardinality(RowsOf(r)) = 1
        /\ pc[r] = "replied" /\ reply[r] # "200" => RowsOf(r) = {}
        /\ Cardinality(RowsOf(r)) <= 1

\* createAccount checks before it inserts, and two requests may both have
\* checked: still at most one of them is answered 201, and the account it
\* announced is there.
CreatedOnce ==
    \A r, s \in Requests :
        /\ reply[r] = "201" => Account(r) \in open
        /\ reply[r] = "201" /\ reply[s] = "201" /\ Account(r) = Account(s) => r = s

\* No connection is lost or returned twice, whatever request was refused,
\* timed out or cut off and whatever inject() had to roll back: the pool, the
\* requests in a transaction and the fault account for all of them.
ConnectionsConserved ==
    idle + openHeld + Cardinality({r \in Requests : InTransaction(r)}) = PoolMax

\* The safety promise of DbLockFaultService: the fault alone never empties the
\* pool, not even between two concurrent or repeated injections.
FaultLeavesOne == openHeld < PoolMax

\* Between two calls the fault is either fully on or fully off, so that
\* /fault-status tells the truth: enabled with every connection it should
\* hold, or disabled with none.
FaultConsistent ==
    monitor = NoCaller =>
        /\ held = openHeld
        /\ openHeld = IF enabled THEN SafeHold ELSE 0

-----------------------------------------------------------------------------
(* The service implements the atomic ledger.  Only committed rows count, so *)
(* a step maps to an operation of the atomic ledger exactly when it commits. *)

Amounts == {o.amount : o \in Ops}
Ledger == INSTANCE AtomicLedger WITH Amounts <- Amounts,
              open <- open, balance <- balance, journal <- journal

\* Row locks, transactions and crashes make debits, credits and account
\* creations atomic, exactly-once and overdraft-free.
ImplementsAtomicLedger == Ledger!Spec

-----------------------------------------------------------------------------
(* Liveness. *)

\* Every request that is sent is answered (perhaps 500 after the pool's
\* timeout) unless the process dies, however long the fault keeps the pool
\* small and whoever holds the row lock it wants.
EveryRequestEnds ==
    \A r \in Requests : pc[r] = "begin" ~> pc[r] \in {"replied", "lost"}

\* inject() holds the monitor while it waits for connections, reset() while it
\* closes them: the monitor always comes free again, so that a reset cannot be
\* shut out for good by an inject() the fault itself has starved.
MonitorComesFree == []<>(monitor = NoCaller)
=============================================================================
