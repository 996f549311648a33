---------------------------- MODULE LedgerService ----------------------------
(***************************************************************************)
(* ledger-service: HTTP requests that debit, credit, create or read an     *)
(* account, each in one @Transactional method over PostgreSQL.             *)
(*                                                                         *)
(* A request goes through the stages                                       *)
(*   new     not sent yet                                                  *)
(*   begin   waiting for a connection, which @Transactional needs first    *)
(*   read    about to run its first SELECT (FOR UPDATE in lockAccount)     *)
(*   apply   holds the row lock and the entity it read; about to check it  *)
(*   insert  createAccount found no such account; about to INSERT it       *)
(*   commit  writes done, not committed                                    *)
(*   close   committed or rolled back, the connection not returned yet     *)
(*   replied answered          lost   the process died under it            *)
(*                                                                         *)
(* The database runs READ COMMITTED (PostgreSQL's default; nothing in src/ *)
(* sets another level): open, currencyOf, balance and journal hold only    *)
(* committed rows.  A debit or credit writes the ABSOLUTE balance computed *)
(* from the entity it read, so only the row lock keeps updates from being  *)
(* lost.  Money is counted in units of numeric(19,4).                      *)
(***************************************************************************)
EXTENDS HikariPool, Sequences

CONSTANTS
    Requests,     \* HTTP requests; each is sent at most once, nothing retries
    Accounts,     \* account ids
    Currencies,   \* currency codes
    Ops,          \* what a request may ask for, see LedgerAssumption
    MaxBalance,   \* largest amount the numeric(19,4) columns can hold
    None          \* nobody holds the lock; an account not opened has no currency

Entering == {"debit", "credit"}
Kinds == Entering \cup {"create", "get"}

\* Bean validation has passed: @Positive amount, @PositiveOrZero initialBalance.
ASSUME LedgerAssumption ==
    /\ None \notin Requests
    /\ MaxBalance \in Nat
    /\ Ops \subseteq [kind : Kinds, account : Accounts,
                      currency : Currencies, amount : Nat]
    /\ \A o \in Ops : o.kind \in Entering => o.amount > 0

VARIABLES
    open,         \* accounts with a committed row in table accounts
    currencyOf,   \* their currency column
    balance,      \* their balance column
    journal,      \* committed ledger_transactions rows of each account
    rowLock,      \* who holds the row lock of an account, or the unique-index
                  \* entry of one whose INSERT is not committed
    op,           \* what each request asks for
    pc,           \* its stage
    seen,         \* the balance in the entity it read
    reply         \* the HTTP status it ends with

table == <<open, currencyOf, balance, journal>>
ledgerVars == <<table, rowLock, op, pc, seen, reply>>

Stages == {"new", "begin", "read", "apply", "insert", "commit", "close",
           "replied", "lost"}
Statuses == {"none", "200", "201", "400", "404", "409", "500"}
Rows == [request : Requests, type : Entering, amount : Nat, balanceAfter : Nat]

\* Requests that hold a JDBC connection.
InTransaction(r) == pc[r] \in {"read", "apply", "insert", "commit", "close"}

LedgerTypeOK ==
    /\ open \in SUBSET Accounts
    /\ currencyOf \in [Accounts -> Currencies \cup {None}]
    /\ balance \in [Accounts -> Nat]
    /\ journal \in [Accounts -> Seq(Rows)]
    /\ rowLock \in [Accounts -> Requests \cup {None}]
    /\ op \in [Requests -> Ops]
    /\ pc \in [Requests -> Stages]
    /\ seen \in [Requests -> Nat]
    /\ reply \in [Requests -> Statuses]

\* An empty database; the clients' wishes are fixed but unknown.
LedgerInit ==
    /\ open = {}
    /\ currencyOf = [a \in Accounts |-> None]
    /\ balance = [a \in Accounts |-> 0]
    /\ journal = [a \in Accounts |-> <<>>]
    /\ rowLock = [a \in Accounts |-> None]
    /\ op \in [Requests -> Ops]
    /\ pc = [r \in Requests |-> "new"]
    /\ seen = [r \in Requests |-> 0]
    /\ reply = [r \in Requests |-> "none"]

Account(r) == op[r].account
Goto(r, stage) == pc' = [pc EXCEPT ![r] = stage]
Status(r, s) == reply' = [reply EXCEPT ![r] = s]

\* Mutant of Unlock: the transaction is left open.
UnlockForgotten(r) == UNCHANGED rowLock

\* The end of a database transaction releases its locks.
Unlock(r) == rowLock' = [a \in Accounts |-> IF rowLock[a] = r THEN None ELSE rowLock[a]]

\* Mutant of Rollback: the error path keeps its connection.
RollbackLeaking(r, s) ==
    /\ Unlock(r) /\ Status(r, s) /\ Goto(r, "replied")
    /\ UNCHANGED <<table, op, seen, idle>>

\* An exception leaves the @Transactional method: rollback, status s.
Rollback(r, s) ==
    /\ Unlock(r) /\ Status(r, s) /\ Goto(r, "close")
    /\ UNCHANGED <<table, op, seen, idle>>

-----------------------------------------------------------------------------
\* The life of every request.

Arrive(r) ==
    /\ pc[r] = "new"
    /\ Goto(r, "begin")
    /\ UNCHANGED <<table, rowLock, op, seen, reply, idle>>

Begin(r) ==
    /\ pc[r] = "begin"
    /\ Borrow
    /\ Goto(r, "read")
    /\ UNCHANGED <<table, rowLock, op, seen, reply>>

\* CannotCreateTransactionException reaches handleUnexpected.
BeginTimesOut(r) ==
    /\ pc[r] = "begin"
    /\ BorrowTimesOut
    /\ Goto(r, "replied") /\ Status(r, "500")
    /\ UNCHANGED <<table, rowLock, op, seen>>

Close(r) ==
    /\ pc[r] = "close"
    /\ GiveBack
    /\ Goto(r, "replied")
    /\ UNCHANGED <<table, rowLock, op, seen, reply>>

\* SELECT of an account that is not there; an uncommitted INSERT is not seen
\* and not waited for.
AccountMissing(r) ==
    /\ pc[r] = "read" /\ op[r].kind # "create"
    /\ Account(r) \notin open
    /\ Rollback(r, "404")

-----------------------------------------------------------------------------
\* debit and credit.

\* Mutant of LockAccount: findByAccountId, without FOR UPDATE.
ReadWithoutLock(r) ==
    /\ pc[r] = "read" /\ op[r].kind \in Entering
    /\ Account(r) \in open
    /\ seen' = [seen EXCEPT ![r] = balance[Account(r)]]
    /\ Goto(r, "apply")
    /\ UNCHANGED <<table, rowLock, op, reply, idle>>

\* findByAccountIdForUpdate: waits for the row lock, then reads the row.
LockAccount(r) ==
    /\ pc[r] = "read" /\ op[r].kind \in Entering
    /\ Account(r) \in open
    /\ rowLock[Account(r)] = None
    /\ rowLock' = [rowLock EXCEPT ![Account(r)] = r]
    /\ seen' = [seen EXCEPT ![r] = balance[Account(r)]]
    /\ Goto(r, "apply")
    /\ UNCHANGED <<table, op, reply, idle>>

\* Mutant of SameCurrency: the check is dropped.
AnyCurrency(r) == TRUE

SameCurrency(r) == op[r].currency = currencyOf[Account(r)]
\* Mutant of Insufficient: the check is dropped.
NeverInsufficient(r) == FALSE

Insufficient(r) == op[r].kind = "debit" /\ seen[r] < op[r].amount
NewBalance(r) == IF op[r].kind = "debit" THEN seen[r] - op[r].amount
                                         ELSE seen[r] + op[r].amount

CurrencyMismatch(r) ==
    /\ pc[r] = "apply" /\ ~ SameCurrency(r)
    /\ Rollback(r, "400")

InsufficientFunds(r) ==
    /\ pc[r] = "apply" /\ SameCurrency(r) /\ Insufficient(r)
    /\ Rollback(r, "409")

\* A balance the column cannot hold: numeric field overflow on the INSERT.
BalanceOverflow(r) ==
    /\ pc[r] = "apply" /\ SameCurrency(r) /\ ~ Insufficient(r)
    /\ NewBalance(r) > MaxBalance
    /\ Rollback(r, "500")

\* setBalance and recordTransaction.
Apply(r) ==
    /\ pc[r] = "apply" /\ SameCurrency(r) /\ ~ Insufficient(r)
    /\ NewBalance(r) <= MaxBalance
    /\ Goto(r, "commit")
    /\ UNCHANGED <<table, rowLock, op, seen, reply, idle>>

Row(r) == [request |-> r, type |-> op[r].kind, amount |-> op[r].amount,
           balanceAfter |-> NewBalance(r)]

\* The UPDATE of the account and the INSERT of the row commit together.
CommitEntry(r) ==
    /\ pc[r] = "commit" /\ op[r].kind \in Entering
    /\ balance' = [balance EXCEPT ![Account(r)] = NewBalance(r)]
    /\ journal' = [journal EXCEPT ![Account(r)] = Append(@, Row(r))]
    /\ Unlock(r) /\ Status(r, "200") /\ Goto(r, "close")
    /\ UNCHANGED <<open, currencyOf, op, seen, idle>>

-----------------------------------------------------------------------------
\* createAccount and getAccount.

AlreadyExists(r) ==
    /\ pc[r] = "read" /\ op[r].kind = "create"
    /\ Account(r) \in open
    /\ Rollback(r, "409")

NotYetThere(r) ==
    /\ pc[r] = "read" /\ op[r].kind = "create"
    /\ Account(r) \notin open
    /\ Goto(r, "insert")
    /\ UNCHANGED <<table, rowLock, op, seen, reply, idle>>

\* Mutant of InsertAccount: no unique index on account_id.
InsertWithoutIndex(r) ==
    /\ pc[r] = "insert"
    /\ op[r].amount <= MaxBalance
    /\ Goto(r, "commit")
    /\ UNCHANGED <<table, rowLock, op, seen, reply, idle>>

\* save: the INSERT runs at once (IDENTITY key) and waits for an uncommitted
\* INSERT of the same account_id.
InsertAccount(r) ==
    /\ pc[r] = "insert"
    /\ Account(r) \notin open /\ rowLock[Account(r)] = None
    /\ op[r].amount <= MaxBalance
    /\ rowLock' = [rowLock EXCEPT ![Account(r)] = r]
    /\ Goto(r, "commit")
    /\ UNCHANGED <<table, op, seen, reply, idle>>

\* DataIntegrityViolationException: the unique constraint, or the column.
InsertFails(r) ==
    /\ pc[r] = "insert"
    /\ Account(r) \in open \/ op[r].amount > MaxBalance
    /\ Rollback(r, "500")

CommitCreate(r) ==
    /\ pc[r] = "commit" /\ op[r].kind = "create"
    /\ open' = open \cup {Account(r)}
    /\ currencyOf' = [currencyOf EXCEPT ![Account(r)] = op[r].currency]
    /\ balance' = [balance EXCEPT ![Account(r)] = op[r].amount]
    /\ Unlock(r) /\ Status(r, "201") /\ Goto(r, "close")
    /\ UNCHANGED <<journal, op, seen, idle>>

GetAccount(r) ==
    /\ pc[r] = "read" /\ op[r].kind = "get"
    /\ Account(r) \in open
    /\ Status(r, "200") /\ Goto(r, "close")
    /\ UNCHANGED <<table, rowLock, op, seen, idle>>

-----------------------------------------------------------------------------
\* What a request that has been sent does next.
Continue(r) ==
    \/ Begin(r) \/ BeginTimesOut(r) \/ Close(r) \/ AccountMissing(r)
    \/ LockAccount(r) \/ CurrencyMismatch(r) \/ InsufficientFunds(r)
    \/ BalanceOverflow(r) \/ Apply(r) \/ CommitEntry(r)
    \/ AlreadyExists(r) \/ NotYetThere(r) \/ InsertAccount(r)
    \/ InsertFails(r) \/ CommitCreate(r) \/ GetAccount(r)

\* Mutant of LedgerCrash: what was in flight is sent again.
LedgerCrashRetried ==
    /\ pc' = [r \in Requests |-> IF pc[r] \in {"new", "replied"} THEN pc[r] ELSE "begin"]
    /\ reply' = [r \in Requests |-> IF pc[r] = "replied" THEN reply[r] ELSE "none"]
    /\ rowLock' = [a \in Accounts |-> None]
    /\ UNCHANGED <<table, op, seen>>

\* Mutant of LedgerCrash: without @Transactional the balance of a request about
\* to commit is already there, its row is not.
LedgerCrashHalfWritten ==
    /\ pc' = [r \in Requests |-> IF pc[r] \in {"new", "replied"} THEN pc[r] ELSE "lost"]
    /\ reply' = [r \in Requests |-> IF pc[r] = "replied" THEN reply[r] ELSE "none"]
    /\ rowLock' = [a \in Accounts |-> None]
    /\ balance' = [a \in Accounts |->
          IF a \in open /\ rowLock[a] # None /\ pc[rowLock[a]] = "commit"
          THEN NewBalance(rowLock[a]) ELSE balance[a]]
    /\ UNCHANGED <<open, currencyOf, journal, op, seen>>

\* The process dies: its requests get no answer, the database rolls back what
\* they had not committed.
LedgerCrash ==
    /\ pc' = [r \in Requests |-> IF pc[r] \in {"new", "replied"} THEN pc[r] ELSE "lost"]
    /\ reply' = [r \in Requests |-> IF pc[r] = "replied" THEN reply[r] ELSE "none"]
    /\ rowLock' = [a \in Accounts |-> None]
    /\ UNCHANGED <<table, op, seen>>
=============================================================================
