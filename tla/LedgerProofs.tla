---------------------------- MODULE LedgerProofs ----------------------------
(***************************************************************************)
(* What holds of ledger-service for every set of requests and accounts,    *)
(* every pool size and every number of crashes.                            *)
(***************************************************************************)
EXTENDS LedgerUnderFault, Induction, FiniteSetTheorems, TLAPS

USE PoolMaxAssumption, LedgerAssumption, DbLockAssumption, MaxCrashesAssumption

\* The inductive invariant: types, and the locks that make what a request has
\* read still true when it commits.  Neither half is inductive alone: a debit
\* keeps balance a natural number only because the entity it read is current.
LInv == TypeOK /\ LockDiscipline

LEMMA LInvInit == Init => LInv
<1> SUFFICES ASSUME Init PROVE LInv
  OBVIOUS
<1> USE DEF Init, PoolInit, LedgerInit, FaultInit
<1>1. <<>> \in Seq(Rows)
  OBVIOUS
<1>2. LedgerTypeOK
  BY <1>1 DEF LedgerTypeOK, Stages, Statuses
<1>3. FaultTypeOK /\ idle \in Nat /\ crashes \in 0..MaxCrashes
  <2>1. enabled \in BOOLEAN
    OBVIOUS
  <2>2. call \in [Callers -> {"idle"}]
    OBVIOUS
  <2> QED BY <2>1, <2>2 DEF FaultTypeOK
<1>4. LockDiscipline
  <2>1. \A r \in Requests : pc[r] = "new"
    OBVIOUS
  <2>2. \A a \in Accounts : rowLock[a] = None
    OBVIOUS
  <2> QED BY <2>1, <2>2 DEF LockDiscipline
<1> QED BY <1>2, <1>3, <1>4 DEF LInv, TypeOK

\* A request that holds a lock it can write under reads natural numbers.
LEMMA NewBalanceType ==
  ASSUME LInv, NEW r \in Requests, pc[r] = "commit", op[r].kind \in Entering
  PROVE  NewBalance(r) \in Nat
  BY DEF LInv, TypeOK, LedgerTypeOK, LockDiscipline, NewBalance, Entering

\* Undo of every refusal: only the request's own locks, stage and status change.
LEMMA RollbackStep ==
  ASSUME LInv, NEW r \in Requests, NEW s \in Statuses, Rollback(r, s),
         UNCHANGED <<faultVars, crashes>>
  PROVE  LInv'
  BY DEF LInv, TypeOK, LedgerTypeOK, FaultTypeOK, LockDiscipline, Rollback, Unlock,
         Status, Goto, Account, table, faultVars, Stages

LEMMA RequestStepLInv ==
  ASSUME LInv, NEW r \in Requests, RequestStep(r)
  PROVE  LInv'
<1> USE DEF RequestStep, Goto, Status, Account, table, faultVars, Stages
<1>1. CASE Arrive(r)
  BY <1>1 DEF Arrive, LInv, TypeOK, LedgerTypeOK, FaultTypeOK, LockDiscipline
<1>2. CASE Begin(r)
  BY <1>2 DEF Begin, Borrow, LInv, TypeOK, LedgerTypeOK, FaultTypeOK, LockDiscipline
<1>3. CASE BeginTimesOut(r)
  BY <1>3 DEF BeginTimesOut, BorrowTimesOut, LInv, TypeOK, LedgerTypeOK, FaultTypeOK,
              LockDiscipline, Statuses
<1>4. CASE Close(r)
  BY <1>4 DEF Close, GiveBack, LInv, TypeOK, LedgerTypeOK, FaultTypeOK, LockDiscipline
<1>5. CASE \/ AccountMissing(r) \/ CurrencyMismatch(r) \/ InsufficientFunds(r)
           \/ BalanceOverflow(r) \/ AlreadyExists(r) \/ InsertFails(r)
  <2>1. \E s \in Statuses : Rollback(r, s)
    BY <1>5 DEF AccountMissing, CurrencyMismatch, InsufficientFunds, BalanceOverflow,
                AlreadyExists, InsertFails, Statuses
  <2> QED BY <2>1, RollbackStep
<1>6. CASE LockAccount(r)
  <2>1. TypeOK'
    BY <1>6 DEF LockAccount, LInv, TypeOK, LedgerTypeOK, FaultTypeOK
  <2>2. LockDiscipline'
    BY <1>6 DEF LockAccount, LInv, TypeOK, LedgerTypeOK, LockDiscipline, Entering
  <2> QED BY <2>1, <2>2 DEF LInv
<1>7. CASE Apply(r)
  BY <1>7 DEF Apply, Insufficient, LInv, TypeOK, LedgerTypeOK, FaultTypeOK,
              LockDiscipline, Entering
<1>8. CASE CommitEntry(r)
  <2>1. NewBalance(r) \in Nat
    BY <1>8, NewBalanceType DEF CommitEntry
  <2>2. Row(r) \in Rows
    BY <1>8, <2>1 DEF CommitEntry, Row, Rows, LInv, TypeOK, LedgerTypeOK
  <2>3. journal' \in [Accounts -> Seq(Rows)]
    BY <1>8, <2>2 DEF CommitEntry, LInv, TypeOK, LedgerTypeOK
  <2>4. TypeOK'
    BY <1>8, <2>1, <2>3 DEF CommitEntry, Unlock, LInv, TypeOK, LedgerTypeOK,
                            FaultTypeOK, Statuses
  <2>5. LockDiscipline'
    BY <1>8 DEF CommitEntry, Unlock, LInv, TypeOK, LedgerTypeOK, LockDiscipline
  <2> QED BY <2>4, <2>5 DEF LInv
<1>9. CASE NotYetThere(r)
  BY <1>9 DEF NotYetThere, LInv, TypeOK, LedgerTypeOK, FaultTypeOK, LockDiscipline,
              Entering
<1>10. CASE InsertAccount(r)
  <2>1. TypeOK'
    BY <1>10 DEF InsertAccount, LInv, TypeOK, LedgerTypeOK, FaultTypeOK
  <2>2. LockDiscipline'
    BY <1>10 DEF InsertAccount, LInv, TypeOK, LedgerTypeOK, LockDiscipline, Entering
  <2> QED BY <2>1, <2>2 DEF LInv
<1>11. CASE CommitCreate(r)
  <2>1. TypeOK'
    BY <1>11 DEF CommitCreate, Unlock, LInv, TypeOK, LedgerTypeOK, FaultTypeOK, Statuses
  <2>2. LockDiscipline'
    BY <1>11 DEF CommitCreate, Unlock, LInv, TypeOK, LedgerTypeOK, LockDiscipline
  <2> QED BY <2>1, <2>2 DEF LInv
<1>12. CASE GetAccount(r)
  BY <1>12 DEF GetAccount, LInv, TypeOK, LedgerTypeOK, FaultTypeOK, LockDiscipline,
               Statuses
<1> QED BY <1>1, <1>2, <1>3, <1>4, <1>5, <1>6, <1>7, <1>8, <1>9, <1>10, <1>11, <1>12
        DEF Continue

LEMMA AdminStepLInv ==
  ASSUME LInv, NEW x \in Callers, AdminStep(x)
  PROVE  LInv'
<1>1. LedgerTypeOK' /\ crashes' \in 0..MaxCrashes
  BY DEF AdminStep, ledgerVars, table, LInv, TypeOK, LedgerTypeOK
<1>2. LockDiscipline'
  BY DEF AdminStep, ledgerVars, table, LInv, LockDiscipline, Account
<1>3. idle' \in Nat /\ FaultTypeOK'
  <2> USE DEF LInv, TypeOK, FaultTypeOK, CallGoto, Enter, Leave, Borrow,
              BorrowTimesOut, GiveBack
  <2>1. CASE InjectCall(x)
    BY <2>1 DEF InjectCall
  <2>2. CASE ResetCall(x)
    BY <2>2 DEF ResetCall
  <2>3. CASE InjectAgain(x)
    BY <2>3 DEF InjectAgain
  <2>4. CASE InjectEnter(x)
    BY <2>4 DEF InjectEnter
  <2>5. CASE AcquireOne(x)
    BY <2>5 DEF AcquireOne
  <2>6. CASE AcquireTimesOut(x)
    BY <2>6 DEF AcquireTimesOut
  <2>7. CASE InjectDone(x)
    BY <2>7 DEF InjectDone
  <2>8. CASE ResetEnter(x)
    BY <2>8 DEF ResetEnter
  <2>9. CASE CloseOne(x)
    BY <2>9 DEF CloseOne
  <2>10. CASE Cleared(x)
    <3>1. enabled' \in BOOLEAN
      BY <2>10, Zenon DEF Cleared
    <3> QED BY <2>10, <3>1 DEF Cleared
  <2> QED BY <2>1, <2>2, <2>3, <2>4, <2>5, <2>6, <2>7, <2>8, <2>9, <2>10
          DEF AdminStep, Proceed
<1> QED BY <1>1, <1>2, <1>3 DEF LInv, TypeOK

LEMMA CrashLInv == LInv /\ Crash => LInv'
<1> SUFFICES ASSUME LInv, Crash PROVE LInv'
  OBVIOUS
<1>1. LedgerTypeOK'
  BY DEF LInv, TypeOK, LedgerTypeOK, Crash, LedgerCrash, table, Stages, Statuses
<1>2. FaultTypeOK' /\ idle' \in Nat /\ crashes' \in 0..MaxCrashes
  <2>1. enabled' \in BOOLEAN
    BY DEF Crash, FaultCrash
  <2>2. crashes' \in 0..MaxCrashes
    BY DEF LInv, TypeOK, Crash
  <2> QED BY <2>1, <2>2 DEF FaultTypeOK, Crash, FaultCrash
<1>3. LockDiscipline'
  <2>1. \A r \in Requests : pc'[r] \notin {"apply", "insert", "commit"}
    BY DEF Crash, LedgerCrash
  <2>2. \A a \in Accounts : rowLock'[a] = None
    BY DEF Crash, LedgerCrash
  <2> QED BY <2>1, <2>2 DEF LockDiscipline
<1> QED BY <1>1, <1>2, <1>3 DEF LInv, TypeOK

LEMMA LInvStep == LInv /\ [Next]_vars => LInv'
<1> SUFFICES ASSUME LInv, [Next]_vars PROVE LInv'
  OBVIOUS
<1>1. CASE UNCHANGED vars
  <2>1. TypeOK'
    BY <1>1 DEF vars, ledgerVars, faultVars, table, LInv, TypeOK, LedgerTypeOK,
                FaultTypeOK
  <2>2. LockDiscipline'
    BY <1>1 DEF vars, ledgerVars, table, LInv, LockDiscipline, Account
  <2> QED BY <2>1, <2>2 DEF LInv
<1> QED BY <1>1, RequestStepLInv, AdminStepLInv, CrashLInv DEF Next

\* Every variable keeps its type: in particular no debit makes a balance
\* negative.
THEOREM TypeCorrect == Spec => []TypeOK
<1>1. LInv => TypeOK
  BY DEF LInv
<1> QED BY LInvInit, LInvStep, <1>1, PTL DEF Spec

\* Whatever the interleaving, a request about to commit holds the lock on its
\* account and has read its current state.
THEOREM LocksProtectReads == Spec => []LockDiscipline
<1>1. LInv => LockDiscipline
  BY DEF LInv
<1> QED BY LInvInit, LInvStep, <1>1, PTL DEF Spec

-----------------------------------------------------------------------------
(* The fault controller. *)

\* The thread inside the monitor is the only one that changes the list, and
\* it has never taken more than SafeHold connections.
FaultInv ==
    /\ \A x \in Callers : call[x] \in {"acquire", "rollback", "release"} => monitor = x
    /\ monitor # NoCaller => call[monitor] \in {"acquire", "rollback", "release"}
    /\ openHeld <= SafeHold
    /\ \A x \in Callers : call[x] = "acquire" =>
          ~ enabled /\ held = acquired /\ openHeld = acquired
    /\ \A x \in Callers : call[x] = "rollback" => ~ enabled
    /\ FaultConsistent

LEMMA SafeHoldBound == SafeHold \in Nat /\ SafeHold < PoolMax
  BY DEF SafeHold

LEMMA FaultInvInit == Init => FaultInv
<1> SUFFICES ASSUME Init PROVE FaultInv
  OBVIOUS
<1>1. \A x \in Callers : call[x] = "idle"
  BY DEF Init, FaultInit
<1>2. monitor = NoCaller /\ openHeld = 0 /\ held = 0 /\ ~ enabled
  BY DEF Init, FaultInit
<1> QED BY <1>1, <1>2, SafeHoldBound DEF FaultInv, FaultConsistent

LEMMA AdminStepFaultInv ==
  ASSUME TypeOK, FaultInv, NEW x \in Callers, AdminStep(x)
  PROVE  FaultInv'
<1> USE SafeHoldBound DEF TypeOK, FaultTypeOK, FaultInv, FaultConsistent, CallGoto
<1>0. SafeHold' = SafeHold
  BY DEF SafeHold
<1>1. CASE InjectCall(x)
  BY <1>0, <1>1 DEF InjectCall
<1>2. CASE ResetCall(x)
  BY <1>0, <1>2 DEF ResetCall
<1>3. CASE InjectAgain(x)
  BY <1>0, <1>3 DEF InjectAgain
<1>4. CASE InjectEnter(x)
  BY <1>0, <1>4 DEF InjectEnter, Enter
<1>5. CASE AcquireOne(x)
  BY <1>0, <1>5 DEF AcquireOne
<1>6. CASE AcquireTimesOut(x)
  BY <1>0, <1>6 DEF AcquireTimesOut
<1>7. CASE InjectDone(x)
  BY <1>0, <1>7 DEF InjectDone, Leave
<1>8. CASE ResetEnter(x)
  BY <1>0, <1>8 DEF ResetEnter, Enter
<1>9. CASE CloseOne(x)
  BY <1>0, <1>9 DEF CloseOne
<1>10. CASE Cleared(x)
  BY <1>0, <1>10 DEF Cleared, Leave
<1> QED BY <1>1, <1>2, <1>3, <1>4, <1>5, <1>6, <1>7, <1>8, <1>9, <1>10
        DEF AdminStep, Proceed

LEMMA FaultInvStep == TypeOK /\ FaultInv /\ [Next]_vars => FaultInv'
<1> SUFFICES ASSUME TypeOK, FaultInv, [Next]_vars PROVE FaultInv'
  OBVIOUS
<1>1. CASE UNCHANGED faultVars
  BY <1>1 DEF faultVars, FaultInv, FaultConsistent, SafeHold
<1>2. CASE Crash
  <2>1. /\ \A x \in Callers : call'[x] = "idle"
        /\ monitor' = NoCaller /\ openHeld' = 0 /\ held' = 0 /\ ~ enabled'
    BY <1>2 DEF Crash, FaultCrash
  <2> QED BY <2>1, SafeHoldBound DEF FaultInv, FaultConsistent, SafeHold
<1> QED BY <1>1, <1>2, AdminStepFaultInv DEF Next, RequestStep, vars, faultVars

\* The fault alone never empties the pool, for any pool size, any configured
\* number of connections to hold and any number of concurrent injections.
THEOREM FaultNeverEmptiesPool == Spec => []FaultLeavesOne
<1>1. TypeOK /\ FaultInv => FaultLeavesOne
  BY SafeHoldBound DEF FaultInv, FaultLeavesOne, TypeOK, FaultTypeOK
<1> QED BY FaultInvInit, FaultInvStep, TypeCorrect, <1>1, PTL DEF Spec

\* Whenever no call is inside the service the fault is fully on or fully off.
THEOREM FaultIsConsistent == Spec => []FaultConsistent
<1>1. FaultInv => FaultConsistent
  BY DEF FaultInv
<1> QED BY FaultInvInit, FaultInvStep, TypeCorrect, <1>1, PTL DEF Spec

-----------------------------------------------------------------------------
(* Refinement. *)

\* Only a request that has committed has rows.
RowsAreCommitted ==
    \A a \in Accounts : \A i \in 1..Len(journal[a]) :
        pc[journal[a][i].request] \in {"close", "replied", "lost"}

LEMMA RowsInit == Init => RowsAreCommitted
  BY DEF Init, LedgerInit, RowsAreCommitted

\* Stages move forward only, and the journal changes in one action.
LEMMA RowsStep == LInv /\ RowsAreCommitted /\ [Next]_vars => RowsAreCommitted'
<1> SUFFICES ASSUME LInv, RowsAreCommitted, [Next]_vars PROVE RowsAreCommitted'
  OBVIOUS
<1> DEFINE Ended == {"close", "replied", "lost"}
<1>1. ASSUME journal' = journal,
             \A r \in Requests : pc[r] \in Ended => pc'[r] \in Ended
      PROVE  RowsAreCommitted'
  <2> SUFFICES ASSUME NEW a \in Accounts, NEW i \in 1..Len(journal[a])
               PROVE  pc'[journal[a][i].request] \in Ended
    BY <1>1 DEF RowsAreCommitted
  <2>1. journal[a][i] \in Rows
    BY DEF LInv, TypeOK, LedgerTypeOK
  <2>2. journal[a][i].request \in Requests
    BY <2>1 DEF Rows
  <2> QED BY <1>1, <2>2 DEF RowsAreCommitted
<1>2. ASSUME NEW r \in Requests, RequestStep(r), CommitEntry(r) PROVE RowsAreCommitted'
  <2> SUFFICES ASSUME NEW a \in Accounts, NEW i \in 1..Len(journal'[a])
               PROVE  pc'[journal'[a][i].request] \in Ended
    BY DEF RowsAreCommitted
  <2>0. journal \in [Accounts -> Seq(Rows)] /\ pc \in [Requests -> Stages] /\ r \in Requests
    BY DEF LInv, TypeOK, LedgerTypeOK
  <2>1. pc' = [pc EXCEPT ![r] = "close"]
    BY <1>2 DEF CommitEntry, Goto
  <2>2. CASE a = Account(r) /\ i = Len(journal[a]) + 1
    <3>1. journal'[a][i] = Row(r)
      BY <1>2, <2>0, <2>2 DEF CommitEntry
    <3> QED BY <3>1, <2>0, <2>1 DEF Row
  <2>3. CASE ~ (a = Account(r) /\ i = Len(journal[a]) + 1)
    <3>1. i \in 1..Len(journal[a]) /\ journal'[a][i] = journal[a][i]
      BY <1>2, <2>0, <2>3 DEF CommitEntry
    <3>2. pc[journal[a][i].request] \in Ended
      BY <3>1 DEF RowsAreCommitted
    <3>3. journal[a][i] \in Rows
      BY <2>0, <3>1
    <3>4. journal[a][i].request \in Requests
      BY <3>3 DEF Rows
    <3> QED BY <2>0, <2>1, <3>1, <3>2, <3>4
  <2> QED BY <2>2, <2>3
<1>3. CASE \/ UNCHANGED vars
           \/ Crash
           \/ \E x \in Callers : AdminStep(x)
           \/ \E r \in Requests : RequestStep(r) /\ ~ CommitEntry(r)
  <2>1. journal' = journal
    BY <1>3 DEF vars, ledgerVars, table, Crash, LedgerCrash, AdminStep, RequestStep,
                Continue, Arrive, Begin, BeginTimesOut, Close, AccountMissing,
                LockAccount, CurrencyMismatch, InsufficientFunds, BalanceOverflow,
                Apply, AlreadyExists, NotYetThere, InsertAccount, InsertFails,
                CommitCreate, GetAccount, Rollback
  <2>2. \A r \in Requests : pc[r] \in Ended => pc'[r] \in Ended
    <3>1. pc \in [Requests -> Stages]
      BY DEF LInv, TypeOK, LedgerTypeOK
    <3> QED
      BY <1>3, <3>1
         DEF vars, ledgerVars, Crash, LedgerCrash, AdminStep, RequestStep,
             Continue, Arrive, Begin, BeginTimesOut, Close, AccountMissing,
             LockAccount, CurrencyMismatch, InsufficientFunds, BalanceOverflow,
             Apply, AlreadyExists, NotYetThere, InsertAccount, InsertFails,
             CommitCreate, GetAccount, Rollback, Goto
  <2> QED BY <1>1, <2>1, <2>2
<1> QED BY <1>2, <1>3 DEF Next

LEMMA InitRefines == Init => Ledger!Init
  BY DEF Init, LedgerInit, Ledger!Init

\* The only steps the atomic ledger sees are the two kinds of commit; the
\* lock discipline makes them its Debit, Credit and OpenAccount.
LEMMA StepRefines ==
  LInv /\ RowsAreCommitted /\ [Next]_vars => [Ledger!Next]_Ledger!vars
<1> SUFFICES ASSUME LInv, RowsAreCommitted, [Next]_vars
             PROVE  Ledger!Next \/ UNCHANGED <<open, balance, journal>>
  BY DEF Ledger!vars
<1>1. ASSUME NEW r \in Requests, CommitEntry(r)
      PROVE  Ledger!Next
  <2> DEFINE a == Account(r)
             n == op[r].amount
  <2>0. pc[r] = "commit" /\ op[r].kind \in Entering
    BY <1>1 DEF CommitEntry
  <2>1. op[r] \in Ops /\ a \in Accounts /\ n \in Amounts /\ n \in Nat
    BY DEF LInv, TypeOK, LedgerTypeOK, Account, Amounts
  <2>2. /\ a \in open /\ seen[r] = balance[a] /\ balance[a] \in Nat
        /\ op[r].kind = "debit" => n <= seen[r]
    BY <2>0, <2>1 DEF LInv, TypeOK, LedgerTypeOK, LockDiscipline
  <2>3. ~ Ledger!Posted(r)
    BY <2>0 DEF Ledger!Posted, RowsAreCommitted
  <2>4. Ledger!Post(r, a, op[r].kind, n, NewBalance(r))
    BY <1>1, <2>2, <2>3 DEF CommitEntry, Ledger!Post, Row
  <2>5. CASE op[r].kind = "debit"
    <3>1. Ledger!Debit(r, a, n)
      BY <2>2, <2>4, <2>5 DEF Ledger!Debit, NewBalance
    <3> QED BY <2>1, <3>1 DEF Ledger!Next
  <2>6. CASE op[r].kind = "credit"
    <3>1. Ledger!Credit(r, a, n)
      BY <2>2, <2>4, <2>6 DEF Ledger!Credit, NewBalance
    <3> QED BY <2>1, <3>1 DEF Ledger!Next
  <2> QED BY <2>0, <2>5, <2>6 DEF Entering
<1>2. ASSUME NEW r \in Requests, CommitCreate(r)
      PROVE  Ledger!Next
  <2>1. op[r] \in Ops /\ Account(r) \in Accounts /\ op[r].amount \in Amounts
    BY DEF LInv, TypeOK, LedgerTypeOK, Account, Amounts
  <2>2. Account(r) \notin open
    BY <1>2 DEF CommitCreate, LInv, LockDiscipline
  <2>3. Ledger!OpenAccount(Account(r), op[r].amount)
    BY <1>2, <2>2 DEF CommitCreate, Ledger!OpenAccount
  <2> QED BY <2>1, <2>3 DEF Ledger!Next
<1>3. CASE \/ UNCHANGED vars
           \/ Crash
           \/ \E x \in Callers : AdminStep(x)
           \/ \E r \in Requests :
                 RequestStep(r) /\ ~ CommitEntry(r) /\ ~ CommitCreate(r)
  BY <1>3 DEF vars, ledgerVars, table, Crash, LedgerCrash, AdminStep, RequestStep,
              Continue, Arrive, Begin, BeginTimesOut, Close, AccountMissing,
              LockAccount, CurrencyMismatch, InsufficientFunds, BalanceOverflow,
              Apply, AlreadyExists, NotYetThere, InsertAccount, InsertFails,
              GetAccount, Rollback
<1> QED BY <1>1, <1>2, <1>3 DEF Next

\* ledger-service, with its connection pool, row locks, fault controller and
\* crashes, implements the atomic ledger.
THEOREM Refinement == Spec => ImplementsAtomicLedger
<1>1. Spec => []LInv
  BY LInvInit, LInvStep, PTL DEF Spec
<1>2. Spec => []RowsAreCommitted
  BY <1>1, RowsInit, RowsStep, PTL DEF Spec
<1> QED BY <1>1, <1>2, InitRefines, StepRefines, PTL
        DEF Spec, ImplementsAtomicLedger, Ledger!Spec

-----------------------------------------------------------------------------
(* The journal. *)

LEMMA ChainInit == Init => JournalChain
  BY DEF Init, LedgerInit, JournalChain

\* A commit appends the row that follows the balance it was computed from.
LEMMA CommitEntryChain ==
  ASSUME LInv, JournalChain, NEW r \in Requests, CommitEntry(r)
  PROVE  JournalChain'
<1> DEFINE a == Account(r)
           j == journal[a]
<1>0. /\ journal \in [Accounts -> Seq(Rows)] /\ a \in Accounts /\ j \in Seq(Rows)
      /\ balance \in [Accounts -> Nat]
  BY DEF LInv, TypeOK, LedgerTypeOK, Account
<1>1. a \in open /\ seen[r] = balance[a] /\ op[r].kind \in Entering
  BY DEF CommitEntry, LInv, LockDiscipline
<1>2. Follows(Row(r), balance[a])
  BY <1>1 DEF Follows, Row, NewBalance
<1>3. /\ journal' = [journal EXCEPT ![a] = Append(j, Row(r))]
      /\ balance' = [balance EXCEPT ![a] = NewBalance(r)]
      /\ open' = open
  BY DEF CommitEntry
<1>4. Row(r).balanceAfter = NewBalance(r)
  BY DEF Row
<1>5. SUFFICES ASSUME NEW c \in Accounts
      PROVE /\ journal'[c] # <<>> =>
                  c \in open /\ balance'[c] = journal'[c][Len(journal'[c])].balanceAfter
            /\ \A i \in 1..(Len(journal'[c]) - 1) :
                  Follows(journal'[c][i+1], journal'[c][i].balanceAfter)
  BY <1>3 DEF JournalChain, Follows
<1>6. CASE c # a
  BY <1>0, <1>3, <1>6 DEF JournalChain
<1>7. CASE c = a
  <2>1. journal'[c] = Append(j, Row(r)) /\ Len(journal'[c]) = Len(j) + 1
    BY <1>0, <1>3, <1>7
  <2>2. balance'[c] = journal'[c][Len(journal'[c])].balanceAfter
    BY <1>0, <1>3, <1>4, <1>7, <2>1
  <2>3. ASSUME NEW i \in 1..(Len(journal'[c]) - 1)
        PROVE  Follows(journal'[c][i+1], journal'[c][i].balanceAfter)
    <3>1. CASE i = Len(j)
      <4>1. journal'[c][i+1] = Row(r) /\ journal'[c][i] = j[i]
        BY <1>0, <2>1, <3>1
      <4>2. balance[a] = j[i].balanceAfter
        BY <1>0, <2>1, <3>1 DEF JournalChain
      <4> QED BY <1>2, <4>1, <4>2
    <3>2. CASE i # Len(j)
      <4>1. /\ i \in 1..(Len(j) - 1)
            /\ journal'[c][i+1] = j[i+1] /\ journal'[c][i] = j[i]
        BY <1>0, <2>1, <3>2
      <4> QED BY <1>0, <4>1 DEF JournalChain
    <3> QED BY <3>1, <3>2
  <2> QED BY <1>1, <1>7, <2>2, <2>3
<1> QED BY <1>6, <1>7

LEMMA ChainStep == LInv /\ JournalChain /\ [Next]_vars => JournalChain'
<1> SUFFICES ASSUME LInv, JournalChain, [Next]_vars PROVE JournalChain'
  OBVIOUS
<1>1. ASSUME NEW r \in Requests, CommitEntry(r) PROVE JournalChain'
  BY <1>1, CommitEntryChain
<1>2. ASSUME NEW r \in Requests, CommitCreate(r) PROVE JournalChain'
  <2>1. Account(r) \notin open
    BY <1>2 DEF CommitCreate, LInv, LockDiscipline
  <2>2. journal[Account(r)] = <<>>
    BY <2>1 DEF JournalChain, LInv, TypeOK, LedgerTypeOK, Account
  <2>3. /\ journal' = journal /\ open \subseteq open'
        /\ \A c \in Accounts : c # Account(r) => balance'[c] = balance[c]
    BY <1>2 DEF CommitCreate, LInv, TypeOK, LedgerTypeOK
  <2> QED BY <2>2, <2>3 DEF JournalChain, Follows
<1>3. CASE \/ UNCHANGED vars
           \/ Crash
           \/ \E x \in Callers : AdminStep(x)
           \/ \E r \in Requests :
                 RequestStep(r) /\ ~ CommitEntry(r) /\ ~ CommitCreate(r)
  <2>1. UNCHANGED <<open, balance, journal>>
    BY <1>3 DEF vars, ledgerVars, table, Crash, LedgerCrash, AdminStep, RequestStep,
                Continue, Arrive, Begin, BeginTimesOut, Close, AccountMissing,
                LockAccount, CurrencyMismatch, InsufficientFunds, BalanceOverflow,
                Apply, AlreadyExists, NotYetThere, InsertAccount, InsertFails,
                GetAccount, Rollback
  <2> QED BY <2>1 DEF JournalChain, Follows
<1> QED BY <1>1, <1>2, <1>3 DEF Next

\* No update is lost and no row stands without its balance, for any number of
\* concurrent debits and credits and any crashes.
THEOREM JournalIsChained == Spec => []JournalChain
<1>1. Spec => []LInv
  BY LInvInit, LInvStep, PTL DEF Spec
<1> QED BY <1>1, ChainInit, ChainStep, PTL DEF Spec

-----------------------------------------------------------------------------
(* The connections. *)

InUse == {r \in Requests : InTransaction(r)}

LEMMA InUseFinite == IsFiniteSet(InUse) /\ Cardinality(InUse) \in Nat
  BY RequestsAssumption, FS_Subset, FS_CardinalityType DEF InUse

LEMMA ConservedInit == Init => ConnectionsConserved
<1> SUFFICES ASSUME Init PROVE ConnectionsConserved
  OBVIOUS
<1>1. {r \in Requests : InTransaction(r)} = {}
  BY DEF Init, LedgerInit, InTransaction
<1> QED BY <1>1, FS_EmptySet DEF Init, PoolInit, FaultInit, ConnectionsConserved

\* Each step moves a connection between the pool, a request and the fault, or
\* leaves all three counts alone.
LEMMA ConservedStep ==
  TypeOK /\ ConnectionsConserved /\ [Next]_vars => ConnectionsConserved'
<1> SUFFICES ASSUME TypeOK, ConnectionsConserved, [Next]_vars
             PROVE  ConnectionsConserved'
  OBVIOUS
<1> DEFINE U == {r \in Requests : InTransaction(r)}
<1>0. /\ idle \in Nat /\ openHeld \in Nat /\ pc \in [Requests -> Stages]
      /\ IsFiniteSet(U) /\ Cardinality(U) \in Nat
      /\ idle + openHeld + Cardinality(U) = PoolMax
  BY InUseFinite DEF InUse, TypeOK, LedgerTypeOK, FaultTypeOK, ConnectionsConserved
<1>1. ASSUME U' = U, idle' + openHeld' = idle + openHeld
      PROVE  ConnectionsConserved'
  BY <1>0, <1>1 DEF ConnectionsConserved
<1>2. ASSUME NEW r \in Requests, RequestStep(r), Begin(r)
      PROVE  ConnectionsConserved'
  <2>1. U' = U \cup {r} /\ r \notin U
    BY <1>0, <1>2 DEF Begin, Goto, InTransaction
  <2> HIDE DEF U
  <2>2. Cardinality(U \cup {r}) = Cardinality(U) + 1
    BY <1>0, <2>1, FS_AddElement
  <2>3. idle' = idle - 1 /\ openHeld' = openHeld
    BY <1>2 DEF RequestStep, faultVars, Begin, Borrow
  <2>4. idle' + openHeld' + Cardinality(U') = PoolMax
    BY <1>0, <2>1, <2>2, <2>3
  <2> QED BY <2>4 DEF ConnectionsConserved, U
<1>3. ASSUME NEW r \in Requests, RequestStep(r), Close(r)
      PROVE  ConnectionsConserved'
  <2>1. U' = U \ {r} /\ r \in U
    BY <1>0, <1>3 DEF Close, Goto, InTransaction
  <2> HIDE DEF U
  <2>2. Cardinality(U \ {r}) = Cardinality(U) - 1
    BY <1>0, <2>1, FS_RemoveElement
  <2>3. idle' = idle + 1 /\ openHeld' = openHeld
    BY <1>3 DEF RequestStep, faultVars, Close, GiveBack
  <2>4. idle' + openHeld' + Cardinality(U') = PoolMax
    BY <1>0, <2>1, <2>2, <2>3
  <2> QED BY <2>4 DEF ConnectionsConserved, U
<1>4. ASSUME NEW r \in Requests, RequestStep(r), ~ Begin(r), ~ Close(r)
      PROVE  ConnectionsConserved'
  <2>1. idle' = idle /\ openHeld' = openHeld
    BY <1>4 DEF RequestStep, faultVars, Continue, Arrive, BeginTimesOut, BorrowTimesOut,
                AccountMissing, LockAccount, CurrencyMismatch, InsufficientFunds,
                BalanceOverflow, Apply, CommitEntry, AlreadyExists, NotYetThere,
                InsertAccount, InsertFails, CommitCreate, GetAccount, Rollback
  <2>2. \A s \in Requests : InTransaction(s)' <=> InTransaction(s)
    BY <1>0, <1>4
       DEF RequestStep, InTransaction, Goto, Continue, Arrive, BeginTimesOut,
           AccountMissing, LockAccount, CurrencyMismatch, InsufficientFunds,
           BalanceOverflow, Apply, CommitEntry, AlreadyExists, NotYetThere,
           InsertAccount, InsertFails, CommitCreate, GetAccount, Rollback
  <2> QED BY <1>1, <2>1, <2>2
<1>5. ASSUME NEW x \in Callers, AdminStep(x)
      PROVE  ConnectionsConserved'
  <2>1. U' = U
    BY <1>5 DEF AdminStep, ledgerVars, InTransaction
  <2>2. CASE AcquireOne(x)
    BY <1>0, <1>1, <2>1, <2>2 DEF AcquireOne, Borrow
  <2>3. CASE CloseOne(x)
    BY <1>0, <1>1, <2>1, <2>3 DEF CloseOne, GiveBack
  <2>4. CASE ~ AcquireOne(x) /\ ~ CloseOne(x)
    <3>1. idle' = idle /\ openHeld' = openHeld
      BY <1>5, <2>4
         DEF AdminStep, Proceed, InjectCall, ResetCall, InjectAgain, InjectEnter,
             AcquireTimesOut, InjectDone, ResetEnter, Cleared, BorrowTimesOut
    <3> QED BY <1>1, <2>1, <3>1
  <2> QED BY <2>2, <2>3, <2>4
<1>6. CASE Crash
  <2>1. U' = {}
    BY <1>0, <1>6 DEF Crash, LedgerCrash, InTransaction
  <2> QED BY <1>6, <2>1, FS_EmptySet DEF Crash, FaultCrash, ConnectionsConserved
<1>7. CASE UNCHANGED vars
  <2>1. U' = U /\ idle' = idle /\ openHeld' = openHeld
    BY <1>7 DEF vars, ledgerVars, faultVars, InTransaction
  <2> QED BY <1>1, <2>1
<1> QED BY <1>2, <1>3, <1>4, <1>5, <1>6, <1>7 DEF Next

\* No connection leaks, on any path through a request, an injection that has
\* to roll back, a reset or a crash.
THEOREM ConnectionsAreConserved == Spec => []ConnectionsConserved
  BY TypeCorrect, ConservedInit, ConservedStep, PTL DEF Spec

-----------------------------------------------------------------------------
(* Replies. *)

\* An account is opened by one commit only: the first request answered 201
\* has put it into open, where the lock discipline keeps every other commit out.
LEMMA CreatedOnceStep == LInv /\ CreatedOnce /\ [Next]_vars => CreatedOnce'
<1> SUFFICES ASSUME LInv, CreatedOnce, [Next]_vars PROVE CreatedOnce'
  OBVIOUS
<1>0. reply \in [Requests -> Statuses] /\ op' = op
  BY DEF LInv, TypeOK, LedgerTypeOK, vars, ledgerVars, Next, Crash, LedgerCrash, AdminStep,
         RequestStep, Continue, Arrive, Begin, BeginTimesOut, Close, AccountMissing,
         LockAccount, CurrencyMismatch, InsufficientFunds, BalanceOverflow, Apply,
         CommitEntry, AlreadyExists, NotYetThere, InsertAccount, InsertFails,
         CommitCreate, GetAccount, Rollback
<1>1. ASSUME NEW r \in Requests, CommitCreate(r) PROVE CreatedOnce'
  <2>1. Account(r) \notin open
    BY <1>1 DEF CommitCreate, LInv, LockDiscipline
  <2>2. open' = open \cup {Account(r)} /\ reply' = [reply EXCEPT ![r] = "201"]
    BY <1>1 DEF CommitCreate, Status
  <2> QED BY <1>0, <2>1, <2>2 DEF CreatedOnce, Account
<1>2. CASE \/ UNCHANGED vars
           \/ Crash
           \/ \E x \in Callers : AdminStep(x)
           \/ \E r \in Requests : RequestStep(r) /\ ~ CommitCreate(r)
  <2>1. open' = open
    BY <1>2 DEF vars, ledgerVars, table, Crash, LedgerCrash, AdminStep, RequestStep,
                Continue, Arrive, Begin, BeginTimesOut, Close, AccountMissing,
                LockAccount, CurrencyMismatch, InsufficientFunds, BalanceOverflow,
                Apply, CommitEntry, AlreadyExists, NotYetThere, InsertAccount,
                InsertFails, GetAccount, Rollback
  <2>2. \A s \in Requests : reply'[s] = "201" => reply[s] = "201"
    BY <1>0, <1>2
       DEF vars, ledgerVars, table, Crash, LedgerCrash, AdminStep, RequestStep,
           Continue, Arrive, Begin, BeginTimesOut, Close, AccountMissing,
           LockAccount, CurrencyMismatch, InsufficientFunds, BalanceOverflow,
           Apply, CommitEntry, AlreadyExists, NotYetThere, InsertAccount,
           InsertFails, GetAccount, Rollback, Status
  <2> QED BY <1>0, <2>1, <2>2 DEF CreatedOnce, Account
<1> QED BY <1>1, <1>2 DEF Next

\* At most one request is told that it has created an account, for any number
\* of concurrent creations that have all found it missing.
THEOREM AccountsAreCreatedOnce == Spec => []CreatedOnce
<1>1. Init => CreatedOnce
  BY DEF Init, LedgerInit, CreatedOnce
<1>2. Spec => []LInv
  BY LInvInit, LInvStep, PTL DEF Spec
<1> QED BY <1>1, <1>2, CreatedOnceStep, PTL DEF Spec

\* Rows of a request are on its account, there is at most one of them, and
\* whether there is one is what its reply says, from the commit on.
RepliesAgree ==
    \A r \in Requests :
        /\ \A w \in RowsOf(r) : w[1] = Account(r) /\ op[r].kind \in Entering
        /\ \A v, w \in RowsOf(r) : v = w
        /\ pc[r] \in {"close", "replied"} /\ reply[r] = "200" /\ op[r].kind \in Entering
              => RowsOf(r) # {}
        /\ pc[r] \in {"close", "replied"} /\ reply[r] # "200" => RowsOf(r) = {}

LEMMA RowsOfIsPairs ==
  \A r, w : w \in RowsOf(r) <=> \E a \in Accounts : \E i \in DOMAIN journal[a] :
                                   w = <<a, i>> /\ journal[a][i].request = r
  BY DEF RowsOf

\* RepliesAgree says of single rows what ReplyMatchesJournal counts.
LEMMA AgreeingRepliesMatch == RepliesAgree => ReplyMatchesJournal
<1> SUFFICES ASSUME RepliesAgree, NEW r \in Requests
             PROVE  /\ \A w \in RowsOf(r) : w[1] = Account(r) /\ op[r].kind \in Entering
                    /\ pc[r] = "replied" /\ reply[r] = "200" /\ op[r].kind \in Entering
                          => Cardinality(RowsOf(r)) = 1
                    /\ pc[r] = "replied" /\ reply[r] # "200" => RowsOf(r) = {}
                    /\ Cardinality(RowsOf(r)) <= 1
  BY DEF ReplyMatchesJournal
<1> DEFINE R == RowsOf(r)
<1>1. \A v, w \in R : v = w
  BY DEF RepliesAgree
<1>2. CASE R = {}
  <2>1. Cardinality(R) = 0
    BY <1>2, FS_EmptySet
  <2> QED BY <1>2, <2>1 DEF RepliesAgree
<1>3. CASE R # {}
  <2>1. PICK w \in R : TRUE
    BY <1>3
  <2>2. R = {w}
    BY <1>1, <2>1
  <2> HIDE DEF R
  <2>3. Cardinality(R) = 1
    BY <2>2, FS_Singleton
  <2> QED BY <1>3, <2>3 DEF RepliesAgree, R
<1> QED BY <1>2, <1>3

\* The commit of request r adds one row, to its own account.
LEMMA CommitEntryRows ==
  ASSUME LInv, NEW r \in Requests, CommitEntry(r), NEW s \in Requests
  PROVE  RowsOf(s)' = IF s = r THEN RowsOf(s) \cup {<<Account(r), Len(journal[Account(r)]) + 1>>}
                              ELSE RowsOf(s)
<1> DEFINE a == Account(r)
           n == Len(journal[a]) + 1
<1>0. /\ journal \in [Accounts -> Seq(Rows)] /\ a \in Accounts /\ journal[a] \in Seq(Rows)
      /\ journal' = [journal EXCEPT ![a] = Append(journal[a], Row(r))]
  BY DEF CommitEntry, LInv, TypeOK, LedgerTypeOK, Account
<1>1. /\ DOMAIN journal'[a] = 1..n /\ DOMAIN journal[a] = 1..(n - 1) /\ n \in Nat \ {0}
      /\ journal'[a][n].request = r
      /\ \A i \in 1..(n - 1) : journal'[a][i] = journal[a][i]
  BY <1>0 DEF Row
<1>2. \A c \in Accounts : c # a => journal'[c] = journal[c]
  BY <1>0
<1> HIDE DEF a, n
<1>3. ASSUME NEW w PROVE w \in RowsOf(s)' <=> w \in RowsOf(s) \/ (s = r /\ w = <<a, n>>)
  <2>1. w \in RowsOf(s)' <=> \E c \in Accounts : \E i \in DOMAIN journal'[c] :
                                w = <<c, i>> /\ journal'[c][i].request = s
    BY DEF RowsOf
  <2>2. ASSUME NEW c \in Accounts, NEW i \in DOMAIN journal'[c],
               w = <<c, i>>, journal'[c][i].request = s
        PROVE  w \in RowsOf(s) \/ (s = r /\ w = <<a, n>>)
    <3>1. CASE c = a /\ i = n
      BY <1>1, <2>2, <3>1
    <3>2. CASE ~ (c = a /\ i = n)
      <4>1. i \in DOMAIN journal[c] /\ journal'[c][i] = journal[c][i]
        BY <1>1, <1>2, <3>2
      <4> QED BY <2>2, <4>1, RowsOfIsPairs
    <3> QED BY <3>1, <3>2
  <2>3. ASSUME w \in RowsOf(s) PROVE w \in RowsOf(s)'
    <3>0. PICK c \in Accounts : \E i \in DOMAIN journal[c] :
             w = <<c, i>> /\ journal[c][i].request = s
      BY <2>3, RowsOfIsPairs
    <3>1. PICK i \in DOMAIN journal[c] : w = <<c, i>> /\ journal[c][i].request = s
      BY <3>0
    <3>2. i \in DOMAIN journal'[c] /\ journal'[c][i] = journal[c][i]
      BY <1>1, <1>2, <3>1
    <3> QED BY <2>1, <3>1, <3>2
  <2>4. s = r /\ w = <<a, n>> => w \in RowsOf(s)'
    BY <1>0, <1>1, <2>1
  <2> QED BY <2>1, <2>2, <2>3, <2>4
<1>4. CASE s = r
  BY <1>3, <1>4 DEF a, n
<1>5. CASE s # r
  <2>1. \A w : w \in RowsOf(s)' <=> w \in RowsOf(s)
    BY <1>3, <1>5
  <2>2. RowsOf(s)' = RowsOf(s)
    <3> DEFINE A == RowsOf(s)'
               B == RowsOf(s)
    <3>1. \A w : w \in A <=> w \in B
      BY <2>1
    <3> HIDE DEF A, B
    <3>2. A = B
      BY <3>1
    <3> QED BY <3>2 DEF A, B
  <2> QED BY <1>5, <2>2
<1> QED BY <1>4, <1>5

\* Before its commit a request has no row.
LEMMA NoRowsYet ==
  ASSUME LInv, RowsAreCommitted, NEW r \in Requests, pc[r] \notin {"close", "replied", "lost"}
  PROVE  RowsOf(r) = {}
<1>1. ASSUME NEW w \in RowsOf(r) PROVE FALSE
  <2>0. PICK a \in Accounts : \E i \in DOMAIN journal[a] : journal[a][i].request = r
    BY RowsOfIsPairs
  <2>1. PICK i \in DOMAIN journal[a] : journal[a][i].request = r
    BY <2>0
  <2>2. i \in 1..Len(journal[a])
    BY DEF LInv, TypeOK, LedgerTypeOK
  <2> QED BY <2>1, <2>2 DEF RowsAreCommitted
<1> QED BY <1>1

LEMMA RepliesInit == Init => RepliesAgree
<1> SUFFICES ASSUME Init PROVE RepliesAgree
  OBVIOUS
<1>1. ASSUME NEW r \in Requests PROVE RowsOf(r) = {} /\ pc[r] = "new"
  BY DEF Init, LedgerInit, RowsOf
<1> QED BY <1>1 DEF RepliesAgree

\* A reply is decided by the step that ends the transaction: the commit of an
\* entry writes its row and says 200, every other end writes none.
LEMMA RepliesStep ==
  LInv /\ RowsAreCommitted /\ RepliesAgree /\ [Next]_vars => RepliesAgree'
<1> SUFFICES ASSUME LInv, RowsAreCommitted, RepliesAgree, [Next]_vars
             PROVE  RepliesAgree'
  OBVIOUS
<1>0. /\ op' = op /\ op \in [Requests -> Ops]
      /\ pc \in [Requests -> Stages] /\ reply \in [Requests -> Statuses]
  BY DEF LInv, TypeOK, LedgerTypeOK, vars, ledgerVars, Next, Crash, LedgerCrash, AdminStep,
         RequestStep, Continue, Arrive, Begin, BeginTimesOut, Close, AccountMissing,
         LockAccount, CurrencyMismatch, InsufficientFunds, BalanceOverflow, Apply,
         CommitEntry, AlreadyExists, NotYetThere, InsertAccount, InsertFails,
         CommitCreate, GetAccount, Rollback
<1> DEFINE Ended(s) == pc[s] \in {"close", "replied"}
           Decided(s) == /\ reply[s] = "200" /\ op[s].kind \in Entering => RowsOf(s) # {}
                         /\ reply[s] # "200" => RowsOf(s) = {}
<1>1. ASSUME NEW r \in Requests, CommitEntry(r) PROVE RepliesAgree'
  <2>1. RowsOf(r) = {} /\ op[r].kind \in Entering
    BY <1>1, NoRowsYet DEF CommitEntry
  <2>2. /\ pc' = [pc EXCEPT ![r] = "close"]
        /\ reply' = [reply EXCEPT ![r] = "200"]
    BY <1>1 DEF CommitEntry, Goto, Status
  <2> DEFINE new == <<Account(r), Len(journal[Account(r)]) + 1>>
  <2>3. RowsOf(r)' = {new} /\ \A s \in Requests : s # r => RowsOf(s)' = RowsOf(s)
    BY <1>1, <2>1, CommitEntryRows
  <2>4. new[1] = Account(r)
    OBVIOUS
  <2> HIDE DEF new
  <2>5. ASSUME NEW s \in Requests
        PROVE  /\ \A w \in RowsOf(s)' : w[1] = Account(s) /\ op[s].kind \in Entering
               /\ \A v, w \in RowsOf(s)' : v = w
               /\ pc'[s] \in {"close", "replied"} /\ reply'[s] = "200" /\ op[s].kind \in Entering
                     => RowsOf(s)' # {}
               /\ pc'[s] \in {"close", "replied"} /\ reply'[s] # "200" => RowsOf(s)' = {}
    <3>1. CASE s = r
      BY <1>0, <2>1, <2>2, <2>3, <2>4, <3>1
    <3>2. CASE s # r
      BY <1>0, <2>2, <2>3, <3>2 DEF RepliesAgree
    <3> QED BY <3>1, <3>2
  <2> QED BY <1>0, <2>5 DEF RepliesAgree, Account
<1>2. ASSUME journal' = journal,
             \A s \in Requests : Ended(s)' =>
                \/ Ended(s) /\ reply'[s] = reply[s]
                \/ RowsOf(s) = {} /\ (reply'[s] = "200" => op[s].kind \notin Entering)
      PROVE  RepliesAgree'
  <2>1. \A s : RowsOf(s)' = RowsOf(s)
    BY <1>2 DEF RowsOf
  <2> QED BY <1>0, <1>2, <2>1 DEF RepliesAgree, Account
<1>3. ASSUME NEW r \in Requests, RequestStep(r), ~ CommitEntry(r) PROVE RepliesAgree'
  <2>1. journal' = journal
    BY <1>3 DEF table, RequestStep, Continue, Arrive, Begin, BeginTimesOut, Close,
                AccountMissing, LockAccount, CurrencyMismatch, InsufficientFunds,
                BalanceOverflow, Apply, AlreadyExists, NotYetThere, InsertAccount,
                InsertFails, CommitCreate, GetAccount, Rollback
  <2>2. \A s \in Requests : s # r => pc'[s] = pc[s] /\ reply'[s] = reply[s]
    BY <1>0, <1>3
       DEF RequestStep, Continue, Arrive, Begin, BeginTimesOut, Close,
           AccountMissing, LockAccount, CurrencyMismatch, InsufficientFunds,
           BalanceOverflow, Apply, AlreadyExists, NotYetThere, InsertAccount,
           InsertFails, CommitCreate, GetAccount, Rollback, Goto, Status
  <2>3. CASE Ended(r)
    BY <1>0, <1>2, <1>3, <2>1, <2>2, <2>3
       DEF RequestStep, Continue, Arrive, Begin, BeginTimesOut, Close,
           AccountMissing, LockAccount, CurrencyMismatch, InsufficientFunds,
           BalanceOverflow, Apply, AlreadyExists, NotYetThere, InsertAccount,
           InsertFails, CommitCreate, GetAccount, Rollback, Goto
  <2>4. CASE ~ Ended(r) /\ Ended(r)'
    <3>1. RowsOf(r) = {}
      BY <1>3, <2>4, NoRowsYet
         DEF RequestStep, Continue, Arrive, Begin, BeginTimesOut, Close,
             AccountMissing, LockAccount, CurrencyMismatch, InsufficientFunds,
             BalanceOverflow, Apply, AlreadyExists, NotYetThere, InsertAccount,
             InsertFails, CommitCreate, GetAccount, Rollback
    <3>2. reply'[r] = "200" => op[r].kind \notin Entering
      BY <1>0, <1>3, <2>4
         DEF RequestStep, Continue, Arrive, Begin, BeginTimesOut, Close,
             AccountMissing, LockAccount, CurrencyMismatch, InsufficientFunds,
             BalanceOverflow, Apply, AlreadyExists, NotYetThere, InsertAccount,
             InsertFails, CommitCreate, GetAccount, Rollback, Goto, Status, Entering
    <3> QED BY <1>2, <2>1, <2>2, <3>1, <3>2
  <2>5. CASE ~ Ended(r) /\ ~ Ended(r)'
    BY <1>2, <2>1, <2>2, <2>5
  <2> QED BY <2>3, <2>4, <2>5
<1>4. CASE Crash
  <2>1. journal' = journal
    BY <1>4 DEF Crash, LedgerCrash, table
  <2>2. \A s \in Requests : Ended(s)' => Ended(s) /\ reply'[s] = reply[s]
    BY <1>4 DEF Crash, LedgerCrash
  <2> QED BY <1>2, <2>1, <2>2
<1>5. CASE UNCHANGED vars \/ \E x \in Callers : AdminStep(x)
  <2>1. UNCHANGED <<journal, pc, reply>>
    BY <1>5 DEF vars, ledgerVars, table, AdminStep
  <2> QED BY <1>2, <2>1
<1> QED BY <1>1, <1>3, <1>4, <1>5 DEF Next

\* What a caller is told and what the database keeps agree, whoever rivals for
\* the account and whenever the process dies.
THEOREM RepliesMatchRows == Spec => []ReplyMatchesJournal
<1>1. Spec => [](LInv /\ RowsAreCommitted)
  <2>1. Init => LInv /\ RowsAreCommitted
    BY LInvInit, RowsInit
  <2>2. LInv /\ RowsAreCommitted /\ [Next]_vars => LInv' /\ RowsAreCommitted'
    BY LInvStep, RowsStep
  <2> QED BY <2>1, <2>2, PTL DEF Spec
<1> QED BY <1>1, RepliesInit, RepliesStep, AgreeingRepliesMatch, PTL DEF Spec

-----------------------------------------------------------------------------
(* Money. *)

\* Before its commit a request has no status, and an account no row; an entry that is
\* about to commit is in the account's currency.
BooksInv ==
    /\ BooksBalance
    /\ \A a \in Accounts \ open : journal[a] = <<>>
    /\ \A r \in Requests : reply[r] # "none" => pc[r] \in {"close", "replied"}
    /\ \A r \in Requests : pc[r] = "commit" /\ op[r].kind \in Entering => SameCurrency(r)

LEMMA BooksInit == Init => BooksInv
  BY DEF Init, LedgerInit, BooksInv, BooksBalance

\* A further row adds its amount to what its type has moved.
LEMMA MovedAppend ==
  ASSUME NEW rows \in Seq(Rows), NEW row \in Rows, NEW type
  PROVE  /\ Moved(rows, type) \in Nat
         /\ Moved(Append(rows, row), type)
               = Moved(rows, type) + (IF row.type = type THEN row.amount ELSE 0)
<1> DEFINE n == Len(rows)
           more == Append(rows, row)
           moves(s) == [i \in DOMAIN s |-> IF s[i].type = type THEN s[i].amount ELSE 0]
           v == moves(rows)
           w == moves(more)
<1>1. /\ n \in Nat /\ Len(more) = n + 1 /\ DOMAIN rows = 1..n /\ DOMAIN more = 1..(n + 1)
      /\ \A i \in 1..n : more[i] = rows[i] /\ rows[i] \in Rows
      /\ more[n + 1] = row
  OBVIOUS
<1>2. Moved(rows, type) = RunningSum(v, n)[n]
  BY DEF Moved
<1>3. Moved(more, type) = RunningSum(w, n + 1)[n + 1]
  BY <1>1 DEF Moved
<1> HIDE DEF n, more
<1>4. v \in [1..n -> Nat] /\ w \in [1..(n + 1) -> Nat] /\ \A i \in 1..n : v[i] = w[i]
  BY <1>1 DEF Rows
<1>5. w[n + 1] = IF row.type = type THEN row.amount ELSE 0
  BY <1>1
<1> HIDE DEF v, w
<1> DEFINE m == n + 1
<1>6. m \in Nat /\ n <= m /\ n \in 0..n /\ m \in 1..m /\ m - 1 = n /\ w \in [1..m -> Nat]
  BY <1>1, <1>4
<1> HIDE DEF m
<1>7. RunningSum(v, n) \in [0..n -> Nat]
  BY <1>1, <1>4, RunningSumStep
<1>8. \A i \in 0..n : RunningSum(v, n)[i] = RunningSum(w, m)[i]
  <2>1. \A i \in 1..n : v[i] = w[i]
    BY <1>4
  <2>2. n \in Nat /\ v \in [1..n -> Nat]
    BY <1>1, <1>4
  <2> QED BY ONLY <1>6, <2>1, <2>2, RunningSumAgrees
<1>9. \A i \in 1..(m) : RunningSum(w, m)[i] = RunningSum(w, m)[i - 1] + w[i]
  BY <1>4, <1>6, RunningSumStep
<1> DEFINE p == RunningSum(v, n)
           q == RunningSum(w, m)
<1> HIDE DEF p, q
<1>10. p[n] \in Nat /\ q[m] = p[n] + w[m]
  <2>1. p[n] \in Nat
    BY <1>6, <1>7 DEF p
  <2>2. q[m] = q[n] + w[m]
    BY <1>6, <1>9 DEF q
  <2>3. q[n] = p[n]
    BY <1>6, <1>8 DEF p, q
  <2> QED BY <2>1, <2>2, <2>3
<1> QED BY <1>2, <1>3, <1>5, <1>10 DEF m, p, q, more

\* Nothing has been moved on an account without rows.
LEMMA NothingMoved == \A type : Moved(<<>>, type) = 0
<1> SUFFICES ASSUME NEW type PROVE Moved(<<>>, type) = 0
  OBVIOUS
<1> DEFINE v == [i \in DOMAIN <<>> |-> IF <<>>[i].type = type THEN <<>>[i].amount ELSE 0]
<1>1. Moved(<<>>, type) = RunningSum(v, 0)[0]
  BY DEF Moved
<1>2. v \in [1..0 -> Nat]
  OBVIOUS
<1> HIDE DEF v
<1> QED BY <1>1, <1>2, RunningSumStep

\* The commit of an entry.
LEMMA BooksEntry ==
  ASSUME LInv, BooksInv, op' = op, NEW r \in Requests, CommitEntry(r)
  PROVE  BooksBalance'
<1> DEFINE a == Account(r)
<1>0. /\ journal \in [Accounts -> Seq(Rows)] /\ a \in Accounts /\ journal[a] \in Seq(Rows)
      /\ balance \in [Accounts -> Nat] /\ op \in [Requests -> Ops]
      /\ reply \in [Requests -> Statuses] /\ pc \in [Requests -> Stages]
      /\ open \subseteq Accounts
  BY DEF LInv, TypeOK, LedgerTypeOK, Account
<1>1. /\ pc[r] = "commit" /\ op[r].kind \in Entering
      /\ balance' = [balance EXCEPT ![a] = NewBalance(r)]
      /\ journal' = [journal EXCEPT ![a] = Append(@, Row(r))]
      /\ open' = open /\ currencyOf' = currencyOf
      /\ pc' = [pc EXCEPT ![r] = "close"] /\ reply' = [reply EXCEPT ![r] = "200"]
  BY DEF CommitEntry, Goto, Status
<1>2. a \in open /\ seen[r] = balance[a] /\ op[r].amount \in Nat
      /\ (op[r].kind = "debit" => op[r].amount <= seen[r])
  BY <1>0, <1>1 DEF LInv, LockDiscipline
<1>3. NewBalance(r) \in Nat /\ Row(r) \in Rows
  <2>1. NewBalance(r) \in Nat
    BY <1>1, NewBalanceType
  <2> QED BY <1>0, <1>1, <1>2, <2>1 DEF Row, Rows
<1>. HIDE DEF a
<1>4. ASSUME NEW type
      PROVE  /\ Moved(journal[a], type) \in Nat
             /\ Moved(journal'[a], type)
                   = Moved(journal[a], type) + (IF op[r].kind = type THEN op[r].amount ELSE 0)
  <2>1. journal'[a] = Append(journal[a], Row(r))
    BY <1>0, <1>1
  <2>2. Row(r).type = op[r].kind /\ Row(r).amount = op[r].amount
    BY DEF Row
  <2> QED BY <1>0, <1>3, <2>1, <2>2, MovedAppend
<1>5. SUFFICES ASSUME NEW b \in open PROVE \E c \in Requests : BooksFrom(c, b)'
  BY <1>1 DEF BooksBalance
<1>6. PICK c \in Requests : BooksFrom(c, b)
  BY DEF BooksInv, BooksBalance
<1>7. c # r /\ op[c].amount \in Nat
  BY <1>0, <1>1, <1>6 DEF BooksFrom, Entering
<1>8. reply'[c] = "201" \/ pc'[c] = "lost"
  BY <1>0, <1>1, <1>6, <1>7 DEF BooksFrom
<1>9. CASE b # a
  <2>1. journal'[b] = journal[b] /\ balance'[b] = balance[b]
    BY <1>0, <1>1, <1>9
  <2>2. BooksFrom(c, b)'
    BY <1>1, <1>6, <1>8, <2>1 DEF BooksFrom, Account
  <2> QED BY <2>2
<1>10. CASE b = a
  <2>1. balance'[a] = NewBalance(r)
    BY <1>0, <1>1
  <2>2. balance'[a] + Moved(journal'[a], "debit") = op[c].amount + Moved(journal'[a], "credit")
    <3>1. /\ balance[a] \in Nat
          /\ balance[a] + Moved(journal[a], "debit") = op[c].amount + Moved(journal[a], "credit")
      BY <1>0, <1>6, <1>10 DEF BooksFrom
    <3>2. CASE op[r].kind = "debit"
      <4>1. NewBalance(r) = balance[a] - op[r].amount /\ op[r].amount <= balance[a]
        BY <1>2, <3>2 DEF NewBalance
      <4>2. /\ Moved(journal'[a], "debit") = Moved(journal[a], "debit") + op[r].amount
            /\ Moved(journal'[a], "credit") = Moved(journal[a], "credit") + 0
            /\ Moved(journal[a], "debit") \in Nat /\ Moved(journal[a], "credit") \in Nat
        BY <1>4, <3>2
      <4> QED BY <1>2, <1>7, <2>1, <3>1, <4>1, <4>2
    <3>3. CASE op[r].kind = "credit"
      <4>1. NewBalance(r) = balance[a] + op[r].amount
        BY <1>2, <3>3 DEF NewBalance
      <4>2. /\ Moved(journal'[a], "debit") = Moved(journal[a], "debit") + 0
            /\ Moved(journal'[a], "credit") = Moved(journal[a], "credit") + op[r].amount
            /\ Moved(journal[a], "debit") \in Nat /\ Moved(journal[a], "credit") \in Nat
        BY <1>4, <3>3
      <4> QED BY <1>2, <1>7, <2>1, <3>1, <4>1, <4>2
    <3> QED BY <1>1, <3>2, <3>3 DEF Entering
  <2>3. ASSUME NEW i \in DOMAIN journal'[a]
        PROVE  op[journal'[a][i].request]
                  = [kind |-> journal'[a][i].type, account |-> a,
                     currency |-> currencyOf[a], amount |-> journal'[a][i].amount]
    <3>1. CASE i \in DOMAIN journal[a]
      <4>1. journal'[a][i] = journal[a][i]
        BY <1>0, <1>1, <3>1
      <4> QED BY <1>6, <1>10, <3>1, <4>1 DEF BooksFrom
    <3>2. CASE i \notin DOMAIN journal[a]
      <4>1. journal'[a][i] = Row(r)
        BY <1>0, <1>1, <3>2
      <4>2. op[r] \in Ops /\ op[r].account = a /\ op[r].currency = currencyOf[a]
        BY <1>0, <1>1 DEF a, Account, BooksInv, SameCurrency
      <4>3. op[r] = [kind |-> op[r].kind, account |-> a, currency |-> currencyOf[a],
                     amount |-> op[r].amount]
        BY <4>2
      <4> QED BY <4>1, <4>3 DEF Row
    <3> QED BY <3>1, <3>2
  <2>4. BooksFrom(c, b)'
    BY <1>1, <1>6, <1>8, <1>10, <2>2, <2>3 DEF BooksFrom, Account
  <2> QED BY <2>4
<1> QED BY <1>9, <1>10

\* The commit of a create request.
LEMMA BooksCreate ==
  ASSUME LInv, BooksInv, op' = op, NEW r \in Requests, CommitCreate(r)
  PROVE  BooksBalance'
<1>a. PICK a \in Accounts : a = Account(r)
  BY DEF LInv, TypeOK, LedgerTypeOK, Account
<1>0. /\ balance \in [Accounts -> Nat] /\ op \in [Requests -> Ops]
      /\ currencyOf \in [Accounts -> Currencies \cup {None}]
      /\ reply \in [Requests -> Statuses] /\ pc \in [Requests -> Stages]
      /\ open \subseteq Accounts
  BY DEF LInv, TypeOK, LedgerTypeOK
<1>1. /\ pc[r] = "commit" /\ op[r].kind = "create"
      /\ open' = open \cup {a} /\ journal' = journal
      /\ currencyOf' = [currencyOf EXCEPT ![a] = op[r].currency]
      /\ balance' = [balance EXCEPT ![a] = op[r].amount]
      /\ pc' = [pc EXCEPT ![r] = "close"] /\ reply' = [reply EXCEPT ![r] = "201"]
  BY <1>a DEF CommitCreate, Goto, Status
<1>2. a \notin open /\ journal[a] = <<>> /\ reply[r] # "201"
  BY <1>0, <1>1, <1>a DEF LInv, LockDiscipline, BooksInv
<1>3. BooksFrom(r, a)'
  <2>1. balance'[a] = op[r].amount /\ currencyOf'[a] = op[r].currency /\ reply'[r] = "201"
    BY <1>0, <1>1
  <2>2. journal'[a] = <<>> /\ Moved(<<>>, "debit") = 0 /\ Moved(<<>>, "credit") = 0
    BY <1>1, <1>2, NothingMoved
  <2>3. op[r].amount \in Nat
    BY <1>0
  <2>4. balance'[a] + Moved(journal'[a], "debit") = op[r].amount + Moved(journal'[a], "credit")
    BY <2>1, <2>2, <2>3
  <2>5. Account(r) = a
    BY <1>a
  <2>6. DOMAIN journal'[a] = {}
    BY <2>2
  <2> QED BY <1>1, <2>1, <2>4, <2>5, <2>6 DEF BooksFrom, Account
<1>4. ASSUME NEW b \in open PROVE \E c \in Requests : BooksFrom(c, b)'
  <2>1. PICK c \in Requests : BooksFrom(c, b)
    BY DEF BooksInv, BooksBalance
  <2>2. b # a /\ balance'[b] = balance[b] /\ currencyOf'[b] = currencyOf[b]
    BY <1>0, <1>1, <1>2
  <2>3. reply'[c] = "201" \/ pc'[c] = "lost"
    BY <1>0, <1>1, <2>1 DEF BooksFrom
  <2>4. journal'[b] = journal[b]
    BY <1>1
  <2>5. BooksFrom(c, b)'
    BY <2>1, <2>2, <2>3, <2>4 DEF BooksFrom, Account
  <2> QED BY <2>5
<1> QED BY <1>1, <1>3, <1>4 DEF BooksBalance

LEMMA BooksStep == LInv /\ BooksInv /\ [Next]_vars => BooksInv'
<1> SUFFICES ASSUME LInv, BooksInv, [Next]_vars PROVE BooksInv'
  OBVIOUS
<1>0. /\ op' = op /\ reply \in [Requests -> Statuses] /\ pc \in [Requests -> Stages]
      /\ op \in [Requests -> Ops] /\ open \subseteq Accounts
      /\ journal \in [Accounts -> Seq(Rows)]
  BY DEF LInv, TypeOK, LedgerTypeOK, vars, ledgerVars, Next, Crash, LedgerCrash, AdminStep,
         RequestStep, Continue, Arrive, Begin, BeginTimesOut, Close, AccountMissing,
         LockAccount, CurrencyMismatch, InsufficientFunds, BalanceOverflow, Apply,
         CommitEntry, AlreadyExists, NotYetThere, InsertAccount, InsertFails,
         CommitCreate, GetAccount, Rollback
<1> DEFINE Told(r) == reply[r] # "none" => pc[r] \in {"close", "replied"}
           InCurrency(r) == pc[r] = "commit" /\ op[r].kind \in Entering => SameCurrency(r)
<1>1. ASSUME table' = table,
             \A r \in Requests : reply[r] = "201" \/ pc[r] = "lost" =>
                                    reply'[r] = "201" \/ pc'[r] = "lost",
             \A r \in Requests : Told(r)' /\ InCurrency(r)'
      PROVE  BooksInv'
  <2>1. UNCHANGED <<open, currencyOf, balance, journal>>
    BY <1>1 DEF table
  <2>2. ASSUME NEW a \in open, NEW c \in Requests, BooksFrom(c, a) PROVE BooksFrom(c, a)'
    BY <1>0, <1>1, <2>1, <2>2 DEF BooksFrom, Account
  <2>3. BooksBalance'
    BY <2>1, <2>2 DEF BooksInv, BooksBalance
  <2> QED BY <1>1, <2>1, <2>3 DEF BooksInv
<1>2. ASSUME NEW r \in Requests, RequestStep(r) PROVE BooksInv'
  <2>1. CASE CommitEntry(r)
    <3>1. BooksBalance'
      BY <1>0, <2>1, BooksEntry
    <3>2. Account(r) \in open
      BY <2>1 DEF CommitEntry, LInv, LockDiscipline
    <3>3. \A s \in Requests : Told(s)' /\ InCurrency(s)'
      BY <1>0, <2>1 DEF CommitEntry, Goto, Status, BooksInv, SameCurrency, Account
    <3>4. \A a \in Accounts \ open' : journal'[a] = <<>>
      BY <1>0, <2>1, <3>2 DEF CommitEntry, BooksInv
    <3> QED BY <3>1, <3>3, <3>4 DEF BooksInv
  <2>2. CASE CommitCreate(r)
    <3>1. BooksBalance'
      BY <1>0, <2>2, BooksCreate
    <3>2. Account(r) \notin open
      BY <2>2 DEF CommitCreate, LInv, LockDiscipline
    <3>3. \A s \in Requests : Told(s)'
      BY <1>0, <2>2 DEF CommitCreate, Goto, Status, BooksInv
    <3>4. ASSUME NEW s \in Requests PROVE InCurrency(s)'
      <4>1. pc[s] = "commit" /\ op[s].kind \in Entering => Account(s) \in open
        BY DEF LInv, LockDiscipline
      <4>2. currencyOf \in [Accounts -> Currencies \cup {None}]
        BY DEF LInv, TypeOK, LedgerTypeOK
      <4> QED BY <1>0, <2>2, <3>2, <4>1, <4>2
              DEF CommitCreate, Goto, BooksInv, SameCurrency, Account
    <3>5. \A a \in Accounts \ open' : journal'[a] = <<>>
      BY <2>2 DEF CommitCreate, BooksInv
    <3> QED BY <3>1, <3>3, <3>4, <3>5 DEF BooksInv
  <2>3. CASE ~ CommitEntry(r) /\ ~ CommitCreate(r)
    <3> USE DEF RequestStep, Continue, Arrive, Begin, BeginTimesOut, Close,
                AccountMissing, LockAccount, CurrencyMismatch, InsufficientFunds,
                BalanceOverflow, Apply, AlreadyExists, NotYetThere, InsertAccount,
                InsertFails, GetAccount, Rollback
    <3>1. table' = table
      BY <1>2, <2>3
    <3>2. reply[r] = "none" \/ (pc[r] = "close" /\ pc'[r] = "replied" /\ reply' = reply)
      BY <1>0, <1>2, <2>3 DEF BooksInv, Goto
    <3>3. pc[r] # "lost" /\ \A s \in Requests : s # r => pc'[s] = pc[s] /\ reply'[s] = reply[s]
      BY <1>0, <1>2, <2>3 DEF Goto, Status
    <3>4. Told(r)'
      BY <1>0, <1>2, <2>3, <3>2 DEF Goto, Status
    <3>5. InCurrency(r)'
      BY <1>0, <1>2, <2>3, <3>1 DEF Goto, SameCurrency, Account, Entering, LInv,
                                     LockDiscipline, table
    <3>6. \A s \in Requests : Told(s)' /\ InCurrency(s)'
      BY <1>0, <3>1, <3>3, <3>4, <3>5 DEF BooksInv, SameCurrency, Account, table
    <3> QED BY <1>1, <3>1, <3>2, <3>3, <3>6
  <2> QED BY <2>1, <2>2, <2>3
<1>3. CASE Crash
  <2>1. table' = table
    BY <1>3 DEF Crash, LedgerCrash
  <2>2. \A s \in Requests : Told(s)' /\ InCurrency(s)'
    BY <1>3 DEF Crash, LedgerCrash
  <2>3. \A s \in Requests : reply[s] = "201" \/ pc[s] = "lost" =>
                               reply'[s] = "201" \/ pc'[s] = "lost"
    BY <1>3 DEF Crash, LedgerCrash, BooksInv
  <2> QED BY <1>1, <2>1, <2>2, <2>3
<1>4. CASE UNCHANGED vars \/ \E x \in Callers : AdminStep(x)
  <2>1. UNCHANGED <<table, op, pc, reply>>
    BY <1>4 DEF vars, ledgerVars, AdminStep
  <2>2. \A s \in Requests : Told(s)' /\ InCurrency(s)'
    BY <2>1 DEF BooksInv, SameCurrency, Account, table
  <2> QED BY <1>1, <2>1, <2>2
<1> QED BY <1>2, <1>3, <1>4 DEF Next

\* The books of every account balance, in one currency, for any number of requests that
\* overlap and whenever the process dies.
THEOREM MoneyIsConserved == Spec => []BooksBalance
<1>1. BooksInv => BooksBalance
  BY DEF BooksInv
<1>2. Spec => []LInv
  BY LInvInit, LInvStep, PTL DEF Spec
<1> QED BY BooksInit, BooksStep, <1>1, <1>2, PTL DEF Spec

-----------------------------------------------------------------------------
(* Progress. *)

\* How far a request has come.
Distance == [s \in Stages |->
    CASE s = "new" -> 0 [] s = "begin" -> 1 [] s = "read" -> 2
      [] s \in {"apply", "insert"} -> 3 [] s = "commit" -> 4 [] s = "close" -> 5
      [] s \in {"replied", "lost"} -> 6]

\* What there is for a request to wait for inside a transaction: a row lock, or
\* the unique-index entry of an INSERT that is not committed.
WaitsForLock(r) ==
    /\ pc[r] \in {"read", "insert"} /\ op[r].kind # "get"
    /\ rowLock[Account(r)] # None

RequestsAdvance ==
    \A r \in Requests :
        /\ RequestStep(r) => Distance[pc'[r]] > Distance[pc[r]]
        /\ Distance[pc'[r]] >= Distance[pc[r]]
        /\ pc[r] = "replied" => pc'[r] = "replied" /\ reply'[r] = reply[r]

\* Every step of a request brings it nearer to its end, nothing takes it back, and what
\* its caller was told stands.  So a request takes six steps at most, and
\* EveryRequestEnds is lost only if one of them is put off for ever.
THEOREM RequestsOnlyAdvance == Spec => [][RequestsAdvance]_vars
<1>1. ASSUME TypeOK, Next PROVE RequestsAdvance
  <2>0. /\ pc \in [Requests -> Stages] /\ reply \in [Requests -> Statuses]
        /\ \A s, t \in Stages : Distance[s] \in 0..6
    BY <1>1 DEF TypeOK, LedgerTypeOK, Distance, Stages
  <2>1. ASSUME NEW r \in Requests, RequestStep(r)
        PROVE  /\ pc' = [pc EXCEPT ![r] = pc'[r]] /\ pc'[r] \in Stages
               /\ Distance[pc'[r]] > Distance[pc[r]]
               /\ pc[r] # "replied" /\ \A s \in Requests : s # r => reply'[s] = reply[s]
    <3> USE DEF Stages, Distance, Goto
    <3>1. CASE Arrive(r) \/ Begin(r)
      BY <2>0, <3>1 DEF Arrive, Begin
    <3>2. CASE BeginTimesOut(r) \/ Close(r)
      BY <2>0, <3>2 DEF BeginTimesOut, Close, Status
    <3>3. CASE \/ AccountMissing(r) \/ CurrencyMismatch(r) \/ InsufficientFunds(r)
               \/ BalanceOverflow(r) \/ AlreadyExists(r) \/ InsertFails(r)
      BY <2>0, <3>3 DEF AccountMissing, CurrencyMismatch, InsufficientFunds,
                        BalanceOverflow, AlreadyExists, InsertFails, Rollback, Status
    <3>4. CASE \/ LockAccount(r) \/ Apply(r) \/ NotYetThere(r) \/ InsertAccount(r)
      BY <2>0, <3>4 DEF LockAccount, Apply, NotYetThere, InsertAccount
    <3>5. CASE CommitEntry(r) \/ CommitCreate(r) \/ GetAccount(r)
      BY <2>0, <3>5 DEF CommitEntry, CommitCreate, GetAccount, Status
    <3> QED BY <2>1, <3>1, <3>2, <3>3, <3>4, <3>5 DEF RequestStep, Continue
  <2>2. CASE \E r \in Requests : RequestStep(r)
    BY <2>0, <2>1, <2>2 DEF RequestsAdvance
  <2>3. ASSUME \A r \in Requests : ~ RequestStep(r) PROVE RequestsAdvance
    <3>1. CASE Crash
      <4>1. \A r \in Requests :
               /\ pc'[r] = pc[r] \/ (pc'[r] = "lost" /\ pc[r] # "replied")
               /\ pc[r] = "replied" => reply'[r] = reply[r]
        BY <2>0, <3>1 DEF Crash, LedgerCrash
      <4>2. \A s \in Stages : Distance["lost"] >= Distance[s]
        BY DEF Distance, Stages
      <4> QED BY <2>0, <2>3, <4>1, <4>2 DEF RequestsAdvance
    <3>2. CASE \E x \in Callers : AdminStep(x)
      BY <2>0, <2>3, <3>2 DEF AdminStep, ledgerVars, RequestsAdvance
    <3> QED BY <1>1, <2>3, <3>1, <3>2 DEF Next
  <2> QED BY <2>2, <2>3
<1>2. ASSUME TypeOK, [Next]_vars PROVE [RequestsAdvance]_vars
  BY <1>1, <1>2
<1> QED BY <1>2, TypeCorrect, PTL DEF Spec

\* Who waits for a lock waits for a request that waits for nothing itself: it can
\* be refused, or write, or commit, whatever the pool and the fault are doing.  So
\* no circle of requests waits for one another (LedgerService.java:70).
LocksAreShort ==
    \A r \in Requests : WaitsForLock(r) =>
        LET holder == rowLock[Account(r)]
        IN  holder # r /\ InTransaction(holder) /\ ~ WaitsForLock(holder)

THEOREM NobodyWaitsInACircle == Spec => []LocksAreShort
<1>1. ASSUME LInv, NEW r \in Requests, WaitsForLock(r)
      PROVE  LET holder == rowLock[Account(r)]
             IN  holder # r /\ InTransaction(holder) /\ ~ WaitsForLock(holder)
  <2>1. Account(r) \in Accounts
    BY <1>1, LedgerAssumption DEF LInv, TypeOK, LedgerTypeOK, Account
  <2>2. rowLock[Account(r)] # None /\ pc[r] \in {"read", "insert"}
    BY <1>1 DEF WaitsForLock
  <2>3. pc[rowLock[Account(r)]] \in {"apply", "commit"}
    BY <1>1, <2>1, <2>2 DEF LInv, LockDiscipline
  <2> QED BY <2>2, <2>3 DEF WaitsForLock, InTransaction
<1>2. Spec => []LInv
  BY LInvInit, LInvStep, PTL DEF Spec
<1>3. LInv => LocksAreShort
  BY <1>1 DEF LocksAreShort
<1> QED BY <1>2, <1>3, PTL

\* What is left to do inside the monitor: to acquire connections, and in the worst
\* case to close them all again.
Work ==
    IF monitor = NoCaller THEN 0
    ELSE IF call[monitor] = "acquire" THEN 2 * SafeHold + 1 - acquired
    ELSE openHeld

MonitorAdvances ==
    monitor # NoCaller =>
        /\ AdminStep(monitor) =>
              monitor' = NoCaller \/ (monitor' = monitor /\ Work' < Work)
        /\ ~ AdminStep(monitor) =>
              monitor' = NoCaller \/ (monitor' = monitor /\ Work' = Work)

\* Whoever is inside inject() or reset() has a finite number of steps to go, and no
\* request, other caller or pool timeout adds to them or takes the monitor from him.
THEOREM MonitorHolderAdvances == Spec => [](Work \in Nat) /\ [][MonitorAdvances]_vars
<1>1. TypeOK /\ FaultInv => Work \in Nat
  BY SafeHoldBound DEF TypeOK, FaultTypeOK, FaultInv, Work
<1>2. ASSUME TypeOK, FaultInv, [Next]_vars PROVE [MonitorAdvances]_vars
  <2> SUFFICES ASSUME Next, monitor # NoCaller PROVE MonitorAdvances
    BY <1>2 DEF MonitorAdvances
  <2>0. /\ SafeHold \in Nat /\ SafeHold' = SafeHold /\ monitor \in Callers
        /\ acquired \in Nat /\ openHeld \in Nat
        /\ call \in [Callers -> {"idle", "injectWait", "acquire", "rollback", "resetWait",
                                 "release"}]
        /\ call[monitor] \in {"acquire", "rollback", "release"}
        /\ (call[monitor] = "acquire" => openHeld = acquired)
    BY <1>2, SafeHoldBound DEF TypeOK, FaultTypeOK, FaultInv, SafeHold
  <2>1. ASSUME AdminStep(monitor)
        PROVE  monitor' = NoCaller \/ (monitor' = monitor /\ Work' < Work)
    <3> USE <2>0 DEF Work, CallGoto, Leave
    <3>1. CASE AcquireOne(monitor)
      BY <3>1 DEF AcquireOne
    <3>2. CASE AcquireTimesOut(monitor)
      BY <3>2 DEF AcquireTimesOut
    <3>3. CASE InjectDone(monitor) \/ Cleared(monitor)
      BY <3>3 DEF InjectDone, Cleared
    <3>4. CASE CloseOne(monitor)
      BY <3>4 DEF CloseOne
    <3> QED BY <2>1, <3>1, <3>2, <3>3, <3>4
            DEF AdminStep, Proceed, InjectCall, ResetCall, InjectAgain, InjectEnter, ResetEnter
  <2>2. ASSUME ~ AdminStep(monitor)
        PROVE  monitor' = NoCaller \/ (monitor' = monitor /\ Work' = Work)
    <3>1. CASE Crash
      BY <3>1 DEF Crash, FaultCrash
    <3>2. CASE \E r \in Requests : RequestStep(r)
      BY <2>0, <3>2 DEF RequestStep, faultVars, Work
    <3>3. ASSUME NEW x \in Callers, AdminStep(x)
          PROVE  monitor' = monitor /\ Work' = Work
      <4>1. x # monitor /\ call[x] \notin {"acquire", "rollback", "release"}
        BY <1>2, <2>2, <3>3 DEF FaultInv
      <4>2. UNCHANGED <<monitor, acquired, openHeld>> /\ call'[monitor] = call[monitor]
        BY <2>0, <3>3, <4>1
           DEF AdminStep, Proceed, InjectCall, ResetCall, InjectAgain, InjectEnter, ResetEnter,
               AcquireOne, AcquireTimesOut, InjectDone, CloseOne, Cleared, CallGoto, Enter
      <4> QED BY <2>0, <4>2 DEF Work
    <3> QED BY <2>2, <3>1, <3>2, <3>3 DEF Next
  <2> QED BY <2>1, <2>2 DEF MonitorAdvances
<1>3. Spec => [](TypeOK /\ FaultInv)
  BY FaultInvInit, FaultInvStep, TypeCorrect, PTL DEF Spec
<1>4. Spec => [](Work \in Nat)
  BY <1>1, <1>3, PTL
<1>5. Spec => [][MonitorAdvances]_vars
  BY <1>2, <1>3, PTL DEF Spec
<1> QED BY <1>4, <1>5
=============================================================================
