---------------------------- MODULE AtomicLedger ----------------------------
(***************************************************************************)
(* What ledger-service promises its callers: a set of accounts on which    *)
(* every accepted operation takes effect at one instant and exactly once,  *)
(* together with the row of ledger_transactions that records it.  There    *)
(* are no connections, row locks or transactions here; LedgerUnderFault is *)
(* shown to implement this module.                                         *)
(***************************************************************************)
EXTENDS Naturals, Sequences

CONSTANTS
    Accounts,     \* account ids
    Requests,     \* HTTP requests, each at most one accepted operation
    Amounts       \* amounts of money, in the smallest unit of the column

VARIABLES
    open,         \* accounts that exist
    balance,      \* committed balance of each open account
    journal       \* committed ledger_transactions rows of each account, in order

\* Request r already has a committed row.
Posted(r) == \E a \in Accounts : \E i \in 1..Len(journal[a]) :
                journal[a][i].request = r

Init == /\ open = {}
        /\ balance = [a \in Accounts |-> 0]
        /\ journal = [a \in Accounts |-> <<>>]

\* An account comes into being once, with its opening balance and no rows.
OpenAccount(a, b) ==
    /\ a \notin open
    /\ open' = open \cup {a}
    /\ balance' = [balance EXCEPT ![a] = b]
    /\ UNCHANGED journal

\* The balance and the row change together.
Post(r, a, type, amount, after) ==
    /\ a \in open
    /\ ~ Posted(r)
    /\ balance' = [balance EXCEPT ![a] = after]
    /\ journal' = [journal EXCEPT ![a] =
          Append(@, [request |-> r, type |-> type, amount |-> amount,
                     balanceAfter |-> after])]
    /\ UNCHANGED open

\* Money leaves an account only if it is there.
Debit(r, a, amount) ==
    /\ amount <= balance[a]
    /\ Post(r, a, "debit", amount, balance[a] - amount)

Credit(r, a, amount) ==
    Post(r, a, "credit", amount, balance[a] + amount)

Next ==
    \E a \in Accounts :
        \/ \E b \in Amounts : OpenAccount(a, b)
        \/ \E r \in Requests, amount \in Amounts :
              Debit(r, a, amount) \/ Credit(r, a, amount)

vars == <<open, balance, journal>>

Spec == Init /\ [][Next]_vars
=============================================================================
