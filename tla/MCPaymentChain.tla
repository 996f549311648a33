--------------------------- MODULE MCPaymentChain ---------------------------
(***************************************************************************)
(* Small instances of PaymentChain for TLC: payments of 2 from an account  *)
(* with 3, so that not both succeed, and payments ledger-service refuses.  *)
(***************************************************************************)
EXTENDS PaymentChain

CONSTANTS p1, p2, k1, acct, nobody, usd, eur

Want(account, currency, amount) ==
    [account |-> account, currency |-> currency, amount |-> amount]

MCWants == {Want(acct, usd, 2), Want(nobody, usd, 1), Want(acct, eur, 1)}

\* What only the ledger call tells apart.
MCRivals == {Want(acct, usd, 2), Want(acct, usd, NoAmount)}
=============================================================================
