------------------------- MODULE MCLedgerUnderFault -------------------------
(***************************************************************************)
(* Small instances of LedgerUnderFault for TLC.                            *)
(***************************************************************************)
EXTENDS LedgerUnderFault, TLC

CONSTANTS r1, r2, r3, r4, x1, x2, a1, a2, usd, eur

Op(kind, account, currency, amount) ==
    [kind |-> kind, account |-> account, currency |-> currency, amount |-> amount]

\* What contends for one account, with an operation in the wrong currency and
\* one account more; credits of 2 overflow a column that holds 3.
MCContention ==
    {Op("create", a1, usd, 2), Op("debit", a1, usd, 2), Op("debit", a1, eur, 1),
     Op("credit", a1, usd, 2), Op("create", a2, eur, 1), Op("debit", a2, eur, 1)}

\* What keeps connections busy: a create, and requests that need its account.
MCTraffic == {Op("create", a1, usd, 2), Op("debit", a1, usd, 1), Op("get", a1, usd, 0)}

RequestSymmetry == Permutations(Requests)
=============================================================================
