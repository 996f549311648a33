---------------------------- MODULE PaymentChain ----------------------------
(***************************************************************************)
(* POST /api/payments: payment-service validates the caller's token with   *)
(* auth-service, debits the account through ledger-service and asks        *)
(* notification-service for a receipt, one blocking call after another,    *)
(* each with a timeout.  A timeout ends the wait and not the call: what    *)
(* was sent may still be executed, later, by the other service.  Nothing   *)
(* is retried and nothing is undone.                                       *)
(*                                                                         *)
(* A call from payment-service to another service is                       *)
(*   none -> sent [-> waking -> sleeping] -> answered -> heard             *)
(*              -> gone  (never reached the service)                       *)
(* where waking and sleeping are the latency fault of notification-service *)
(* and heard means that payment-service has received the answer.           *)
(* ledger-service executes a debit at one instant (LedgerUnderFault shows  *)
(* that it may be seen so).                                                *)
(***************************************************************************)
EXTENDS Naturals, FiniteSets

CONSTANTS
    Payments,       \* payment requests
    Wants,          \* what a payment may ask for: account, currency, amount
    Accounts,       \* accounts ledger-service knows
    Currency,       \* their currency
    NoAmount,       \* a payment without an amount: @Positive lets null through
    OpeningFunds,   \* what each account holds at first
    FaultKeys,      \* bound: the random keys injectFault generates
    Timeout,        \* app.notification-service.timeout-ms
    DefaultDelay,   \* app.fault.notification-latency.default-delay-ms
    Delays          \* delays an injection may ask for

ASSUME ChainAssumption ==
    /\ OpeningFunds \in Nat
    /\ Timeout \in Nat /\ DefaultDelay \in Nat /\ Delays \subseteq Nat
    /\ \A w \in Wants : w.amount = NoAmount \/ w.amount \in Nat \ {0}
    /\ FaultKeys \cap {"original", "none", "expired"} = {}

Services == {"auth", "ledger", "notification"}
Keys == {"original"} \cup FaultKeys

VARIABLES
    want,         \* what each payment asks for
    token,        \* the key its bearer token is signed with, or none, or expired
    stage,        \* the service payment-service is waiting for, or where it is
    call,         \* state of its calls, at the other end
    answer,       \* what the other end answered
    reply,        \* status and notification status payment-service answered
    activeKey,    \* auth-service: JwtSigningKeyProvider.activeKey
    spent,        \* fault keys generated so far
    funds,        \* ledger-service: balances
    debits,       \* ledger-service: DEBIT rows of each payment
    receipts,     \* notification-service: receipts of each payment
    slow,         \* LatencyFaultState.enabled
    delay,        \* LatencyFaultState.delayMs
    slowAdmin,    \* between the two writes of its inject or reset
    sleep         \* how long the receipt call of each payment sleeps

paymentVars == <<want, token, stage, reply>>
serverVars == <<activeKey, spent, funds, debits, receipts>>
latencyVars == <<slow, delay, slowAdmin>>
vars == <<paymentVars, call, answer, serverVars, latencyVars, sleep>>

Init ==
    /\ want \in [Payments -> Wants]
    /\ token = [p \in Payments |-> "none"]
    /\ stage = [p \in Payments |-> "new"]
    /\ call = [p \in Payments |-> [s \in Services |-> "none"]]
    /\ answer = [p \in Payments |-> [s \in Services |-> "none"]]
    /\ reply = [p \in Payments |-> [status |-> "none", notification |-> "none"]]
    /\ activeKey = "original" /\ spent = {}
    /\ funds = [a \in Accounts |-> OpeningFunds]
    /\ debits = [p \in Payments |-> 0]
    /\ receipts = [p \in Payments |-> 0]
    /\ slow = FALSE /\ delay = DefaultDelay /\ slowAdmin = "idle"
    /\ sleep = [p \in Payments |-> 0]

Waiting(p) == stage[p] \in Services

-----------------------------------------------------------------------------
\* The caller.

\* POST /api/auth/login: a token signed with whatever key is active.
Login(p) ==
    /\ stage[p] = "new" /\ token[p] = "none"
    /\ token' = [token EXCEPT ![p] = activeKey]
    /\ UNCHANGED <<want, stage, reply, call, answer, serverVars, latencyVars, sleep>>

Expire(p) ==
    /\ token[p] \in Keys
    /\ token' = [token EXCEPT ![p] = "expired"]
    /\ UNCHANGED <<want, stage, reply, call, answer, serverVars, latencyVars, sleep>>

-----------------------------------------------------------------------------
\* payment-service.

Reply(p, status, notification) ==
    /\ stage' = [stage EXCEPT ![p] = "done"]
    /\ reply' = [reply EXCEPT ![p] = [status |-> status, notification |-> notification]]

Hear(p, s) == call' = [call EXCEPT ![p][s] = "heard"]

\* Go on to the next call, having heard the answer to the last one if any.
Send(p, s) ==
    /\ stage' = [stage EXCEPT ![p] = s]
    /\ call' = [call EXCEPT ![p] = [t \in Services |->
          IF t = s THEN "sent" ELSE IF t = stage[p] THEN "heard" ELSE @[t]]]
    /\ UNCHANGED reply

\* extractBearerToken, then validate.
Submit(p) ==
    /\ stage[p] = "new"
    /\ \/ token[p] = "none" /\ Reply(p, "401", "none") /\ UNCHANGED call
       \/ token[p] # "none" /\ Send(p, "auth")
    /\ UNCHANGED <<want, token, answer, serverVars, latencyVars, sleep>>

Answered(p, s) == stage[p] = s /\ call[p][s] = "answered"

\* Mutant of Validated: the answer is not looked at.
ValidatedAlways(p) ==
    /\ Answered(p, "auth") /\ Send(p, "ledger")
    /\ UNCHANGED <<want, token, answer, serverVars, latencyVars, sleep>>

Validated(p) ==
    /\ Answered(p, "auth")
    /\ \/ answer[p]["auth"] = "valid" /\ Send(p, "ledger")
       \/ answer[p]["auth"] = "invalid" /\ Reply(p, "401", "none") /\ Hear(p, "auth")
    /\ UNCHANGED <<want, token, answer, serverVars, latencyVars, sleep>>

\* 404 and 409 have exceptions of their own, every other error is a 502.
Debited(p) ==
    /\ Answered(p, "ledger")
    /\ \/ answer[p]["ledger"] = "200" /\ Send(p, "notification")
       \/ answer[p]["ledger"] \in {"404", "409"}
          /\ Reply(p, answer[p]["ledger"], "none") /\ Hear(p, "ledger")
       \/ answer[p]["ledger"] \in {"400", "500"}
          /\ Reply(p, "502", "none") /\ Hear(p, "ledger")
    /\ UNCHANGED <<want, token, answer, serverVars, latencyVars, sleep>>

Notified(p) ==
    /\ Answered(p, "notification")
    /\ Reply(p, "200", "SENT") /\ Hear(p, "notification")
    /\ UNCHANGED <<want, token, answer, serverVars, latencyVars, sleep>>

\* Mutant of GiveUp: a debit that timed out is reported like a refused one.
GiveUpAsRefused(p) ==
    /\ Waiting(p)
    /\ IF stage[p] = "notification" THEN Reply(p, "200", "FAILED")
                                    ELSE Reply(p, "409", "none")
    /\ UNCHANGED <<want, token, call, answer, serverVars, latencyVars, sleep>>

\* Mutant of GiveUp: block() without a timeout.
NeverGiveUp(p) ==
    /\ Waiting(p) /\ call[p][stage[p]] = "gone" /\ stage[p] = "auth"
    /\ Reply(p, "502", "none")
    /\ UNCHANGED <<want, token, call, answer, serverVars, latencyVars, sleep>>

\* Mutant of GiveUp: a failed receipt fails the payment.
GiveUpAlways502(p) ==
    /\ Waiting(p)
    /\ Reply(p, "502", "none")
    /\ UNCHANGED <<want, token, call, answer, serverVars, latencyVars, sleep>>

\* Mutant of GiveUp: a debit that timed out is taken for done.
GiveUpGoesOn(p) ==
    /\ Waiting(p)
    /\ IF stage[p] = "ledger" THEN Send(p, "notification")
       ELSE UNCHANGED call /\ IF stage[p] = "notification" THEN Reply(p, "200", "FAILED")
                                                       ELSE Reply(p, "502", "none")
    /\ UNCHANGED <<want, token, answer, serverVars, latencyVars, sleep>>

\* block(timeout), a connection error, or a completion without a response.
GiveUp(p) ==
    /\ Waiting(p)
    /\ IF stage[p] = "notification" THEN Reply(p, "200", "FAILED")
                                    ELSE Reply(p, "502", "none")
    /\ UNCHANGED <<want, token, call, answer, serverVars, latencyVars, sleep>>

\* The process dies and every payment it was working on gets no answer.
Crash ==
    /\ \E p \in Payments : Waiting(p)
    /\ stage' = [p \in Payments |-> IF Waiting(p) THEN "lost" ELSE stage[p]]
    /\ UNCHANGED <<want, token, reply, call, answer, serverVars, latencyVars, sleep>>

-----------------------------------------------------------------------------
\* The other services, which do not know whether anybody still waits.

Lose(p, s) ==
    /\ call[p][s] = "sent"
    /\ call' = [call EXCEPT ![p][s] = "gone"]
    /\ UNCHANGED <<paymentVars, answer, serverVars, latencyVars, sleep>>

Answer(p, s, what) ==
    /\ call' = [call EXCEPT ![p][s] = "answered"]
    /\ answer' = [answer EXCEPT ![p][s] = what]

\* AuthController.validate.
Validate(p) ==
    /\ call[p]["auth"] = "sent"
    /\ Answer(p, "auth", IF token[p] = activeKey THEN "valid" ELSE "invalid")
    /\ UNCHANGED <<paymentVars, serverVars, latencyVars, sleep>>

\* Mutant of Refusal: the balance is not checked.
RefusalUnchecked(w) ==
    IF w.amount = NoAmount THEN "400"
    ELSE IF w.account \notin Accounts THEN "404"
    ELSE IF w.currency # Currency THEN "400" ELSE "none"

\* How LedgerController.debit refuses, if it does.
Refusal(w) ==
    IF w.amount = NoAmount THEN "400"
    ELSE IF w.account \notin Accounts THEN "404"
    ELSE IF w.currency # Currency THEN "400"
    ELSE IF funds[w.account] < w.amount THEN "409" ELSE "none"

Debit(p) ==
    /\ call[p]["ledger"] = "sent" /\ Refusal(want[p]) = "none"
    /\ Answer(p, "ledger", "200")
    /\ funds' = [funds EXCEPT ![want[p].account] = @ - want[p].amount]
    /\ debits' = [debits EXCEPT ![p] = @ + 1]
    /\ UNCHANGED <<paymentVars, activeKey, spent, receipts, latencyVars, sleep>>

\* Refused, or no connection in time (500).
RefuseDebit(p) ==
    /\ call[p]["ledger"] = "sent"
    /\ \/ Refusal(want[p]) # "none" /\ Answer(p, "ledger", Refusal(want[p]))
       \/ Answer(p, "ledger", "500")
    /\ UNCHANGED <<paymentVars, serverVars, latencyVars, sleep>>

\* NotificationController.sendReceipt reads the flag, then the delay.
ReadSlow(p) ==
    /\ call[p]["notification"] = "sent" /\ slow
    /\ call' = [call EXCEPT ![p]["notification"] = "waking"]
    /\ UNCHANGED <<paymentVars, answer, serverVars, latencyVars, sleep>>

ReadDelay(p) ==
    /\ call[p]["notification"] = "waking"
    /\ sleep' = [sleep EXCEPT ![p] = delay]
    /\ call' = [call EXCEPT ![p]["notification"] = "sleeping"]
    /\ UNCHANGED <<paymentVars, answer, serverVars, latencyVars>>

\* A sleep as long as the caller's timeout outlasts the caller's wait.
AwakeInTime(p) == sleep[p] < Timeout \/ stage[p] # "notification"

SendReceipt(p) ==
    /\ \/ call[p]["notification"] = "sent" /\ ~ slow
       \/ call[p]["notification"] = "sleeping" /\ AwakeInTime(p)
    /\ Answer(p, "notification", "SENT")
    /\ receipts' = [receipts EXCEPT ![p] = @ + 1]
    /\ UNCHANGED <<paymentVars, activeKey, spent, funds, debits, latencyVars, sleep>>

-----------------------------------------------------------------------------
\* The fault controllers of auth-service and notification-service.

InjectKey ==
    /\ \E k \in FaultKeys \ spent : activeKey' = k /\ spent' = spent \cup {k}
    /\ UNCHANGED <<paymentVars, call, answer, funds, debits, receipts, latencyVars, sleep>>

ResetKey ==
    /\ activeKey' = "original"
    /\ UNCHANGED <<paymentVars, call, answer, spent, funds, debits, receipts,
                   latencyVars, sleep>>

InjectLatency ==
    /\ slowAdmin = "idle"
    /\ delay' \in Delays \cup {DefaultDelay}
    /\ slowAdmin' = "enable"
    /\ UNCHANGED <<paymentVars, call, answer, serverVars, slow, sleep>>

ResetLatency ==
    /\ slowAdmin = "idle"
    /\ slow' = FALSE
    /\ slowAdmin' = "restore"
    /\ UNCHANGED <<paymentVars, call, answer, serverVars, delay, sleep>>

FinishLatency ==
    /\ \/ slowAdmin = "enable" /\ slow' = TRUE /\ UNCHANGED delay
       \/ slowAdmin = "restore" /\ delay' = DefaultDelay /\ UNCHANGED slow
    /\ slowAdmin' = "idle"
    /\ UNCHANGED <<paymentVars, call, answer, serverVars, sleep>>

-----------------------------------------------------------------------------
Resume(p) == Validated(p) \/ Debited(p) \/ Notified(p) \/ GiveUp(p)

Next ==
    \/ \E p \in Payments :
          \/ Login(p) \/ Expire(p) \/ Submit(p) \/ Resume(p)
          \/ \E s \in Services : Lose(p, s)
          \/ Validate(p) \/ Debit(p) \/ RefuseDebit(p)
          \/ ReadSlow(p) \/ ReadDelay(p) \/ SendReceipt(p)
    \/ Crash
    \/ InjectKey \/ ResetKey
    \/ InjectLatency \/ ResetLatency \/ FinishLatency

Spec == Init /\ [][Next]_vars

\* A thread of payment-service goes on once its call is answered or its timeout
\* has passed.  Of the other services nothing is assumed.
FairSpec == Spec /\ \A p \in Payments : WF_vars(Resume(p))

-----------------------------------------------------------------------------
TypeOK ==
    /\ want \in [Payments -> Wants]
    /\ token \in [Payments -> Keys \cup {"none", "expired"}]
    /\ stage \in [Payments -> Services \cup {"new", "done", "lost"}]
    /\ call \in [Payments -> [Services -> {"none", "sent", "waking", "sleeping",
                                           "answered", "heard", "gone"}]]
    /\ answer \in [Payments -> [Services ->
          {"none", "valid", "invalid", "200", "400", "404", "409", "500", "SENT"}]]
    /\ reply \in [Payments -> [status : {"none", "200", "401", "404", "409", "502"},
                               notification : {"none", "SENT", "FAILED"}]]
    /\ activeKey \in Keys /\ spent \in SUBSET FaultKeys
    /\ funds \in [Accounts -> Nat]
    /\ debits \in [Payments -> Nat] /\ receipts \in [Payments -> Nat]
    /\ slow \in BOOLEAN /\ delay \in Nat
    /\ slowAdmin \in {"idle", "enable", "restore"}
    /\ sleep \in [Payments -> Nat]

\* PaymentController: an accepted payment has taken the money exactly once,
\* whatever became of the receipt; one that is refused has not taken it and
\* never will.  Only 502 and a lost answer leave it open.
OutcomeMatchesLedger ==
    \A p \in Payments :
        /\ reply[p].status = "200" => debits[p] = 1
        /\ reply[p].status \in {"401", "404", "409"} =>
              debits[p] = 0 /\ call[p]["ledger"] # "sent"
        /\ debits[p] <= 1

\* No money moves for a caller whose token auth-service did not accept, even if
\* keys are swapped while the token travels.
DebitNeedsValidToken ==
    \A p \in Payments : debits[p] > 0 => answer[p]["auth"] = "valid"

\* A receipt is only ever sent for money that has been taken; SENT is only
\* claimed if it was.
ReceiptNeedsDebit ==
    \A p \in Payments :
        /\ receipts[p] > 0 => debits[p] = 1
        /\ reply[p].notification = "SENT" => receipts[p] = 1

\* Every payment submitted is answered unless payment-service dies, although
\* none of the other services need ever answer.
EveryPaymentEnds == \A p \in Payments : Waiting(p) ~> stage[p] \in {"done", "lost"}

\* Once the debit is known to have succeeded only a crash keeps the payment
\* from being accepted: NotificationServiceClient never fails it.
DebitedIsAccepted ==
    \A p \in Payments :
        stage[p] = "notification" ~> reply[p].status = "200" \/ stage[p] = "lost"
=============================================================================
