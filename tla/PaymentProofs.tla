---------------------------- MODULE PaymentProofs ----------------------------
(***************************************************************************)
(* What holds of payments for every set of payments, accounts, keys and    *)
(* delays, whatever is lost, late or swapped on the way.                   *)
(***************************************************************************)
EXTENDS PaymentChain, TLAPS

USE ChainAssumption

CallStates == {"none", "sent", "waking", "sleeping", "answered", "heard", "gone"}
Answers == {"none", "valid", "invalid", "200", "400", "404", "409", "500", "SENT"}
Replies == [status : {"none", "200", "401", "404", "409", "502"},
            notification : {"none", "SENT", "FAILED"}]

\* The part of the type invariant that the argument needs.
Shape ==
    /\ call \in [Payments -> [Services -> CallStates]]
    /\ answer \in [Payments -> [Services -> Answers]]
    /\ stage \in [Payments -> Services \cup {"new", "done", "lost"}]
    /\ reply \in [Payments -> Replies]
    /\ debits \in [Payments -> Nat] /\ receipts \in [Payments -> Nat]

\* Executed(s, p): service s has executed its call for payment p.
Executed(p, s) == call[p][s] \in {"answered", "heard"}

\* How far payment p has come, at both ends: no call is made before the last
\* one was heard to have succeeded, and each is executed at most once.
Progress(p) ==
    /\ debits[p] = IF Executed(p, "ledger") /\ answer[p]["ledger"] = "200" THEN 1 ELSE 0
    /\ receipts[p] = IF Executed(p, "notification") THEN 1 ELSE 0
    /\ stage[p] = "new" => call[p]["auth"] = "none"
    /\ call[p]["ledger"] # "none" =>
          call[p]["auth"] = "heard" /\ answer[p]["auth"] = "valid"
    /\ call[p]["notification"] # "none" =>
          call[p]["ledger"] = "heard" /\ answer[p]["ledger"] = "200"
    /\ call[p]["ledger"] \in {"none", "sent", "answered", "heard", "gone"}
    /\ stage[p] \in {"new", "auth"} => call[p]["ledger"] = "none"
    /\ stage[p] = "ledger" => call[p]["notification"] = "none"
    /\ stage[p] = "notification" => call[p]["notification"] # "none"

\* What a reply says has been established by then.
ReplyOK(p) ==
    /\ reply[p].status # "none" => stage[p] = "done"
    /\ reply[p].status = "200" => call[p]["notification"] # "none"
    /\ reply[p].status = "401" => call[p]["ledger"] = "none"
    /\ reply[p].status \in {"404", "409"} =>
          call[p]["ledger"] = "heard" /\ answer[p]["ledger"] = reply[p].status
    /\ reply[p].notification = "SENT" =>
          stage[p] = "done" /\ call[p]["notification"] = "heard"

ChainInv == Shape /\ \A p \in Payments : Progress(p) /\ ReplyOK(p)

LEMMA ChainInit == Init => ChainInv
<1> SUFFICES ASSUME Init PROVE ChainInv
  OBVIOUS
<1>1. Shape
  BY DEF Init, Shape, CallStates, Answers, Replies
<1>2. ASSUME NEW p \in Payments PROVE Progress(p) /\ ReplyOK(p)
  BY DEF Init, Progress, ReplyOK, Executed, Services
<1> QED BY <1>1, <1>2 DEF ChainInv

\* A step of one payment leaves the others alone.
LEMMA Others ==
  ASSUME ChainInv, Shape', NEW p \in Payments,
         \A q \in Payments : q # p =>
            /\ call'[q] = call[q] /\ answer'[q] = answer[q]
            /\ stage'[q] = stage[q] /\ reply'[q] = reply[q]
            /\ debits'[q] = debits[q] /\ receipts'[q] = receipts[q],
         Progress(p)' /\ ReplyOK(p)'
  PROVE  ChainInv'
<1>1. ASSUME NEW q \in Payments, q # p PROVE (Progress(q) /\ ReplyOK(q))'
  BY <1>1 DEF ChainInv, Progress, ReplyOK, Executed
<1> QED BY <1>1 DEF ChainInv

LEMMA SendShape ==
  ASSUME Shape, NEW p \in Payments, NEW s \in Services, Send(p, s),
         UNCHANGED <<answer, debits, receipts>>
  PROVE  Shape'
<1> DEFINE row == [t \in Services |->
        IF t = s THEN "sent" ELSE IF t = stage[p] THEN "heard" ELSE call[p][t]]
<1>1. row \in [Services -> CallStates]
  BY DEF Shape, CallStates
<1>2. call' = [call EXCEPT ![p] = row]
  BY DEF Send
<1>3. call' \in [Payments -> [Services -> CallStates]]
  BY <1>1, <1>2 DEF Shape
<1>4. stage' \in [Payments -> Services \cup {"new", "done", "lost"}] /\ reply' = reply
  BY DEF Send, Shape
<1> QED BY <1>3, <1>4 DEF Shape

LEMMA HearShape ==
  ASSUME Shape, NEW p \in Payments, NEW s \in Services, NEW status, NEW notification,
         [status |-> status, notification |-> notification] \in Replies,
         Reply(p, status, notification), Hear(p, s) \/ UNCHANGED call,
         UNCHANGED <<answer, debits, receipts>>
  PROVE  Shape'
<1>1. call' \in [Payments -> [Services -> CallStates]]
  <2>1. CASE Hear(p, s)
    <3>1. [call[p] EXCEPT ![s] = "heard"] \in [Services -> CallStates]
      BY DEF Shape, CallStates
    <3> QED BY <2>1, <3>1 DEF Shape, Hear
  <2>2. CASE UNCHANGED call
    BY <2>2 DEF Shape
  <2> QED BY <2>1, <2>2
<1>2. stage' \in [Payments -> Services \cup {"new", "done", "lost"}]
  BY DEF Shape, Reply
<1>3. reply' \in [Payments -> Replies]
  BY Zenon DEF Shape, Reply
<1> QED BY <1>1, <1>2, <1>3 DEF Shape

\* What payment-service itself does.
LEMMA ClientStep ==
  ASSUME ChainInv, NEW p \in Payments, Submit(p) \/ Resume(p)
  PROVE  ChainInv'
<1> USE DEF ChainInv, Shape, CallStates, Answers, Replies, Services, serverVars
<1>1. CASE Submit(p)
  <2>1. Shape'
    BY <1>1, SendShape, HearShape DEF Submit
  <2>2. Progress(p)' /\ ReplyOK(p)'
    BY <1>1 DEF Submit, Reply, Send, Progress, ReplyOK, Executed
  <2> QED BY <1>1, <2>1, <2>2, Others DEF Submit, Reply, Send
<1>2. CASE Validated(p)
  <2>1. Shape'
    BY <1>2, SendShape, HearShape DEF Validated
  <2>2. Progress(p)' /\ ReplyOK(p)'
    BY <1>2 DEF Validated, Answered, Reply, Send, Hear, Progress, ReplyOK, Executed
  <2> QED BY <1>2, <2>1, <2>2, Others DEF Validated, Reply, Send, Hear
<1>3. CASE Debited(p)
  <2>1. Shape'
    BY <1>3, SendShape, HearShape DEF Debited
  <2>2. Progress(p)' /\ ReplyOK(p)'
    BY <1>3 DEF Debited, Answered, Reply, Send, Hear, Progress, ReplyOK, Executed
  <2> QED BY <1>3, <2>1, <2>2, Others DEF Debited, Reply, Send, Hear
<1>4. CASE Notified(p)
  <2>1. Shape'
    BY <1>4 DEF Notified, Reply, Hear
  <2>2. Progress(p)' /\ ReplyOK(p)'
    BY <1>4 DEF Notified, Answered, Reply, Hear, Progress, ReplyOK, Executed
  <2> QED BY <1>4, <2>1, <2>2, Others DEF Notified, Reply, Hear
<1>5. CASE GiveUp(p)
  <2>1. Shape'
    BY <1>5 DEF GiveUp, Reply
  <2>2. Progress(p)' /\ ReplyOK(p)'
    BY <1>5 DEF GiveUp, Waiting, Reply, Progress, ReplyOK, Executed
  <2> QED BY <1>5, <2>1, <2>2, Others DEF GiveUp, Reply
<1> QED BY <1>1, <1>2, <1>3, <1>4, <1>5 DEF Resume

\* What the other services do with a call.
LEMMA ServerStep ==
  ASSUME ChainInv, NEW p \in Payments,
         \/ \E s \in Services : Lose(p, s)
         \/ Validate(p) \/ Debit(p) \/ RefuseDebit(p)
         \/ ReadSlow(p) \/ ReadDelay(p) \/ SendReceipt(p)
  PROVE  ChainInv'
<1> USE DEF ChainInv, Shape, CallStates, Answers, Replies, Services, paymentVars,
            serverVars
<1>1. ASSUME NEW s \in Services, Lose(p, s) PROVE ChainInv'
  <2>1. Shape'
    BY <1>1 DEF Lose
  <2>2. Progress(p)' /\ ReplyOK(p)'
    BY <1>1 DEF Lose, Progress, ReplyOK, Executed
  <2> QED BY <1>1, <2>1, <2>2, Others DEF Lose
<1>2. CASE Validate(p)
  <2>1. Shape'
    BY <1>2 DEF Validate, Answer
  <2>2. Progress(p)' /\ ReplyOK(p)'
    BY <1>2 DEF Validate, Answer, Progress, ReplyOK, Executed
  <2> QED BY <1>2, <2>1, <2>2, Others DEF Validate, Answer
<1>3. CASE Debit(p)
  <2>1. Shape'
    BY <1>3 DEF Debit, Answer
  <2>2. Progress(p)' /\ ReplyOK(p)'
    BY <1>3 DEF Debit, Answer, Progress, ReplyOK, Executed
  <2> QED BY <1>3, <2>1, <2>2, Others DEF Debit, Answer
<1>4. CASE RefuseDebit(p)
  <2>0. PICK what \in {"400", "404", "409", "500"} : Answer(p, "ledger", what)
    BY <1>4 DEF RefuseDebit, Refusal
  <2>1. Shape'
    BY <1>4, <2>0 DEF RefuseDebit, Answer
  <2>2. Progress(p)' /\ ReplyOK(p)'
    BY <1>4, <2>0 DEF RefuseDebit, Answer, Progress, ReplyOK, Executed
  <2> QED BY <1>4, <2>0, <2>1, <2>2, Others DEF RefuseDebit, Answer
<1>5. CASE ReadSlow(p) \/ ReadDelay(p)
  <2>1. Shape'
    <3>1. \E new \in {"waking", "sleeping"} :
             call' = [call EXCEPT ![p]["notification"] = new]
      BY <1>5 DEF ReadSlow, ReadDelay
    <3> QED BY <1>5, <3>1 DEF ReadSlow, ReadDelay
  <2>2. Progress(p)' /\ ReplyOK(p)'
    BY <1>5 DEF ReadSlow, ReadDelay, Progress, ReplyOK, Executed
  <2> QED BY <1>5, <2>1, <2>2, Others DEF ReadSlow, ReadDelay
<1>6. CASE SendReceipt(p)
  <2>1. Shape'
    BY <1>6 DEF SendReceipt, Answer
  <2>2. Progress(p)' /\ ReplyOK(p)'
    BY <1>6 DEF SendReceipt, Answer, Progress, ReplyOK, Executed
  <2> QED BY <1>6, <2>1, <2>2, Others DEF SendReceipt, Answer
<1> QED BY <1>1, <1>2, <1>3, <1>4, <1>5, <1>6

LEMMA ChainStep == ChainInv /\ [Next]_vars => ChainInv'
<1> SUFFICES ASSUME ChainInv, [Next]_vars PROVE ChainInv'
  OBVIOUS
<1>1. ASSUME UNCHANGED <<call, answer, stage, reply, debits, receipts>>
      PROVE  ChainInv'
  BY <1>1 DEF ChainInv, Shape, Progress, ReplyOK, Executed
<1>2. CASE Crash
  <2>1. Shape'
    BY <1>2 DEF Crash, ChainInv, Shape, serverVars
  <2>2. ASSUME NEW p \in Payments PROVE Progress(p)' /\ ReplyOK(p)'
    BY <1>2 DEF Crash, Waiting, Services, ChainInv, Shape, Replies, Progress, ReplyOK,
                Executed, serverVars
  <2> QED BY <2>1, <2>2 DEF ChainInv
<1>3. CASE \/ \E p \in Payments : Login(p) \/ Expire(p)
           \/ InjectKey \/ ResetKey \/ InjectLatency \/ ResetLatency \/ FinishLatency
           \/ UNCHANGED vars
  BY <1>1, <1>3 DEF Login, Expire, InjectKey, ResetKey, InjectLatency, ResetLatency,
                    FinishLatency, vars, paymentVars, serverVars
<1> QED BY <1>2, <1>3, ClientStep, ServerStep DEF Next

\* The reply of payment-service and the books of ledger-service never
\* contradict each other.
THEOREM OutcomesAgree == Spec => []OutcomeMatchesLedger
<1>1. ChainInv => OutcomeMatchesLedger
  BY DEF ChainInv, Progress, ReplyOK, Executed, OutcomeMatchesLedger
<1> QED BY <1>1, ChainInit, ChainStep, PTL DEF Spec

\* Money moves only for tokens auth-service has accepted.
THEOREM DebitsAreAuthorised == Spec => []DebitNeedsValidToken
<1>1. ChainInv => DebitNeedsValidToken
  BY DEF ChainInv, Shape, Progress, Executed, DebitNeedsValidToken
<1> QED BY <1>1, ChainInit, ChainStep, PTL DEF Spec

\* Receipts follow debits, and SENT is only said of receipts.
THEOREM ReceiptsFollowDebits == Spec => []ReceiptNeedsDebit
<1>1. ChainInv => ReceiptNeedsDebit
  BY DEF ChainInv, Progress, ReplyOK, Executed, ReceiptNeedsDebit
<1> QED BY <1>1, ChainInit, ChainStep, PTL DEF Spec

-----------------------------------------------------------------------------
(* Types. *)

\* The variables of which Shape says nothing.
Rest ==
    /\ want \in [Payments -> Wants]
    /\ token \in [Payments -> Keys \cup {"none", "expired"}]
    /\ activeKey \in Keys /\ spent \in SUBSET FaultKeys
    /\ funds \in [Accounts -> Nat]
    /\ slow \in BOOLEAN /\ delay \in Nat
    /\ slowAdmin \in {"idle", "enable", "restore"}
    /\ sleep \in [Payments -> Nat]

\* No debit makes a balance negative: it is refused first.
LEMMA DebitKeepsFunds ==
  ASSUME Rest, NEW p \in Payments, Debit(p)
  PROVE  funds' \in [Accounts -> Nat]
<1> DEFINE w == want[p]
<1>1. /\ w.amount # NoAmount /\ w.account \in Accounts
      /\ ~ (funds[w.account] < w.amount)
  BY DEF Debit, Refusal
<1>2. w.amount \in Nat /\ funds[w.account] \in Nat
  BY <1>1 DEF Rest
<1>3. funds[w.account] - w.amount \in Nat
  BY <1>1, <1>2
<1> QED BY <1>3 DEF Debit, Rest

LEMMA RestStep == Rest /\ [Next]_vars => Rest'
<1> SUFFICES ASSUME Rest, [Next]_vars PROVE Rest'
  OBVIOUS
<1> USE DEF paymentVars, serverVars, latencyVars
<1>1. ASSUME NEW p \in Payments, Login(p) \/ Expire(p) \/ Submit(p) \/ Resume(p)
      PROVE  Rest'
  BY <1>1 DEF Rest, Login, Expire, Submit, Resume, Validated, Debited, Notified, GiveUp
<1>2. ASSUME NEW p \in Payments,
             \/ \E s \in Services : Lose(p, s)
             \/ Validate(p) \/ RefuseDebit(p) \/ ReadSlow(p) \/ SendReceipt(p)
      PROVE  Rest'
  BY <1>2 DEF Rest, Lose, Validate, RefuseDebit, ReadSlow, SendReceipt
<1>3. ASSUME NEW p \in Payments, Debit(p) PROVE Rest'
  BY <1>3, DebitKeepsFunds DEF Rest, Debit
<1>4. ASSUME NEW p \in Payments, ReadDelay(p) PROVE Rest'
  BY <1>4 DEF Rest, ReadDelay
<1>5. CASE Crash \/ InjectKey \/ ResetKey \/ UNCHANGED vars
  BY <1>5 DEF Rest, Crash, InjectKey, ResetKey, Keys, vars
<1>6. CASE InjectLatency \/ ResetLatency \/ FinishLatency
  <2>1. slow' \in BOOLEAN
    BY <1>6, Zenon DEF Rest, InjectLatency, ResetLatency, FinishLatency
  <2> QED BY <1>6, <2>1 DEF Rest, InjectLatency, ResetLatency, FinishLatency
<1> QED BY <1>1, <1>2, <1>3, <1>4, <1>5, <1>6 DEF Next

\* Every variable keeps its type: in particular no account is overdrawn,
\* however many payments rival for its money.
THEOREM TypeCorrect == Spec => []TypeOK
<1>1. Init => Rest
  <2> SUFFICES ASSUME Init PROVE Rest
    OBVIOUS
  <2>1. slow \in BOOLEAN
    BY Zenon DEF Init
  <2> QED BY <2>1 DEF Init, Rest, Keys
<1>2. ChainInv /\ Rest => TypeOK
  BY DEF ChainInv, Shape, Rest, TypeOK, CallStates, Answers, Replies
<1> QED BY <1>1, <1>2, ChainInit, ChainStep, RestStep, PTL DEF Spec

-----------------------------------------------------------------------------
(* Progress. *)

\* How far a payment has come, in payment-service and at the other services.
Place == [s \in Services \cup {"new", "done", "lost"} |->
    CASE s = "new" -> 0 [] s = "auth" -> 1 [] s = "ledger" -> 2 [] s = "notification" -> 3
      [] s \in {"done", "lost"} -> 4]

Phase == [c \in CallStates |->
    CASE c = "none" -> 0 [] c = "sent" -> 1 [] c = "waking" -> 2 [] c = "sleeping" -> 3
      [] c \in {"answered", "gone"} -> 4 [] c = "heard" -> 5]

\* The payment itself: it goes on from service to service, its reply stands, and from the
\* receipt on it has no outcome but 200, short of the death of the process.
PaymentAdvances(p) ==
    /\ Place[stage'[p]] >= Place[stage[p]]
    /\ Resume(p) => Place[stage'[p]] > Place[stage[p]]
    /\ stage[p] \in {"done", "lost"} => stage'[p] = stage[p] /\ reply'[p] = reply[p]
    /\ stage[p] = "notification" =>
          \/ stage'[p] \in {"notification", "lost"}
          \/ stage'[p] = "done" /\ reply'[p].status = "200"

\* Its calls: none is made or answered twice, and what is answered stands.
CallAdvances(p, s) ==
    /\ call'[p][s] # call[p][s] => Phase[call'[p][s]] > Phase[call[p][s]]
    /\ call[p][s] \in {"answered", "gone", "heard"} => answer'[p][s] = answer[p][s]

PaymentsAdvance ==
    \A p \in Payments : PaymentAdvances(p) /\ \A s \in Services : CallAdvances(p, s)

LEMMA PhaseIsNat == Place \in [Services \cup {"new", "done", "lost"} -> 0..4]
                    /\ Phase \in [CallStates -> 0..5]
  BY DEF Services, CallStates, Place, Phase

LEMMA ResumeAdvances ==
  ASSUME Shape, NEW p \in Payments, Resume(p)
  PROVE  Place[stage'[p]] > Place[stage[p]]
<1> USE DEF Place, Services
<1>1. stage \in [Payments -> Services \cup {"new", "done", "lost"}]
  BY DEF Shape
<1>2. CASE Validated(p) \/ Debited(p)
  BY <1>1, <1>2 DEF Validated, Debited, Answered, Reply, Send
<1>3. CASE Notified(p) \/ GiveUp(p)
  BY <1>1, <1>3 DEF Notified, GiveUp, Answered, Waiting, Reply
<1> QED BY <1>2, <1>3 DEF Resume

\* A payment that does not move, whose calls stay or are executed.
LEMMA StageStays ==
  ASSUME Shape, NEW p \in Payments, stage'[p] = stage[p], reply'[p] = reply[p],
         \A s \in Services : CallAdvances(p, s)
  PROVE  PaymentAdvances(p) /\ \A s \in Services : CallAdvances(p, s)
<1>1. stage[p] \in Services \cup {"new", "done", "lost"}
  BY DEF Shape
<1>2. Place[stage[p]] \in 0..4
  BY <1>1, PhaseIsNat
<1>3. ~ Resume(p)
  BY <1>2, ResumeAdvances
<1> QED BY <1>1, <1>2, <1>3 DEF PaymentAdvances, Services

\* What payment-service does for a payment.
LEMMA OwnStepAdvances ==
  ASSUME ChainInv, NEW p \in Payments, Submit(p) \/ Resume(p)
  PROVE  PaymentAdvances(p) /\ \A s \in Services : CallAdvances(p, s)
<1> USE DEF CallAdvances, Place, Phase, CallStates, Services
<1>0. /\ stage \in [Payments -> Services \cup {"new", "done", "lost"}]
      /\ call \in [Payments -> [Services -> CallStates]]
      /\ reply \in [Payments -> Replies]
      /\ Progress(p)
  BY DEF ChainInv, Shape
<1>1. \A s \in Services : CallAdvances(p, s)
  <2>1. CASE Submit(p)
    BY <1>0, <2>1 DEF Submit, Reply, Send, Progress
  <2>2. CASE Validated(p)
    BY <1>0, <2>2 DEF Validated, Answered, Reply, Send, Hear, Progress
  <2>3. CASE Debited(p)
    BY <1>0, <2>3 DEF Debited, Answered, Reply, Send, Hear, Progress
  <2>4. CASE Notified(p) \/ GiveUp(p)
    BY <1>0, <2>4 DEF Notified, Answered, GiveUp, Reply, Hear
  <2> QED BY <2>1, <2>2, <2>3, <2>4 DEF Resume
<1>2. PaymentAdvances(p)
  <2>1. CASE Submit(p)
    <3>1. stage[p] = "new" /\ stage'[p] \in {"auth", "done"}
      BY <1>0, <2>1 DEF Submit, Reply, Send
    <3>2. ~ Resume(p)
      BY <3>1 DEF Resume, Validated, Debited, Notified, GiveUp, Answered, Waiting
    <3> QED BY <3>1, <3>2 DEF PaymentAdvances
  <2>2. CASE Resume(p)
    <3>1. Place[stage'[p]] > Place[stage[p]] /\ Place[stage'[p]] \in Nat /\ Place[stage[p]] \in Nat
      <4>1. stage'[p] \in Services \cup {"new", "done", "lost"}
        BY <1>0, <2>2 DEF Resume, Validated, Debited, Notified, GiveUp, Reply, Send
      <4> QED BY <1>0, <2>2, <4>1, ResumeAdvances, PhaseIsNat DEF ChainInv
    <3>2. stage[p] \in Services
      BY <2>2 DEF Resume, Validated, Debited, Notified, GiveUp, Answered, Waiting
    <3>3. stage[p] = "notification" => stage'[p] = "done" /\ reply'[p].status = "200"
      BY <1>0, <2>2 DEF Resume, Validated, Debited, Notified, GiveUp, Answered, Reply
    <3> QED BY <3>1, <3>2, <3>3 DEF PaymentAdvances
  <2> QED BY <2>1, <2>2
<1> QED BY <1>1, <1>2

\* What the other services do with its calls.
LEMMA ServiceAdvances ==
  ASSUME Shape, NEW p \in Payments,
         \/ \E s \in Services : Lose(p, s)
         \/ Validate(p) \/ Debit(p) \/ RefuseDebit(p)
         \/ ReadSlow(p) \/ ReadDelay(p) \/ SendReceipt(p)
  PROVE  \A q \in Payments : PaymentAdvances(q) /\ \A s \in Services : CallAdvances(q, s)
<1> USE DEF Phase, CallStates, Services
<1>0. /\ call \in [Payments -> [Services -> CallStates]]
      /\ answer \in [Payments -> [Services -> Answers]]
      /\ stage' = stage /\ reply' = reply
  BY DEF Shape, Lose, Validate, Debit, RefuseDebit, ReadSlow, ReadDelay, SendReceipt,
         paymentVars
<1>1. /\ Phase["sent"] = 1 /\ Phase["waking"] = 2 /\ Phase["sleeping"] = 3
      /\ Phase["answered"] = 4 /\ Phase["gone"] = 4
  OBVIOUS
<1>2. ASSUME NEW q \in Payments, NEW t \in Services PROVE CallAdvances(q, t)
  <2> HIDE DEF Phase
  <2>1. CASE \E s \in Services : Lose(p, s)
    <3>1. PICK s \in Services : Lose(p, s)
      BY <2>1
    <3> QED BY <1>0, <1>1, <3>1 DEF Lose, CallAdvances
  <2>2. CASE Validate(p) \/ Debit(p) \/ RefuseDebit(p) \/ SendReceipt(p)
    <3>1. PICK s \in Services, what \in Answers :
             /\ Answer(p, s, what) /\ call[p][s] \in {"sent", "sleeping"}
      BY <2>2 DEF Validate, Debit, RefuseDebit, SendReceipt, Refusal, Answers
    <3> QED BY <1>0, <1>1, <3>1 DEF Answer, CallAdvances
  <2>3. CASE ReadSlow(p)
    BY <1>0, <1>1, <2>3 DEF ReadSlow, CallAdvances
  <2>4. CASE ReadDelay(p)
    BY <1>0, <1>1, <2>4 DEF ReadDelay, CallAdvances
  <2> QED BY <2>1, <2>2, <2>3, <2>4
<1> QED BY <1>0, <1>2, StageStays

\* A payment under way goes on: in four steps of Resume at most it ends, and what is
\* lost, late or done by others meanwhile neither takes it back nor changes what was
\* answered (EveryPaymentEnds and DebitedIsAccepted, but for the fairness).
THEOREM PaymentsOnlyAdvance == Spec => [][PaymentsAdvance]_vars
<1>1. ASSUME ChainInv, Next PROVE PaymentsAdvance
  <2>0. Shape
    BY <1>1 DEF ChainInv
  <2>1. ASSUME NEW p \in Payments, stage'[p] = stage[p], reply'[p] = reply[p],
               call'[p] = call[p], answer'[p] = answer[p]
        PROVE  PaymentAdvances(p) /\ \A s \in Services : CallAdvances(p, s)
    BY <2>0, <2>1, StageStays DEF CallAdvances
  <2>2. ASSUME NEW p \in Payments, Submit(p) \/ Resume(p) PROVE PaymentsAdvance
    <3>1. ASSUME NEW q \in Payments, q # p
          PROVE  PaymentAdvances(q) /\ \A s \in Services : CallAdvances(q, s)
      <4>1. /\ stage'[q] = stage[q] /\ reply'[q] = reply[q]
            /\ call'[q] = call[q] /\ answer'[q] = answer[q]
        BY <2>0, <2>2, <3>1 DEF Shape, Submit, Resume, Validated, Debited, Notified, GiveUp,
                                Reply, Send, Hear
      <4> QED BY <2>1, <4>1
    <3> QED BY <1>1, <2>2, <3>1, OwnStepAdvances DEF PaymentsAdvance
  <2>3. CASE Crash
    <3>1. ASSUME NEW p \in Payments, ~ Waiting(p)
          PROVE  PaymentAdvances(p) /\ \A s \in Services : CallAdvances(p, s)
      BY <2>0, <2>1, <2>3, <3>1 DEF Crash, Shape
    <3>2. ASSUME NEW p \in Payments, Waiting(p)
          PROVE  PaymentAdvances(p) /\ \A s \in Services : CallAdvances(p, s)
      <4>1. /\ stage[p] \in Services /\ stage'[p] = "lost"
            /\ call' = call /\ answer' = answer
        BY <2>3, <3>2 DEF Crash, Waiting
      <4> QED BY <4>1 DEF PaymentAdvances, CallAdvances, Place, Services
    <3> QED BY <3>1, <3>2 DEF PaymentsAdvance
  <2>4. CASE \E p \in Payments :
                \/ \E s \in Services : Lose(p, s)
                \/ Validate(p) \/ Debit(p) \/ RefuseDebit(p)
                \/ ReadSlow(p) \/ ReadDelay(p) \/ SendReceipt(p)
    BY <2>0, <2>4, ServiceAdvances DEF PaymentsAdvance
  <2>5. CASE \/ \E p \in Payments : Login(p) \/ Expire(p)
             \/ InjectKey \/ ResetKey \/ InjectLatency \/ ResetLatency \/ FinishLatency
    <3>1. UNCHANGED <<stage, reply, call, answer>>
      BY <2>5 DEF Login, Expire, InjectKey, ResetKey, InjectLatency, ResetLatency,
                  FinishLatency, paymentVars
    <3> QED BY <2>1, <3>1 DEF PaymentsAdvance
  <2> QED BY <1>1, <2>2, <2>3, <2>4, <2>5 DEF Next
<1>2. ChainInv /\ [Next]_vars => [PaymentsAdvance]_vars
  BY <1>1
<1> QED BY <1>2, ChainInit, ChainStep, PTL DEF Spec
=============================================================================
