-------------------------- MODULE ExperimentProofs --------------------------
(***************************************************************************)
(* What holds of any number of experiments, over any services and with any *)
(* interleaving of threads, late calls and kills.                          *)
(***************************************************************************)
EXTENDS Experiment, WellFoundedInduction, TLAPS

USE ExperimentAssumption, ProbeAssumption

-----------------------------------------------------------------------------
\* The token cache.

\* A probe logs in only once its token has gone or lapsed: nothing makes a token
\* fresh before the login's answer is stored.
LoginIsNeeded ==
    /\ token \in [Runs -> Nat \cup {NoToken}]
    /\ fresh \in [Runs -> BOOLEAN]
    /\ probeAt \in [Runs -> {"idle", "check", "login", "expiry", "read", "pay"}]
    /\ \A i \in Runs : probeAt[i] = "login" => token[i] = NoToken \/ ~ fresh[i]

CacheStep == LoginIsNeeded' /\ \A i \in Runs :
    token[i] # NoToken /\ fresh[i] => token'[i] \in {token[i], NoToken}

\* A login answers with a number, whatever key it was minted under.
Carried == carried \in [Runs -> Nat \cup {NoToken}]

LEMMA ProbeKeepsToken ==
    ASSUME LoginIsNeeded, Carried, NEW i \in Runs, NEW key \in Nat,
           BeginProbe(i) \/ EnsureToken(i, key) \/ EndProbe(i) \/ Lapse(i)
    PROVE  CacheStep /\ Carried'
<1> USE DEF LoginIsNeeded, Carried, CacheStep, ProbeGoto
<1>1. CASE BeginProbe(i) \/ EndProbe(i) \/ Lapse(i)
  BY <1>1 DEF BeginProbe, EndProbe, Lapse
<1>2. CASE CheckCache(i)
  BY <1>2 DEF CheckCache
<1>3. CASE LoginAnswered(i, key) \/ LoginFails(i)
  BY <1>3 DEF LoginAnswered, LoginFails
<1>4. CASE StoreToken(i)
  BY <1>4 DEF StoreToken
<1>5. CASE StoreExpiry(i)
  BY <1>5 DEF StoreExpiry
<1>6. CASE ReadToken(i)
  BY <1>6 DEF ReadToken
<1> QED BY <1>1, <1>2, <1>3, <1>4, <1>5, <1>6 DEF EnsureToken

\* force_new_token at any point of a probe.
LEMMA ForcingKeepsToken ==
    ASSUME LoginIsNeeded, Carried, NEW i \in Runs, DropToken(i) \/ DropExpiry(i)
    PROVE  CacheStep /\ Carried'
  BY DEF LoginIsNeeded, Carried, CacheStep, DropToken, DropExpiry

LEMMA IdleKeepsToken ==
    ASSUME LoginIsNeeded, Carried, UNCHANGED probeVars
    PROVE  CacheStep /\ Carried'
  BY DEF LoginIsNeeded, Carried, CacheStep, probeVars

-----------------------------------------------------------------------------
\* Events and calls.

EventKinds == {"EXPERIMENT_START", "FAULT_INJECTED", "FAULT_INJECT_FAILED",
               "FAULT_RESET", "FAULT_RESET_FAILED", "EXPERIMENT_END"}
EventRecords == [event : EventKinds, fault : Faults, run : Runs]

Shape ==
    /\ run \in 0..MaxRuns
    /\ main \in {"baseline", "injecting", "fault", "resetting", "forceToken",
                 "forceExpiry", "recovery", "ended", "killed"}
    /\ main \notin {"ended", "killed"} => run \in Runs
    /\ fault \in [Runs -> Faults]
    /\ request \in [Runs -> [Calls -> {"none", "sent", "answered", "refused"}]]
    /\ on \in [Services -> 0..MaxRuns]
    /\ events \in Seq(EventRecords)

Tried(i, done, failed) == Wrote(i, done) \/ Wrote(i, failed)

\* An event says what its call has come to, and no run is past a call of which
\* no event tells.
Told(i) ==
    /\ i > run => /\ request[i]["inject"] = "none" /\ request[i]["reset"] = "none"
                  /\ \A kind : ~ Wrote(i, kind)
    /\ Wrote(i, "FAULT_INJECTED") => request[i]["inject"] \in {"answered", "refused"}
    /\ Wrote(i, "FAULT_RESET") => request[i]["reset"] = "answered"
    /\ i = run /\ main = "baseline" => request[i]["inject"] = "none"
    /\ i = run /\ main \in {"baseline", "injecting", "fault"} =>
          request[i]["reset"] = "none"
    /\ \/ i = run /\ main \in {"fault", "resetting", "forceToken", "forceExpiry", "recovery"}
       \/ Wrote(i, "EXPERIMENT_END")
       => Tried(i, "FAULT_INJECTED", "FAULT_INJECT_FAILED")
    /\ \/ i = run /\ main \in {"forceToken", "forceExpiry", "recovery"}
       \/ Wrote(i, "EXPERIMENT_END")
       => Tried(i, "FAULT_RESET", "FAULT_RESET_FAILED")

\* A reset that comes after an injection known to be over is final.
ResetIsFinal(i) ==
    Wrote(i, "FAULT_INJECTED") /\ request[i]["reset"] = "answered" => on[fault[i]] # i

RunInv == Shape /\ \A i \in Runs : Told(i) /\ ResetIsFinal(i)

LEMMA WroteAppend ==
    ASSUME events \in Seq(EventRecords), NEW e \in EventRecords,
           events' = Append(events, e)
    PROVE  /\ events' \in Seq(EventRecords)
           /\ \A i, kind : Wrote(i, kind)' <=>
                 Wrote(i, kind) \/ (e.event = kind /\ e.run = i)
<1>1. /\ events' \in Seq(EventRecords) /\ Len(events') = Len(events) + 1
      /\ events'[Len(events) + 1] = e
      /\ \A k \in 1..Len(events) : events'[k] = events[k]
  OBVIOUS
<1>2. DOMAIN events = 1..Len(events) /\ DOMAIN events' = 1..(Len(events) + 1)
  BY <1>1
<1>3. Len(events) \in Nat
  OBVIOUS
<1>4. ASSUME NEW i, NEW kind
      PROVE Wrote(i, kind)' <=> Wrote(i, kind) \/ (e.event = kind /\ e.run = i)
  BY <1>1, <1>2, <1>3 DEF Wrote
<1> QED BY <1>1, <1>4

LEMMA WroteUnchanged ==
    ASSUME UNCHANGED events
    PROVE  \A i, kind : Wrote(i, kind)' <=> Wrote(i, kind)
  BY DEF Wrote

LEMMA WroteEvent ==
    ASSUME Shape, run \in Runs, NEW kind \in EventKinds, Event(kind)
    PROVE  /\ events' \in Seq(EventRecords)
           /\ \A i, k : Wrote(i, k)' <=> Wrote(i, k) \/ (kind = k /\ run = i)
<1> DEFINE e == [event |-> kind, fault |-> fault[run], run |-> run]
<1>1. e \in EventRecords /\ events' = Append(events, e)
  BY DEF Shape, EventRecords, Event
<1>2. events \in Seq(EventRecords)
  BY DEF Shape
<1> QED BY <1>1, <1>2, WroteAppend

\* One of the two calls of a run changes its state.
LEMMA RequestTyped ==
    ASSUME NEW S, NEW r \in [Runs -> [Calls -> S]], NEW i \in Runs, NEW c \in Calls,
           NEW x \in S
    PROVE  [r EXCEPT ![i][c] = x] \in [Runs -> [Calls -> S]]
  OBVIOUS

-----------------------------------------------------------------------------
LEMMA RunInit == Init => RunInv
<1> SUFFICES ASSUME Init PROVE RunInv
  OBVIOUS
<1>1. Shape
  BY DEF Init, Shape, Calls
<1>2. \A i, kind : ~ Wrote(i, kind)
  BY DEF Init, Wrote
<1>3. ASSUME NEW i \in Runs PROVE Told(i) /\ ResetIsFinal(i)
  BY <1>2 DEF Init, Told, ResetIsFinal, Calls
<1> QED BY <1>1, <1>3 DEF RunInv

LEMMA StartRunKeeps == ASSUME RunInv, StartRun PROVE RunInv'
<1> DEFINE e == [event |-> "EXPERIMENT_START", fault |-> fault[run'], run |-> run']
<1>1. Shape /\ run' = run + 1 /\ run' \in Runs /\ events' = Append(events, e)
  BY DEF RunInv, Shape, StartRun
<1>2. e \in EventRecords /\ events \in Seq(EventRecords)
  BY <1>1 DEF Shape, EventRecords, EventKinds
<1>3. \A i, k : Wrote(i, k)' <=> Wrote(i, k) \/ ("EXPERIMENT_START" = k /\ run' = i)
  BY <1>1, <1>2, WroteAppend
<1>4. Shape'
  BY <1>1, <1>2, WroteAppend DEF Shape, StartRun, serviceVars
<1>5. ASSUME NEW i \in Runs PROVE (Told(i) /\ ResetIsFinal(i))'
  <2>1. Told(i) /\ ResetIsFinal(i)
    BY DEF RunInv
  <2> QED BY <1>1, <1>3, <2>1 DEF Shape, Told, Tried, ResetIsFinal, StartRun, serviceVars
<1> QED BY <1>4, <1>5 DEF RunInv

LEMMA AskKeeps == ASSUME RunInv, SendInject \/ SendReset PROVE RunInv'
<1>1. Shape /\ run \in Runs /\ UNCHANGED <<run, fault, events, on>>
  BY DEF RunInv, Shape, SendInject, SendReset
<1>2. \A i, k : Wrote(i, k)' <=> Wrote(i, k)
  BY <1>1, WroteUnchanged
<1>3. Shape'
  <2>1. PICK c \in Calls : Ask(c)
    BY DEF SendInject, SendReset, Calls
  <2>2. request' \in [Runs -> [Calls -> {"none", "sent", "answered", "refused"}]]
    BY <1>1, <2>1, RequestTyped DEF Shape, Ask
  <2> QED BY <1>1, <2>2 DEF Shape, SendInject, SendReset
<1>4. ASSUME NEW i \in Runs PROVE (Told(i) /\ ResetIsFinal(i))'
  <2>1. Told(i) /\ ResetIsFinal(i)
    BY DEF RunInv
  <2>2. CASE SendInject
    BY <1>1, <1>2, <2>1, <2>2 DEF Shape, Told, Tried, ResetIsFinal, SendInject, Ask, Calls
  <2>3. CASE SendReset
    BY <1>1, <1>2, <2>1, <2>3 DEF Shape, Told, Tried, ResetIsFinal, SendReset, Ask, Calls
  <2> QED BY <2>2, <2>3
<1> QED BY <1>3, <1>4 DEF RunInv

LEMMA ReturnKeeps ==
    ASSUME RunInv, InjectReturns \/ ResetReturns \/ EndRun PROVE RunInv'
<1>1. Shape /\ run \in Runs /\ UNCHANGED <<run, fault, request, on>>
  BY DEF RunInv, Shape, InjectReturns, ResetReturns, EndRun, serviceVars
<1>2. PICK kind \in EventKinds : Event(kind)
  BY DEF InjectReturns, ResetReturns, EndRun, EventKinds
<1>3. Shape'
  BY <1>1, <1>2, WroteEvent DEF Shape, InjectReturns, ResetReturns, EndRun
<1>4. ASSUME NEW i \in Runs PROVE (Told(i) /\ ResetIsFinal(i))'
  <2>1. Told(i) /\ ResetIsFinal(i)
    BY DEF RunInv
  <2> USE <1>1, <2>1 DEF Shape, Told, Tried, ResetIsFinal
  <2>2. CASE InjectReturns /\ request[run]["inject"] \in {"answered", "refused"}
                           /\ Event("FAULT_INJECTED")
    <3>1. \A j, k : Wrote(j, k)' <=> Wrote(j, k) \/ ("FAULT_INJECTED" = k /\ run = j)
      BY <2>2, WroteEvent DEF EventKinds
    <3>2. Told(i)'
      BY <2>2, <3>1 DEF InjectReturns
    <3>3. ResetIsFinal(i)'
      BY <2>2, <3>1 DEF InjectReturns
    <3> QED BY <3>2, <3>3
  <2>3. CASE InjectReturns /\ Event("FAULT_INJECT_FAILED")
    <3>1. \A j, k : Wrote(j, k)' <=> Wrote(j, k) \/ ("FAULT_INJECT_FAILED" = k /\ run = j)
      BY <2>3, WroteEvent DEF EventKinds
    <3>2. Told(i)'
      <4>1. CASE i = run
        BY <2>3, <3>1, <4>1 DEF InjectReturns
      <4>2. CASE i # run
        BY <2>3, <3>1, <4>2 DEF InjectReturns
      <4> QED BY <4>1, <4>2
    <3>3. ResetIsFinal(i)'
      BY <2>3, <3>1 DEF InjectReturns
    <3> QED BY <3>2, <3>3
  <2>4. CASE ResetReturns /\ request[run]["reset"] = "answered" /\ Event("FAULT_RESET")
    <3>1. \A j, k : Wrote(j, k)' <=> Wrote(j, k) \/ ("FAULT_RESET" = k /\ run = j)
      BY <2>4, WroteEvent DEF EventKinds
    <3> QED BY <2>4, <3>1 DEF ResetReturns
  <2>5. CASE ResetReturns /\ Event("FAULT_RESET_FAILED")
    <3>1. \A j, k : Wrote(j, k)' <=> Wrote(j, k) \/ ("FAULT_RESET_FAILED" = k /\ run = j)
      BY <2>5, WroteEvent DEF EventKinds
    <3> QED BY <2>5, <3>1 DEF ResetReturns
  <2>6. CASE EndRun
    <3>1. \A j, k : Wrote(j, k)' <=> Wrote(j, k) \/ ("EXPERIMENT_END" = k /\ run = j)
      BY <2>6, WroteEvent DEF EndRun, EventKinds
    <3> QED BY <2>6, <3>1 DEF EndRun
  <2> QED BY <2>2, <2>3, <2>4, <2>5, <2>6 DEF InjectReturns, ResetReturns
<1> QED BY <1>3, <1>4 DEF RunInv

LEMMA QuietKeeps ==
    ASSUME RunInv,
           UNCHANGED <<run, fault, events, request, on>>,
           main' = main \/ ForceNewToken \/ Kill
    PROVE  RunInv'
<1>1. Shape
  BY DEF RunInv
<1>2. \A i, k : Wrote(i, k)' <=> Wrote(i, k)
  BY WroteUnchanged
<1>3. Shape'
  BY <1>1 DEF Shape, ForceNewToken, Kill
<1>4. ASSUME NEW i \in Runs PROVE (Told(i) /\ ResetIsFinal(i))'
  <2>1. Told(i) /\ ResetIsFinal(i)
    BY DEF RunInv
  <2> QED BY <1>1, <1>2, <2>1 DEF Told, Tried, ResetIsFinal, ForceNewToken, Kill
<1> QED BY <1>3, <1>4 DEF RunInv

\* A call of run j is executed, possibly long after run j gave up on it.
LEMMA ServeKeeps ==
    ASSUME RunInv, NEW j \in Runs,
           RefuseInject(j) \/ \E c \in Calls : Execute(j, c)
    PROVE  RunInv'
<1>1. Shape /\ UNCHANGED <<run, main, fault, events>>
  BY DEF RunInv, RefuseInject, Execute, mainVars
<1>2. \A i, k : Wrote(i, k)' <=> Wrote(i, k)
  BY <1>1, WroteUnchanged
<1>3. Shape'
  <2>1. PICK c \in Calls, x \in {"answered", "refused"} :
            request' = [request EXCEPT ![j][c] = x]
    BY DEF RefuseInject, Execute, Calls
  <2>2. request' \in [Runs -> [Calls -> {"none", "sent", "answered", "refused"}]]
    BY <1>1, <2>1, RequestTyped DEF Shape
  <2>3. on' = on \/ \E v \in 0..MaxRuns : on' = [on EXCEPT ![fault[j]] = v]
    BY DEF RefuseInject, Execute
  <2>4. on \in [Services -> 0..MaxRuns]
    BY <1>1 DEF Shape
  <2>5. on' \in [Services -> 0..MaxRuns]
    BY <2>3, <2>4
  <2> QED BY <1>1, <2>2, <2>5 DEF Shape
<1>4. ASSUME NEW i \in Runs PROVE (Told(i) /\ ResetIsFinal(i))'
  <2>1. Told(i) /\ ResetIsFinal(i) /\ fault[i] \in Services /\ fault[j] \in Services
    BY <1>1 DEF RunInv, Shape
  <2>2. CASE RefuseInject(j)
    BY <1>1, <1>2, <2>1, <2>2 DEF Shape, Told, Tried, ResetIsFinal, RefuseInject, Calls
  <2>3. CASE Execute(j, "inject")
    BY <1>1, <1>2, <2>1, <2>3 DEF Shape, Told, Tried, ResetIsFinal, Execute, Calls
  <2>4. CASE Execute(j, "reset")
    BY <1>1, <1>2, <2>1, <2>4 DEF Shape, Told, Tried, ResetIsFinal, Execute, Calls
  <2> QED BY <2>2, <2>3, <2>4 DEF Calls
<1> QED BY <1>3, <1>4 DEF RunInv

LEMMA CollectIsQuiet ==
    ASSUME NEW i \in Runs, Collect(i)
    PROVE  UNCHANGED <<run, main, fault, events, request, on>>
  BY DEF Collect, StampRecord, FetchMetrics, FetchStatus, WriteCycle, StampProbe, Authenticate,
         TokenLapses, PayAndRecord, mainVars, serviceVars

LEMMA RunStep == RunInv /\ [Next]_vars => RunInv'
<1> SUFFICES ASSUME RunInv, [Next]_vars PROVE RunInv'
  OBVIOUS
<1>1. CASE StartRun
  BY <1>1, StartRunKeeps
<1>2. CASE SendInject \/ SendReset
  BY <1>2, AskKeeps
<1>3. CASE InjectReturns \/ ResetReturns \/ EndRun
  BY <1>3, ReturnKeeps
<1>4. CASE ForceNewToken \/ Kill
  BY <1>4, QuietKeeps DEF ForceNewToken, Kill, serviceVars
<1>5. ASSUME NEW i \in Runs, Collect(i) PROVE RunInv'
  BY <1>5, CollectIsQuiet, QuietKeeps
<1>6. ASSUME NEW i \in Runs, RefuseInject(i) \/ \E c \in Calls : Execute(i, c)
      PROVE RunInv'
  BY <1>6, ServeKeeps
<1>7. CASE UNCHANGED vars
  BY <1>7, QuietKeeps DEF vars, mainVars, serviceVars
<1> QED BY <1>1, <1>2, <1>3, <1>4, <1>5, <1>6, <1>7 DEF Next, Proceed

LEMMA RunInvariant == Spec => []RunInv
<1> QED BY RunInit, RunStep, PTL DEF Spec

\* If an experiment has ended and its fault is still on, then a FAULT_INJECT_FAILED
\* or a FAULT_RESET_FAILED of that experiment is in the events file (experiment.py,
\* generate.py:39-40), whatever calls are executed late.
THEOREM FaultLeftOnIsRecorded == Spec => []LeftOnIsRecorded
<1>1. RunInv => LeftOnIsRecorded
  BY DEF RunInv, Told, Tried, ResetIsFinal, LeftOnIsRecorded
<1> QED BY <1>1, RunInvariant, PTL

-----------------------------------------------------------------------------
LEMMA CacheInit == Init => LoginIsNeeded /\ Carried
  BY DEF Init, ProbeInit, LoginIsNeeded, Carried

LEMMA CollectKeepsToken ==
    ASSUME LoginIsNeeded, Carried, RunInv, NEW i \in Runs, Collect(i)
    PROVE  CacheStep /\ Carried'
<1>1. ActiveKey \in Nat
  BY DEF RunInv, Shape, ActiveKey
<1>2. \/ UNCHANGED probeVars
      \/ BeginProbe(i) \/ EnsureToken(i, ActiveKey) \/ EndProbe(i) \/ Lapse(i)
  BY DEF Collect, StampRecord, FetchMetrics, FetchStatus, WriteCycle, StampProbe, Authenticate,
         TokenLapses, PayAndRecord
<1> QED BY <1>1, <1>2, ProbeKeepsToken, IdleKeepsToken

LEMMA CacheStepHolds ==
    LoginIsNeeded /\ Carried /\ RunInv /\ [Next]_vars => CacheStep /\ Carried'
<1> SUFFICES ASSUME LoginIsNeeded, Carried, RunInv, [Next]_vars PROVE CacheStep /\ Carried'
  OBVIOUS
<1>1. CASE ForceNewToken
  <2>1. run \in Runs /\ (DropToken(run) \/ DropExpiry(run))
    BY <1>1 DEF ForceNewToken, RunInv, Shape
  <2> QED BY <2>1, ForcingKeepsToken
<1>2. ASSUME NEW i \in Runs, Collect(i) PROVE CacheStep /\ Carried'
  BY <1>2, CollectKeepsToken
<1>3. CASE StartRun \/ SendInject \/ InjectReturns \/ SendReset \/ ResetReturns
           \/ EndRun \/ Kill
  BY <1>3, IdleKeepsToken
     DEF StartRun, SendInject, InjectReturns, SendReset, ResetReturns, EndRun, Kill
<1>4. ASSUME NEW i \in Runs, RefuseInject(i) \/ \E c \in Calls : Execute(i, c)
      PROVE CacheStep /\ Carried'
  BY <1>4, IdleKeepsToken DEF RefuseInject, Execute
<1>5. CASE UNCHANGED vars
  BY <1>5, IdleKeepsToken DEF vars
<1> QED BY <1>1, <1>2, <1>3, <1>4, <1>5 DEF Next, Proceed

\* A cached token that has not lapsed is never replaced by another one, only
\* dropped (payment_probe.py:9-15), so a token from before the fault meets the
\* fault; force_new_token may interrupt a probe anywhere.
THEOREM TokenIsKept == Spec => FreshTokenIsKept
<1>1. Init => LoginIsNeeded /\ Carried
  BY CacheInit
<1>2. LoginIsNeeded /\ Carried /\ RunInv /\ [Next]_vars => (LoginIsNeeded /\ Carried)'
  BY CacheStepHolds DEF CacheStep
<1>3. Spec => [](LoginIsNeeded /\ Carried)
  BY <1>1, <1>2, RunInvariant, PTL DEF Spec
<1>4. LoginIsNeeded /\ Carried /\ RunInv /\ [Next]_vars =>
        [\A i \in Runs : token[i] # NoToken /\ fresh[i] =>
            token'[i] \in {token[i], NoToken}]_vars
  BY CacheStepHolds DEF CacheStep
<1> QED BY <1>3, <1>4, RunInvariant, PTL DEF Spec, FreshTokenIsKept
-----------------------------------------------------------------------------
\* Whose lines a window holds.

OpenedBy(i, k) == \E s \in DOMAIN events :
    s <= k /\ events[s].event = "EXPERIMENT_START" /\ events[s].run = i

\* The events file has one run after the other, each from its EXPERIMENT_START.
InOrder ==
    /\ \A i \in 1..run : OpenedBy(i, Len(events))
    /\ \A k \in DOMAIN events :
          /\ events[k].run <= run
          /\ OpenedBy(events[k].run, k)
          /\ \A l \in DOMAIN events : k <= l => events[k].run <= events[l].run

\* Run i has taken such a timestamp: after its start and, unless its collector
\* outlived the join, before the start of the next run.
OwnStamp(i, stamp) ==
    /\ i \in Runs /\ stamp \in 0..Len(events) /\ OpenedBy(i, stamp)
    /\ i \in outlived \/ \A k \in DOMAIN events : events[k].run > i => stamp < k

OwnLines(lines) == \A x \in lines : OwnStamp(x.run, x.stamp)

Drafts == [stamp : Nat, met : SUBSET Services]

Collecting ==
    /\ collector \in [Runs -> {"off", "poll", "metrics", "status", "write",
                               "probe", "paying", "done"}]
    /\ draft \in [Runs -> Drafts] /\ DOMAIN batch = Runs
    /\ \A i \in Runs : collector[i] \notin {"off", "done"} =>
          /\ i <= run
          /\ i \in outlived \/ (i = run /\ main \notin {"ended", "killed"})
    /\ \A i \in Runs : collector[i] \in {"metrics", "status", "paying"} =>
          OwnStamp(i, draft[i].stamp)

OwnFiles ==
    /\ OwnLines(records) /\ OwnLines(probes)
    /\ \A i \in Runs : OwnLines(batch[i])

WindowInv == InOrder /\ Collecting /\ OwnFiles

\* What an action may do to the events file and to outlived without touching what
\* has been stamped.
Onward ==
    /\ \/ UNCHANGED events
       \/ \E e \in EventRecords : events' = Append(events, e)
    /\ outlived \subseteq outlived'

LEMMA EventsTyped ==
    ASSUME events \in Seq(EventRecords)
    PROVE  /\ DOMAIN events = 1..Len(events) /\ Len(events) \in Nat
           /\ \A k \in DOMAIN events : events[k] \in EventRecords
           /\ \A k \in DOMAIN events : events[k].run \in Nat
<1>1. /\ DOMAIN events = 1..Len(events) /\ Len(events) \in Nat
      /\ \A k \in DOMAIN events : events[k] \in EventRecords
  OBVIOUS
<1>2. \A e \in EventRecords : e.run \in Nat
  BY DEF EventRecords
<1> QED BY <1>1, <1>2

LEMMA OnwardKeeps ==
    ASSUME events \in Seq(EventRecords), Onward
    PROVE  /\ \A i, k : OpenedBy(i, k) => OpenedBy(i, k)'
           /\ \A i, stamp : OwnStamp(i, stamp) => OwnStamp(i, stamp)'
<1>1. /\ Len(events) \in Nat /\ Len(events') \in Nat
      /\ DOMAIN events = 1..Len(events) /\ DOMAIN events' = 1..Len(events')
      /\ Len(events) <= Len(events')
      /\ \A k \in DOMAIN events : k \in DOMAIN events' /\ events'[k] = events[k]
      /\ \A k \in DOMAIN events' : k \in DOMAIN events \/ k > Len(events)
  BY DEF Onward
<1>2. \A i, k : OpenedBy(i, k) => OpenedBy(i, k)'
  BY <1>1 DEF OpenedBy
<1>3. ASSUME NEW i, NEW stamp, OwnStamp(i, stamp) PROVE OwnStamp(i, stamp)'
  <2>1. i \in Runs /\ stamp \in 0..Len(events') /\ OpenedBy(i, stamp)'
    BY <1>1, <1>2, <1>3 DEF OwnStamp
  <2>2. i \in outlived' \/ \A k \in DOMAIN events' : events'[k].run > i => stamp < k
    <3>1. stamp \in Nat /\ stamp <= Len(events)
      BY <1>1, <1>3 DEF OwnStamp
    <3>2. CASE i \in outlived
      BY <3>2 DEF Onward
    <3>3. CASE \A k \in DOMAIN events : events[k].run > i => stamp < k
      <4>1. ASSUME NEW k \in DOMAIN events', events'[k].run > i PROVE stamp < k
        <5>1. CASE k \in DOMAIN events
          BY <1>1, <3>3, <4>1, <5>1
        <5>2. CASE k > Len(events)
          BY <1>1, <3>1, <4>1, <5>2
        <5> QED BY <1>1, <4>1, <5>1, <5>2
      <4> QED BY <4>1
    <3> QED BY <1>3, <3>2, <3>3 DEF OwnStamp
  <2> QED BY <2>1, <2>2 DEF OwnStamp
<1> QED BY <1>2, <1>3

LEMMA FilesKeep ==
    ASSUME events \in Seq(EventRecords), Onward, OwnFiles,
           UNCHANGED <<records, probes, batch>>
    PROVE  OwnFiles'
<1>1. \A i, stamp : OwnStamp(i, stamp) => OwnStamp(i, stamp)'
  BY OnwardKeeps
<1> QED BY <1>1 DEF OwnFiles, OwnLines

\* The events of one run, then its successor's EXPERIMENT_START.
LEMMA OrderKeeps ==
    ASSUME events \in Seq(EventRecords), run \in Nat, InOrder,
           NEW e \in EventRecords, events' = Append(events, e), e.run = run',
           \/ run' = run + 1 /\ e.event = "EXPERIMENT_START"
           \/ run' = run /\ run \in 1..run
    PROVE  InOrder'
<1>1. PICK n \in Nat : n = Len(events) + 1
  OBVIOUS
<1>2. PICK r \in Nat : r = run'
  BY DEF EventRecords
<1>3. /\ Len(events') = n /\ events'[n] = e
      /\ DOMAIN events = 1..Len(events) /\ DOMAIN events' = 1..n
      /\ \A k \in DOMAIN events : k \in DOMAIN events' /\ events'[k] = events[k]
      /\ \A k \in DOMAIN events' : k \in DOMAIN events \/ k = n
      /\ \A k \in DOMAIN events : k < n
  BY <1>1
<1>4. \A k \in DOMAIN events : events[k].run \in Nat
  BY EventsTyped
<1>5. \A i, k : OpenedBy(i, k) => OpenedBy(i, k)'
  BY <1>3 DEF OpenedBy
<1>6. \A i \in 1..run : OpenedBy(i, n)'
  <2>1. \A i \in 1..run : OpenedBy(i, Len(events))
    BY DEF InOrder
  <2>2. \A i \in 1..run : OpenedBy(i, n)
    BY <1>1, <1>3, <2>1 DEF OpenedBy
  <2> QED BY <1>5, <2>2
<1>7. OpenedBy(r, n)'
  <2>1. CASE run' = run + 1 /\ e.event = "EXPERIMENT_START"
    BY <1>1, <1>2, <1>3, <2>1 DEF OpenedBy
  <2>2. CASE run' = run /\ run \in 1..run
    BY <1>2, <1>6, <2>2
  <2> QED BY <2>1, <2>2
<1>8. \A i \in 1..r : OpenedBy(i, n)'
  <2>1. \A i \in 1..r : i = r \/ i \in 1..run
    BY <1>2
  <2> QED BY <1>6, <1>7, <2>1
<1>9. ASSUME NEW k \in DOMAIN events'
      PROVE  /\ events'[k].run <= r
             /\ \E i : i = events'[k].run /\ OpenedBy(i, k)'
             /\ \A l \in DOMAIN events' : k <= l => events'[k].run <= events'[l].run
  <2>1. CASE k \in DOMAIN events
    <3>1. events'[k] = events[k] /\ events[k].run <= run /\ run <= r
      BY <1>2, <1>3, <2>1 DEF InOrder
    <3>2. events'[k].run <= r
      BY <1>4, <2>1, <3>1
    <3>3. \E i : i = events'[k].run /\ OpenedBy(i, k)'
      BY <1>5, <2>1, <3>1 DEF InOrder
    <3>4. \A l \in DOMAIN events : k <= l => events'[k].run <= events'[l].run
      BY <1>3, <2>1 DEF InOrder
    <3>5. events'[k].run <= events'[n].run
      BY <1>2, <1>3, <3>2
    <3> QED BY <1>3, <3>2, <3>3, <3>4, <3>5
  <2>2. CASE k = n
    <3>1. events'[k].run = r
      BY <1>2, <1>3, <2>2
    <3>2. \A l \in DOMAIN events' : k <= l => l = n
      BY <1>1, <1>3, <2>2
    <3>3. \E i : i = events'[k].run /\ OpenedBy(i, k)'
      BY <1>7, <2>2, <3>1
    <3> QED BY <1>2, <2>2, <3>1, <3>2, <3>3
  <2> QED BY <1>3, <2>1, <2>2
<1>10. (\A i \in 1..run : OpenedBy(i, Len(events)))'
  BY <1>2, <1>3, <1>8 DEF OpenedBy
<1>11. ASSUME NEW k \in DOMAIN events' PROVE OpenedBy(events[k].run, k)'
  <2>1. PICK i : i = events'[k].run /\ OpenedBy(i, k)'
    BY <1>9
  <2> QED BY <2>1 DEF OpenedBy
<1> QED BY <1>2, <1>9, <1>10, <1>11 DEF InOrder

-----------------------------------------------------------------------------
LEMMA WindowInit == Init => WindowInv
<1> SUFFICES ASSUME Init PROVE WindowInv
  OBVIOUS
<1>1. InOrder
  BY DEF Init, InOrder
<1>2. Collecting
  BY DEF Init, Collecting, Drafts, EmptyDraft
<1>3. OwnFiles
  BY DEF Init, OwnFiles, OwnLines
<1> QED BY <1>1, <1>2, <1>3 DEF WindowInv

LEMMA StartRunInWindow == ASSUME RunInv, WindowInv, StartRun PROVE WindowInv'
<1> DEFINE e == [event |-> "EXPERIMENT_START", fault |-> fault[run'], run |-> run']
<1>1. /\ Shape /\ run' = run + 1 /\ run' \in Runs /\ run \in Nat
      /\ events' = Append(events, e) /\ UNCHANGED <<outlived, draft, batch, records, probes>>
  BY DEF RunInv, Shape, StartRun
<1>2. e \in EventRecords /\ events \in Seq(EventRecords)
  BY <1>1 DEF Shape, EventRecords, EventKinds
<1>3. Onward
  BY <1>1, <1>2 DEF Onward
<1>4. InOrder'
  BY <1>1, <1>2, OrderKeeps DEF WindowInv
<1>5. \A i, stamp : OwnStamp(i, stamp) => OwnStamp(i, stamp)'
  BY <1>2, <1>3, OnwardKeeps
<1>6. Collecting'
  BY <1>1, <1>5 DEF WindowInv, Collecting, StartRun
<1>7. OwnFiles'
  BY <1>1, <1>2, <1>3, FilesKeep DEF WindowInv
<1> QED BY <1>4, <1>6, <1>7 DEF WindowInv

LEMMA EventInWindow ==
    ASSUME RunInv, WindowInv, InjectReturns \/ ResetReturns \/ EndRun
    PROVE  WindowInv'
<1>1. /\ Shape /\ run \in Runs /\ run \in Nat /\ run \in 1..run
      /\ UNCHANGED <<run, fault, collector, draft, batch, records, probes>>
  BY DEF RunInv, Shape, InjectReturns, ResetReturns, EndRun, collectorVars
<1>2. PICK kind \in EventKinds : Event(kind)
  BY DEF InjectReturns, ResetReturns, EndRun, EventKinds
<1> DEFINE e == [event |-> kind, fault |-> fault[run], run |-> run]
<1>3. e \in EventRecords /\ events \in Seq(EventRecords) /\ events' = Append(events, e)
  BY <1>1, <1>2 DEF Shape, EventRecords, Event
<1>4. Onward
  BY <1>3 DEF Onward, InjectReturns, ResetReturns, EndRun
<1>5. InOrder'
  BY <1>1, <1>3, OrderKeeps DEF WindowInv
<1>6. \A i, stamp : OwnStamp(i, stamp) => OwnStamp(i, stamp)'
  BY <1>3, <1>4, OnwardKeeps
<1>7. Collecting'
  BY <1>1, <1>6 DEF WindowInv, Collecting, InjectReturns, ResetReturns, EndRun
<1>8. OwnFiles'
  BY <1>1, <1>3, <1>4, FilesKeep DEF WindowInv
<1> QED BY <1>5, <1>7, <1>8 DEF WindowInv

\* What leaves events, outlived and the collectors as they are.
LEMMA AsideOfWindow ==
    ASSUME WindowInv,
           UNCHANGED <<run, events, outlived, collector, draft, batch, records, probes>>,
           main' = main \/ main' \notin {"ended", "killed"}
    PROVE  WindowInv'
<1>1. \A i, k : OpenedBy(i, k)' <=> OpenedBy(i, k)
  BY DEF OpenedBy
<1>2. \A i, stamp : OwnStamp(i, stamp)' <=> OwnStamp(i, stamp)
  BY <1>1 DEF OwnStamp
<1>3. InOrder'
  BY <1>1 DEF WindowInv, InOrder
<1>4. Collecting'
  BY <1>2 DEF WindowInv, Collecting
<1>5. OwnFiles'
  BY <1>2 DEF WindowInv, OwnFiles, OwnLines
<1> QED BY <1>3, <1>4, <1>5 DEF WindowInv

LEMMA KillInWindow == ASSUME WindowInv, Kill PROVE WindowInv'
<1>1. UNCHANGED <<run, events, outlived, records, probes>>
  BY DEF Kill
<1>2. \A i, k : OpenedBy(i, k)' <=> OpenedBy(i, k)
  BY <1>1 DEF OpenedBy
<1>3. \A i, stamp : OwnStamp(i, stamp)' <=> OwnStamp(i, stamp)
  BY <1>1, <1>2 DEF OwnStamp
<1>4. InOrder'
  BY <1>1, <1>2 DEF WindowInv, InOrder
<1>5. Collecting'
  BY DEF Kill, Collecting, Drafts, EmptyDraft
<1>6. OwnFiles'
  BY <1>1, <1>3 DEF WindowInv, OwnFiles, OwnLines, Kill
<1> QED BY <1>4, <1>5, <1>6 DEF WindowInv

-----------------------------------------------------------------------------
\* A timestamp that the collector of run i takes now is its own.
LEMMA StampIsOwn ==
    ASSUME RunInv, WindowInv, NEW i \in Runs, collector[i] \notin {"off", "done"}
    PROVE  OwnStamp(i, Len(events))
<1>1. /\ events \in Seq(EventRecords) /\ run \in Nat /\ Len(events) \in 0..Len(events)
      /\ i \in 1..run
      /\ i \in outlived \/ i = run
  BY DEF RunInv, Shape, WindowInv, Collecting
<1>2. \A k \in DOMAIN events : events[k].run <= run /\ events[k].run \in Nat
  BY <1>1, EventsTyped DEF WindowInv, InOrder
<1>3. OpenedBy(i, Len(events))
  BY <1>1 DEF WindowInv, InOrder
<1> QED BY <1>1, <1>2, <1>3 DEF OwnStamp

\* What the collector of run i stamps, drafts and writes.
LEMMA CollectInWindow ==
    ASSUME RunInv, WindowInv, NEW i \in Runs, Collect(i)
    PROVE  WindowInv'
<1>1. UNCHANGED <<run, main, events, outlived>>
  BY CollectIsQuiet DEF Collect, StampRecord, FetchMetrics, FetchStatus, WriteCycle, StampProbe,
     Authenticate, TokenLapses, PayAndRecord, mainVars
<1>2. \A j, k : OpenedBy(j, k)' <=> OpenedBy(j, k)
  BY <1>1 DEF OpenedBy
<1>3. \A j, stamp : OwnStamp(j, stamp)' <=> OwnStamp(j, stamp)
  BY <1>1, <1>2 DEF OwnStamp
<1>4. InOrder'
  BY <1>1, <1>2 DEF WindowInv, InOrder
<1> USE DEF CollectorGoto
<1>5. collector[i] \notin {"off", "done"} /\ Collecting /\ OwnFiles
  BY DEF WindowInv, Collect, StampRecord, FetchMetrics, FetchStatus, WriteCycle, StampProbe,
         Authenticate, TokenLapses, PayAndRecord
<1>6. OwnStamp(i, Len(events)) /\ Len(events) \in Nat
  BY <1>5, StampIsOwn DEF RunInv, Shape
<1>7. CASE StampRecord(i)
  <2>1. Collecting'
    BY <1>1, <1>3, <1>5, <1>6, <1>7 DEF Collecting, Drafts, StampRecord
  <2>2. OwnFiles'
    BY <1>3, <1>5, <1>7 DEF OwnFiles, OwnLines, StampRecord
  <2> QED BY <1>4, <2>1, <2>2 DEF WindowInv
<1>8. CASE FetchMetrics(i)
  <2>1. Collecting'
    BY <1>1, <1>3, <1>5, <1>8 DEF Collecting, Drafts, FetchMetrics
  <2>2. OwnFiles'
    BY <1>3, <1>5, <1>8 DEF OwnFiles, OwnLines, FetchMetrics
  <2> QED BY <1>4, <2>1, <2>2 DEF WindowInv
<1>9. CASE FetchStatus(i)
  <2>1. Collecting'
    BY <1>1, <1>3, <1>5, <1>9 DEF Collecting, Drafts, EmptyDraft, FetchStatus
  <2>2. PICK flag : batch' = [batch EXCEPT ![i] = @ \cup {Record(i, flag)}]
    BY <1>9 DEF FetchStatus
  <2>3. OwnStamp(Record(i, flag).run, Record(i, flag).stamp)
    BY <1>5, <1>9 DEF Collecting, FetchStatus, Record
  <2>4. OwnFiles'
    BY <1>3, <1>5, <1>9, <2>2, <2>3 DEF OwnFiles, OwnLines, Collecting, FetchStatus
  <2> QED BY <1>4, <2>1, <2>4 DEF WindowInv
<1>10. CASE WriteCycle(i)
  <2>1. Collecting'
    BY <1>1, <1>3, <1>5, <1>10 DEF Collecting, WriteCycle, NextCycle
  <2>2. OwnFiles'
    BY <1>3, <1>5, <1>10 DEF OwnFiles, OwnLines, Collecting, WriteCycle, Written
  <2> QED BY <1>4, <2>1, <2>2 DEF WindowInv
<1>11. CASE StampProbe(i)
  <2>1. Collecting'
    BY <1>1, <1>3, <1>5, <1>6, <1>11 DEF Collecting, Drafts, StampProbe
  <2>2. OwnFiles'
    BY <1>3, <1>5, <1>11 DEF OwnFiles, OwnLines, StampProbe
  <2> QED BY <1>4, <2>1, <2>2 DEF WindowInv
<1>12. CASE Authenticate(i) \/ TokenLapses(i)
  BY <1>12, AsideOfWindow
     DEF Authenticate, TokenLapses, mainVars, collectorVars
<1>13. CASE PayAndRecord(i)
  <2>1. Collecting'
    BY <1>1, <1>3, <1>5, <1>13 DEF Collecting, Drafts, EmptyDraft, PayAndRecord, NextCycle
  <2>2. OwnStamp(Outcome(i).run, Outcome(i).stamp)
    BY <1>5, <1>13 DEF Collecting, PayAndRecord, Outcome
  <2>3. OwnFiles'
    BY <1>3, <1>5, <1>13, <2>2 DEF OwnFiles, OwnLines, PayAndRecord, Written
  <2> QED BY <1>4, <2>1, <2>3 DEF WindowInv
<1> QED BY <1>7, <1>8, <1>9, <1>10, <1>11, <1>12, <1>13 DEF Collect

LEMMA WindowStep == RunInv /\ WindowInv /\ [Next]_vars => WindowInv'
<1> SUFFICES ASSUME RunInv, WindowInv, [Next]_vars PROVE WindowInv'
  OBVIOUS
<1>1. CASE StartRun
  BY <1>1, StartRunInWindow
<1>2. CASE InjectReturns \/ ResetReturns \/ EndRun
  BY <1>2, EventInWindow
<1>3. CASE SendInject \/ SendReset \/ ForceNewToken
  BY <1>3, AsideOfWindow DEF SendInject, SendReset, ForceNewToken, collectorVars
<1>4. CASE Kill
  BY <1>4, KillInWindow
<1>5. ASSUME NEW i \in Runs, Collect(i) PROVE WindowInv'
  BY <1>5, CollectInWindow
<1>6. ASSUME NEW i \in Runs, RefuseInject(i) \/ \E c \in Calls : Execute(i, c)
      PROVE WindowInv'
  BY <1>6, AsideOfWindow DEF RefuseInject, Execute, mainVars, collectorVars
<1>7. CASE UNCHANGED vars
  BY <1>7, AsideOfWindow DEF vars, mainVars, collectorVars
<1> QED BY <1>1, <1>2, <1>3, <1>4, <1>5, <1>6, <1>7 DEF Next, Proceed

-----------------------------------------------------------------------------
\* A non-empty set of positions up to n has a last one.
LEMMA LastPosition ==
    ASSUME NEW n \in Nat, NEW S \in SUBSET (0..n), S # {}
    PROVE  Max(S) \in S /\ \A y \in S : Max(S) >= y
<1> DEFINE T == {n - x : x \in S}
<1>1. T \subseteq Nat
  OBVIOUS
<1>2. T # {}
  OBVIOUS
<1>3. PICK m \in T : \A y \in T : ~ (<<y, m>> \in OpToRel(<, Nat))
  BY <1>1, <1>2, NatLessThanWellFounded, WFMin, Zenon
<1>4. \A y \in Nat : y < m => <<y, m>> \in OpToRel(<, Nat)
  BY <1>1 DEF OpToRel
<1>5. \A y \in T : ~ (y < m)
  BY <1>1, <1>3, <1>4, Zenon
<1>6. PICK x \in S : m = n - x
  OBVIOUS
<1>7. ASSUME NEW y \in S PROVE x >= y
  <2>1. ~ (n - y < n - x)
    BY <1>5, <1>6
  <2> QED BY <2>1
<1> QED BY <1>6, <1>7 DEF Max

\* A block starts with the EXPERIMENT_START of the run whose EXPERIMENT_END closes it.
LEMMA BlockIsOfOneRun ==
    ASSUME Shape, InOrder, NEW j \in Ends(events)
    PROVE  LET s == Opening(events, j) IN
           /\ s \in 1..(j - 1) /\ j \in DOMAIN events /\ events[s].run = events[j].run
<1> DEFINE S == {NoMark} \cup {k \in (NoMark + 1)..(j - 1) :
                    events[k].event \in {"EXPERIMENT_START", "EXPERIMENT_END"}}
           s == Opening(events, j)
<1>1. /\ events \in Seq(EventRecords) /\ j \in 1..Len(events) /\ DOMAIN events = 1..Len(events)
      /\ events[j].event = "EXPERIMENT_END" /\ s # NoMark
  BY DEF Shape, Ends
<1>2. s = Max(S) /\ S \in SUBSET (0..Len(events)) /\ S # {}
  BY <1>1 DEF Opening, LastBetween, NoMark
<1>3. s \in S /\ \A y \in S : s >= y
  <2>1. Len(events) \in Nat
    BY <1>1
  <2> HIDE DEF S, s
  <2>2. Max(S) \in S /\ \A y \in S : Max(S) >= y
    BY <1>2, <2>1, LastPosition
  <2> QED BY <1>2, <2>2
<1>4. s \in 1..(j - 1) /\ s \in DOMAIN events
  BY <1>1, <1>3 DEF NoMark
<1>5. PICK t \in DOMAIN events : t <= j /\ events[t].event = "EXPERIMENT_START"
                                /\ events[t].run = events[j].run
  BY <1>1 DEF InOrder, OpenedBy
<1>6. t \in S
  BY <1>1, <1>5 DEF NoMark
<1>7. t <= s
  BY <1>3, <1>6
<1>8. /\ events[t].run <= events[s].run /\ events[s].run <= events[j].run
      /\ events[s].run \in Nat /\ events[j].run \in Nat
  BY <1>1, <1>4, <1>5, <1>7, EventsTyped DEF InOrder
<1> QED BY <1>1, <1>4, <1>5, <1>8

LEMMA WindowHoldsOwn ==
    ASSUME Shape, InOrder, NEW e \in Experiments(events), NEW i, NEW stamp,
           OwnStamp(i, stamp), InWindow(stamp, e)
    PROVE  i = RunOf(e) \/ i \in outlived
<1>1. PICK j \in Ends(events) : e = Block(events, j)
  BY DEF Experiments
<1> DEFINE s == Opening(events, j)
<1>2. e.start = s /\ e.end = j
  BY <1>1 DEF Block
<1>3. s \in 1..(j - 1) /\ j \in DOMAIN events /\ events[s].run = events[j].run
  BY BlockIsOfOneRun
<1>4. /\ events \in Seq(EventRecords) /\ DOMAIN events = 1..Len(events) /\ s \in DOMAIN events
      /\ RunOf(e) = events[s].run /\ stamp >= s /\ stamp < j /\ stamp \in Nat /\ i \in Nat
      /\ \A k \in DOMAIN events : events[k].run \in Nat
  <2>1. events \in Seq(EventRecords)
    BY DEF Shape
  <2> HIDE DEF s
  <2> QED BY <1>2, <1>3, <2>1, EventsTyped DEF RunOf, InWindow, OwnStamp
<1>5. i <= events[j].run
  <2>1. PICK t \in DOMAIN events : t <= stamp /\ events[t].run = i
    BY DEF OwnStamp, OpenedBy
  <2> QED BY <1>3, <1>4, <2>1 DEF InOrder
<1>6. i \in outlived \/ ~ (events[s].run > i)
  BY <1>4 DEF OwnStamp
<1> QED BY <1>3, <1>4, <1>5, <1>6

LEMMA WindowInvariant == Spec => []WindowInv
<1> QED BY WindowInit, WindowStep, RunInvariant, PTL DEF Spec

\* The window of an experiment, which is cut out of the telemetry and probe files
\* by timestamps alone (reconstruct.py:100-108), holds lines of another run only if
\* that run's collector had outlived join(timeout=10) (experiment.py:132).
THEOREM WindowsDoNotMix == Spec => []SliceIsOwn
<1>1. RunInv /\ WindowInv => SliceIsOwn
  BY WindowHoldsOwn DEF RunInv, WindowInv, OwnFiles, OwnLines, SliceIsOwn
<1> QED BY <1>1, RunInvariant, WindowInvariant, PTL
-----------------------------------------------------------------------------
\* What the invariants above leave open of the types.
Leftovers ==
    /\ kills \in 0..MaxKills /\ outlived \in SUBSET Runs
    /\ cursor \in [Runs -> 1..Len(Polled)] /\ cycles \in [Runs -> 1..MaxCycles]
    /\ forced \in [Runs -> BOOLEAN]
    /\ \A i \in Runs : draft[i].stamp \in 0..Len(events)

LEMMA PolledSize == Len(Polled) \in Nat \ {0}
  BY DEF ExperimentAssumption

LEMMA LeftoversInit == Init => Leftovers
  BY PolledSize DEF Init, Leftovers, EmptyDraft

LEMMA CollectKeepsLeftovers ==
    ASSUME RunInv, WindowInv, Leftovers, NEW i \in Runs, Collect(i)
    PROVE  Leftovers'
<1>1. /\ UNCHANGED <<run, main, events, outlived, kills>>
      /\ draft \in [Runs -> Drafts] /\ Len(events) \in Nat
  <2>1. draft \in [Runs -> Drafts] /\ Len(events) \in Nat
    BY DEF WindowInv, Collecting, RunInv, Shape
  <2> QED BY <2>1 DEF Collect, StampRecord, FetchMetrics, FetchStatus, WriteCycle, StampProbe,
              Authenticate, TokenLapses, PayAndRecord, mainVars
<1>2. forced' \in [Runs -> BOOLEAN]
  BY DEF Leftovers, Collect, StampRecord, FetchMetrics, FetchStatus, WriteCycle, StampProbe,
     Authenticate, TokenLapses, PayAndRecord, TokenForced, collectorVars
<1>3. ASSUME NextCycle(i)
      PROVE  cursor' \in [Runs -> 1..Len(Polled)] /\ cycles' \in [Runs -> 1..MaxCycles]
  <2>1. CASE UNCHANGED <<cycles, cursor>>
    BY <2>1 DEF Leftovers
  <2>2. CASE /\ cycles[i] < MaxCycles /\ cycles' = [cycles EXCEPT ![i] = @ + 1]
             /\ cursor' = [cursor EXCEPT ![i] = 1]
    <3>1. cycles[i] + 1 \in 1..MaxCycles /\ 1 \in 1..Len(Polled)
      BY <2>2, PolledSize DEF Leftovers
    <3> QED BY <2>2, <3>1 DEF Leftovers
  <2> QED BY <1>3, <2>1, <2>2 DEF NextCycle
<1>4. cursor' \in [Runs -> 1..Len(Polled)] /\ cycles' \in [Runs -> 1..MaxCycles]
  <2>1. CASE FetchStatus(i)
    <3>1. cursor[i] \in 1..Len(Polled) /\ cursor[i] + 1 \in Nat /\ UNCHANGED cycles
      BY <2>1, PolledSize DEF Leftovers, FetchStatus
    <3>2. CASE cursor[i] < Len(Polled) /\ cursor' = [cursor EXCEPT ![i] = @ + 1]
      <4>1. cursor[i] + 1 \in 1..Len(Polled)
        BY <3>1, <3>2, PolledSize
      <4> QED BY <3>1, <3>2, <4>1 DEF Leftovers
    <3>3. CASE UNCHANGED cursor
      BY <3>1, <3>3 DEF Leftovers
    <3> QED BY <2>1, <3>2, <3>3 DEF FetchStatus
  <2>2. CASE UNCHANGED <<cursor, cycles>>
    BY <2>2 DEF Leftovers
  <2> QED BY <1>3, <2>1, <2>2 DEF Collect, StampRecord, FetchMetrics, WriteCycle, StampProbe,
              Authenticate, TokenLapses, PayAndRecord, collectorVars
<1>5. ASSUME NEW j \in Runs PROVE draft'[j].stamp \in 0..Len(events)
  <2>1. draft[j].stamp \in 0..Len(events) /\ Len(events) \in 0..Len(events)
    BY <1>1 DEF Leftovers
  <2>2. CASE j # i \/ UNCHANGED draft
    <3>1. draft'[j] = draft[j]
      BY <1>1, <2>2 DEF Collect, StampRecord, FetchMetrics, FetchStatus, WriteCycle,
         StampProbe, Authenticate, TokenLapses, PayAndRecord, collectorVars
    <3> QED BY <2>1, <3>1
  <2>3. CASE j = i /\ (StampRecord(i) \/ StampProbe(i))
    <3>1. draft'[j].stamp = Len(events)
      BY <1>1, <2>3 DEF Drafts, StampRecord, StampProbe
    <3> QED BY <2>1, <3>1
  <2>4. CASE j = i /\ FetchMetrics(i)
    <3>1. draft'[j].stamp = draft[j].stamp
      BY <1>1, <2>4 DEF Drafts, FetchMetrics
    <3> QED BY <2>1, <3>1
  <2>5. CASE j = i /\ (FetchStatus(i) \/ PayAndRecord(i))
    <3>1. draft'[j].stamp = 0
      BY <1>1, <2>5 DEF EmptyDraft, FetchStatus, PayAndRecord
    <3> QED BY <1>1, <3>1
  <2> QED BY <2>2, <2>3, <2>4, <2>5 DEF Collect, WriteCycle, Authenticate, TokenLapses,
              collectorVars
<1> QED BY <1>1, <1>2, <1>4, <1>5 DEF Leftovers

LEMMA LeftoversStep == RunInv /\ WindowInv /\ Leftovers /\ [Next]_vars => Leftovers'
<1> SUFFICES ASSUME RunInv, WindowInv, Leftovers, [Next]_vars PROVE Leftovers'
  OBVIOUS
<1>1. /\ events \in Seq(EventRecords) /\ Len(events) \in Nat
      /\ draft \in [Runs -> Drafts]
  BY DEF RunInv, Shape, WindowInv, Collecting
<1>2. ASSUME Len(events) <= Len(events'), Len(events') \in Nat,
             kills' \in 0..MaxKills, outlived' \in SUBSET Runs,
             UNCHANGED <<cursor, cycles, forced, draft>>
      PROVE  Leftovers'
  <2>1. \A i \in Runs : draft'[i].stamp \in 0..Len(events')
    BY <1>1, <1>2 DEF Leftovers
  <2> QED BY <1>2, <2>1 DEF Leftovers
<1>3. CASE StartRun
  <2>1. Len(events') = Len(events) + 1
    BY <1>1, <1>3 DEF StartRun
  <2>2. UNCHANGED <<cursor, cycles, forced, draft, outlived, kills>>
    BY <1>3 DEF StartRun
  <2>3. kills \in 0..MaxKills /\ outlived \in SUBSET Runs
    BY DEF Leftovers
  <2> QED BY <1>1, <1>2, <2>1, <2>2, <2>3
<1>4. CASE InjectReturns \/ ResetReturns \/ EndRun
  <2>1. PICK kind : Event(kind)
    BY <1>4 DEF InjectReturns, ResetReturns, EndRun
  <2>2. Len(events') = Len(events) + 1
    BY <1>1, <2>1 DEF Event
  <2>3. run \in Runs /\ outlived' \subseteq outlived \cup {run}
    BY <1>4 DEF RunInv, Shape, InjectReturns, ResetReturns, EndRun
  <2>4. kills' \in 0..MaxKills /\ outlived' \in SUBSET Runs
    BY <1>4, <2>3 DEF Leftovers, InjectReturns, ResetReturns, EndRun
  <2>5. UNCHANGED <<cursor, cycles, forced, draft>>
    BY <1>4 DEF InjectReturns, ResetReturns, EndRun, collectorVars
  <2> QED BY <1>1, <1>2, <2>2, <2>4, <2>5
<1>5. CASE SendInject \/ SendReset \/ ForceNewToken \/ UNCHANGED vars
  BY <1>1, <1>2, <1>5 DEF Leftovers, SendInject, SendReset, ForceNewToken, vars, mainVars,
     collectorVars
<1>6. CASE Kill
  <2>1. kills' \in 0..MaxKills
    BY <1>6 DEF Kill, Leftovers
  <2>2. \A i \in Runs : draft'[i].stamp = 0
    BY <1>6 DEF Kill, EmptyDraft
  <2>3. UNCHANGED <<events, outlived, cursor, cycles, forced>>
    BY <1>6 DEF Kill
  <2>4. \A i \in Runs : draft'[i].stamp \in 0..Len(events')
    BY <1>1, <2>2, <2>3
  <2> QED BY <2>1, <2>3, <2>4 DEF Leftovers
<1>7. ASSUME NEW i \in Runs, Collect(i) PROVE Leftovers'
  BY <1>7, CollectKeepsLeftovers
<1>8. ASSUME NEW i \in Runs, RefuseInject(i) \/ \E c \in Calls : Execute(i, c)
      PROVE  Leftovers'
  BY <1>1, <1>2, <1>8 DEF Leftovers, RefuseInject, Execute, mainVars, collectorVars
<1> QED BY <1>3, <1>4, <1>5, <1>6, <1>7, <1>8 DEF Next, Proceed

\* Every variable keeps its type; in particular no record is stamped after the
\* last event, and none belongs to a run that does not exist.
THEOREM TypeCorrect == Spec => []TypeOK
<1>1. ASSUME RunInv, WindowInv, Leftovers, LoginIsNeeded, Carried PROVE TypeOK
  <2>1. ProbeTypeOK
    BY <1>1 DEF LoginIsNeeded, Carried, ProbeTypeOK
  <2>2. \A k \in DOMAIN events : events[k].fault \in Faults /\ events[k].run \in Runs
    <3>1. \A e \in EventRecords : e.fault \in Faults /\ e.run \in Runs
      BY DEF EventRecords
    <3>2. \A k \in DOMAIN events : events[k] \in EventRecords
      BY <1>1, EventsTyped DEF RunInv, Shape
    <3> QED BY <3>1, <3>2
  <2>3. \A x \in records \cup probes \cup UNION {batch[i] : i \in Runs} :
            x.run \in Runs /\ x.stamp <= Len(events)
    <3>1. Len(events) \in Nat
      BY <1>1 DEF RunInv, Shape
    <3>2. \A i, stamp : OwnStamp(i, stamp) => i \in Runs /\ stamp <= Len(events)
      BY <3>1 DEF OwnStamp
    <3> QED BY <1>1, <3>2 DEF WindowInv, OwnFiles, OwnLines
  <2>4. \A i \in Runs : draft[i].stamp <= Len(events) /\ draft[i].met \subseteq Services
    <3>1. Len(events) \in Nat
      BY <1>1 DEF RunInv, Shape
    <3> QED BY <1>1, <3>1 DEF Leftovers, WindowInv, Collecting, Drafts
  <2> QED BY <1>1, <2>1, <2>2, <2>3, <2>4 DEF TypeOK, RunInv, Shape, WindowInv, Collecting,
              Leftovers
<1>2. Spec => [](LoginIsNeeded /\ Carried)
  BY CacheInit, CacheStepHolds, RunInvariant, PTL DEF Spec, CacheStep
<1>3. Spec => []Leftovers
  BY LeftoversInit, LeftoversStep, RunInvariant, WindowInvariant, PTL DEF Spec
<1> QED BY <1>1, <1>2, <1>3, RunInvariant, WindowInvariant, PTL
=============================================================================
