---------------------------- MODULE LabelProofs ----------------------------
(***************************************************************************)
(* What the phase labels of reconstruct.py are worth: a record that is     *)
(* labelled by timestamps alone was measured with the fault on or off as   *)
(* its label says, whatever the threads and the late calls do.             *)
(***************************************************************************)
EXTENDS ExperimentProofs

USE ExperimentAssumption, ProbeAssumption

-----------------------------------------------------------------------------
\* The injections of all runs up to i are known to be over.
AllInjected(i) == \A j \in 1..i : Wrote(j, "FAULT_INJECTED")

\* No call of an earlier run can still switch a fault on, and the collector of run
\* i has not outlived it.
Quiet(i) == i \notin outlived /\ AllInjected(i)

\* Run i had written such an event when the timestamp was taken.
Since(i, kind, stamp) == \E k \in DOMAIN events :
    k <= stamp /\ events[k].event = kind /\ events[k].run = i

CleanAfterReset(i, stamp, met) ==
    Quiet(i) /\ Since(i, "FAULT_RESET", stamp) => fault[i] \notin met

\* seen: after the metrics the collector has seen the fault on.
FaultyWhileOn(i, stamp, met, seen) ==
    Quiet(i) /\ Since(i, "FAULT_INJECTED", stamp) /\ seen => fault[i] \in met

Truthful(x) ==
    /\ CleanAfterReset(x.run, x.stamp, x.met)
    /\ FaultyWhileOn(x.run, x.stamp, x.met, x.flag = "on" /\ x.service = fault[x.run])

EventsName == \A k \in DOMAIN events : events[k].fault = fault[events[k].run]

\* The reset of the present run is final if all injections are known to be over.
ResetCleans ==
    run \in Runs /\ AllInjected(run) /\ request[run]["reset"] = "answered"
        => on[fault[run]] = 0

DraftsTruthful == \A i \in Runs : collector[i] = "status" =>
    /\ CleanAfterReset(i, draft[i].stamp, draft[i].met)
    /\ FaultyWhileOn(i, draft[i].stamp, draft[i].met, on[fault[i]] # 0)

FilesTruthful ==
    /\ \A x \in records : Truthful(x)
    /\ \A i \in Runs : \A x \in batch[i] : Truthful(x)

TruthInv == EventsName /\ ResetCleans /\ DraftsTruthful /\ FilesTruthful

-----------------------------------------------------------------------------
\* What any step may add to the events file.
News ==
    /\ Onward /\ UNCHANGED fault
    /\ \A j : Wrote(j, "FAULT_INJECTED")' =>
          Wrote(j, "FAULT_INJECTED") \/ (j = run /\ main = "injecting")

LEMMA StepIsNews == ASSUME RunInv, [Next]_vars PROVE News
<1>1. Shape /\ events \in Seq(EventRecords)
  BY DEF RunInv, Shape
<1>2. CASE UNCHANGED <<events, fault>> /\ outlived \subseteq outlived'
  BY <1>2, WroteUnchanged DEF News, Onward
<1>3. CASE StartRun
  <2> DEFINE e == [event |-> "EXPERIMENT_START", fault |-> fault[run'], run |-> run']
  <2>1. e \in EventRecords /\ events' = Append(events, e) /\ UNCHANGED <<fault, outlived>>
    BY <1>1, <1>3 DEF Shape, StartRun, EventRecords, EventKinds
  <2>2. \A i, k : Wrote(i, k)' <=> Wrote(i, k) \/ ("EXPERIMENT_START" = k /\ run' = i)
    BY <1>1, <2>1, WroteAppend
  <2> QED BY <2>1, <2>2 DEF News, Onward
<1>4. CASE InjectReturns \/ ResetReturns \/ EndRun
  <2>1. run \in Runs /\ UNCHANGED fault /\ outlived \subseteq outlived'
    BY <1>1, <1>4 DEF Shape, InjectReturns, ResetReturns, EndRun
  <2>2. PICK kind \in EventKinds :
            Event(kind) /\ (kind = "FAULT_INJECTED" => main = "injecting")
    BY <1>4 DEF InjectReturns, ResetReturns, EndRun, EventKinds
  <2>3. \A i, k : Wrote(i, k)' <=> Wrote(i, k) \/ (kind = k /\ run = i)
    BY <1>1, <2>1, <2>2, WroteEvent
  <2>4. \E e \in EventRecords : events' = Append(events, e)
    BY <1>1, <2>1, <2>2 DEF Shape, EventRecords, Event
  <2> QED BY <2>1, <2>2, <2>3, <2>4 DEF News, Onward
<1>5. CASE SendInject \/ SendReset \/ ForceNewToken \/ Kill \/ UNCHANGED vars
  BY <1>2, <1>5 DEF SendInject, SendReset, ForceNewToken, Kill, vars, mainVars
<1>6. ASSUME NEW i \in Runs, Collect(i) PROVE News
  <2>1. UNCHANGED outlived
    BY <1>6 DEF Collect, StampRecord, FetchMetrics, FetchStatus, WriteCycle, StampProbe,
       Authenticate, TokenLapses, PayAndRecord, mainVars
  <2> QED BY <1>2, <1>6, <2>1, CollectIsQuiet
<1>7. ASSUME NEW i \in Runs, RefuseInject(i) \/ \E c \in Calls : Execute(i, c) PROVE News
  BY <1>2, <1>7 DEF RefuseInject, Execute, mainVars
<1> QED BY <1>3, <1>4, <1>5, <1>6, <1>7 DEF Next, Proceed

\* What is asked of a line once it is stamped does not come about later: earlier
\* runs write nothing any more, and the run itself writes its injection before its
\* reset.
LEMMA PremisesStand ==
    ASSUME RunInv, InOrder, News, NEW i, NEW stamp, OwnStamp(i, stamp),
           NEW kind \in {"FAULT_INJECTED", "FAULT_RESET"},
           Quiet(i)', Since(i, kind, stamp)'
    PROVE  Quiet(i) /\ Since(i, kind, stamp)
<1>1. /\ events \in Seq(EventRecords) /\ run \in Nat /\ i \in Runs /\ i \in Nat
      /\ stamp \in Nat /\ stamp <= Len(events)
  BY EventsTyped DEF RunInv, Shape, OwnStamp
<1>2. Since(i, kind, stamp)
  <2>1. /\ DOMAIN events = 1..Len(events) /\ Len(events) \in Nat
        /\ \A k \in DOMAIN events' : k <= Len(events) => k \in DOMAIN events
                                                       /\ events'[k] = events[k]
    BY <1>1 DEF News, Onward
  <2>2. PICK k \in DOMAIN events' : k <= stamp /\ events'[k].event = kind
                                              /\ events'[k].run = i
    BY DEF Since
  <2>3. k \in Nat
    <3>1. events' \in Seq(EventRecords)
      BY <1>1 DEF News, Onward
    <3> QED BY <2>2, <3>1
  <2>4. k <= Len(events)
    BY <1>1, <2>1, <2>2, <2>3
  <2> QED BY <2>1, <2>2, <2>4 DEF Since
<1>3. i <= run
  <2>1. PICK s \in DOMAIN events : events[s].run = i
    BY DEF OwnStamp, OpenedBy
  <2> QED BY <2>1 DEF InOrder
<1>4. Wrote(i, kind)
  BY <1>2 DEF Since, Wrote
<1>5. ASSUME NEW j \in 1..i PROVE Wrote(j, "FAULT_INJECTED")
  <2>1. Wrote(j, "FAULT_INJECTED") \/ (j = run /\ main = "injecting")
    BY DEF Quiet, AllInjected, News
  <2>2. CASE j = run /\ main = "injecting"
    <3>1. i = run
      BY <1>1, <1>3, <2>2
    <3>2. request[i]["reset"] = "none" /\ ~ Wrote(i, "FAULT_RESET")
      BY <1>1, <2>2, <3>1 DEF RunInv, Told
    <3> QED BY <1>4, <2>2, <3>1, <3>2
  <2> QED BY <2>1, <2>2
<1>6. i \notin outlived
  BY DEF Quiet, News, Onward
<1> QED BY <1>2, <1>5, <1>6 DEF Quiet, AllInjected

LEMMA LinesStayTruthful ==
    ASSUME RunInv, InOrder, News
    PROVE  /\ \A i, stamp, met : OwnStamp(i, stamp) /\ CleanAfterReset(i, stamp, met)
                  => CleanAfterReset(i, stamp, met)'
           /\ \A i, stamp, met, seen :
                  OwnStamp(i, stamp) /\ FaultyWhileOn(i, stamp, met, seen)
                      => FaultyWhileOn(i, stamp, met, seen)'
           /\ \A x : OwnStamp(x.run, x.stamp) /\ Truthful(x) => Truthful(x)'
<1>1. UNCHANGED fault
  BY DEF News
<1>2. ASSUME NEW i, NEW stamp, NEW met, OwnStamp(i, stamp), CleanAfterReset(i, stamp, met)
      PROVE  CleanAfterReset(i, stamp, met)'
  BY <1>1, <1>2, PremisesStand DEF CleanAfterReset
<1>3. ASSUME NEW i, NEW stamp, NEW met, NEW seen, OwnStamp(i, stamp),
             FaultyWhileOn(i, stamp, met, seen)
      PROVE  FaultyWhileOn(i, stamp, met, seen)'
  BY <1>1, <1>3, PremisesStand DEF FaultyWhileOn
<1>4. ASSUME NEW x, OwnStamp(x.run, x.stamp), Truthful(x) PROVE Truthful(x)'
  <2>1. CleanAfterReset(x.run, x.stamp, x.met)'
    BY <1>2, <1>4 DEF Truthful
  <2>2. FaultyWhileOn(x.run, x.stamp, x.met, x.flag = "on" /\ x.service = fault[x.run])'
    BY <1>1, <1>4, PremisesStand DEF Truthful, FaultyWhileOn
  <2> QED BY <2>1, <2>2 DEF Truthful
<1> QED BY <1>2, <1>3, <1>4

-----------------------------------------------------------------------------
LEMMA NoLateInjection ==
    ASSUME RunInv, AllInjected(run), NEW j \in Runs
    PROVE  request[j]["inject"] # "sent"
<1>1. Told(j) /\ run \in Nat /\ j \in Nat /\ (j > run \/ j \in 1..run)
  BY DEF RunInv, Shape
<1>2. CASE j > run
  BY <1>1, <1>2 DEF Told
<1>3. CASE j \in 1..run
  BY <1>1, <1>3 DEF Told, AllInjected
<1> QED BY <1>1, <1>2, <1>3

LEMMA NamesKeep == ASSUME RunInv, EventsName, [Next]_vars PROVE EventsName'
<1>1. Shape /\ events \in Seq(EventRecords) /\ UNCHANGED fault
  BY StepIsNews DEF RunInv, Shape, News
<1>2. ASSUME UNCHANGED events PROVE EventsName'
  BY <1>1, <1>2 DEF EventsName
<1>3. ASSUME NEW r, NEW kind,
             events' = Append(events, [event |-> kind, fault |-> fault[r], run |-> r])
      PROVE  EventsName'
  BY <1>1, <1>3 DEF EventsName
<1>4. CASE StartRun
  <2>1. events' = Append(events, [event |-> "EXPERIMENT_START", fault |-> fault[run'],
                                  run |-> run'])
    BY <1>4 DEF StartRun
  <2>2. PICK r : r = run'
    OBVIOUS
  <2> QED BY <1>3, <2>1, <2>2
<1>5. CASE InjectReturns \/ ResetReturns \/ EndRun
  <2>1. PICK kind : Event(kind)
    BY <1>5 DEF InjectReturns, ResetReturns, EndRun
  <2>2. PICK r : r = run
    OBVIOUS
  <2> QED BY <1>3, <2>1, <2>2 DEF Event
<1>6. CASE SendInject \/ SendReset \/ ForceNewToken \/ Kill \/ UNCHANGED vars
  BY <1>2, <1>6 DEF SendInject, SendReset, ForceNewToken, Kill, vars, mainVars
<1>7. ASSUME NEW i \in Runs, Collect(i) PROVE EventsName'
  BY <1>2, <1>7, CollectIsQuiet
<1>8. ASSUME NEW i \in Runs, RefuseInject(i) \/ \E c \in Calls : Execute(i, c)
      PROVE  EventsName'
  BY <1>2, <1>8 DEF RefuseInject, Execute, mainVars
<1> QED BY <1>4, <1>5, <1>6, <1>7, <1>8 DEF Next, Proceed

LEMMA ResetCleansKeeps == ASSUME RunInv, ResetCleans, [Next]_vars PROVE ResetCleans'
<1>1. Shape /\ News /\ \A i \in Runs : Told(i)
  BY StepIsNews DEF RunInv
<1>2. ASSUME UNCHANGED <<run, on>>,
             run \in Runs /\ request'[run]["reset"] = "answered"
                 => request[run]["reset"] = "answered"
      PROVE  ResetCleans'
  <2> SUFFICES ASSUME run \in Runs, AllInjected(run)', request'[run]["reset"] = "answered"
               PROVE  on[fault[run]] = 0
    BY <1>1, <1>2 DEF ResetCleans, News, AllInjected
  <2>1. request[run]["reset"] = "answered"
    BY <1>2
  <2>2. main # "injecting"
    BY <1>1, <2>1 DEF Told
  <2>3. AllInjected(run)
    BY <1>1, <1>2, <2>2 DEF News, AllInjected
  <2> QED BY <2>1, <2>3 DEF ResetCleans
<1>3. CASE StartRun
  <2>1. run' \in Runs /\ run' > run /\ UNCHANGED request
    BY <1>1, <1>3 DEF Shape, StartRun, serviceVars
  <2>2. PICK r \in Runs : r = run'
    BY <2>1
  <2>3. request[r]["reset"] = "none"
    BY <1>1, <2>1, <2>2 DEF Told
  <2> QED BY <2>1, <2>2, <2>3 DEF ResetCleans
<1>4. CASE InjectReturns \/ ResetReturns \/ EndRun \/ ForceNewToken \/ Kill \/ UNCHANGED vars
  BY <1>2, <1>4 DEF InjectReturns, ResetReturns, EndRun, ForceNewToken, Kill, vars, mainVars,
     serviceVars
<1>5. CASE SendInject \/ SendReset
  <2>1. UNCHANGED <<run, on>>
    BY <1>5 DEF SendInject, SendReset
  <2>2. PICK c \in Calls : request' = [request EXCEPT ![run][c] = "sent"]
    BY <1>5 DEF SendInject, SendReset, Ask, Calls
  <2>3. request \in [Runs -> [Calls -> {"none", "sent", "answered", "refused"}]]
    BY <1>1 DEF Shape
  <2>4. run \in Runs /\ request'[run]["reset"] = "answered"
           => request[run]["reset"] = "answered"
    BY <2>2, <2>3 DEF Calls
  <2> QED BY <1>2, <2>1, <2>4
<1>6. ASSUME NEW i \in Runs, Collect(i) PROVE ResetCleans'
  BY <1>2, <1>6, CollectIsQuiet
<1>7. ASSUME NEW i \in Runs, RefuseInject(i) PROVE ResetCleans'
  BY <1>1, <1>2, <1>7 DEF Shape, RefuseInject, Calls, mainVars
<1>8. ASSUME NEW i \in Runs, NEW c \in Calls, Execute(i, c) PROVE ResetCleans'
  <2>1. /\ UNCHANGED <<run, main, fault, events>> /\ request[i][c] = "sent"
        /\ request' = [request EXCEPT ![i][c] = "answered"]
        /\ on' = [on EXCEPT ![fault[i]] = IF c = "inject" THEN i ELSE 0]
    BY <1>8 DEF Execute, mainVars
  <2> SUFFICES ASSUME run \in Runs, AllInjected(run), request'[run]["reset"] = "answered"
               PROVE  on'[fault[run]] = 0
    BY <2>1 DEF ResetCleans, AllInjected, Wrote
  <2>2. c = "reset"
    BY <1>8, <2>1, NoLateInjection DEF Calls
  <2>3. fault[i] \in Services /\ fault[run] \in Services /\ on \in [Services -> 0..MaxRuns]
    BY <1>1 DEF Shape
  <2>4. CASE i = run
    BY <2>1, <2>2, <2>3, <2>4
  <2>5. CASE i # run
    <3>1. request[run]["reset"] = "answered"
      BY <1>1, <2>1, <2>5 DEF Shape
    <3>2. on[fault[run]] = 0
      BY <3>1 DEF ResetCleans
    <3> QED BY <2>1, <2>2, <2>3, <3>2
  <2> QED BY <2>4, <2>5
<1> QED BY <1>3, <1>4, <1>5, <1>6, <1>7, <1>8 DEF Next, Proceed

-----------------------------------------------------------------------------
\* What leaves the services, the drafts and the collectors that are between metrics
\* and status as they are.
LEMMA DraftsStand ==
    ASSUME RunInv, WindowInv, DraftsTruthful, News, UNCHANGED on,
           NEW i \in Runs, collector'[i] = "status",
           collector[i] = "status", draft'[i] = draft[i]
    PROVE  /\ CleanAfterReset(i, draft[i].stamp, draft[i].met)'
           /\ FaultyWhileOn(i, draft[i].stamp, draft[i].met, on[fault[i]] # 0)'
<1>1. PICK d : d = draft[i]
  OBVIOUS
<1>2. OwnStamp(i, d.stamp) /\ InOrder /\ UNCHANGED fault
  BY <1>1 DEF WindowInv, Collecting, News
<1>3. CleanAfterReset(i, d.stamp, d.met)
  BY <1>1 DEF DraftsTruthful
<1>4. FaultyWhileOn(i, d.stamp, d.met, on[fault[i]] # 0)
  BY <1>1 DEF DraftsTruthful
<1>5. CleanAfterReset(i, d.stamp, d.met)'
  BY <1>2, <1>3, LinesStayTruthful
<1>6. FaultyWhileOn(i, d.stamp, d.met, on[fault[i]] # 0)'
  BY <1>2, <1>4, PremisesStand DEF FaultyWhileOn
<1> QED BY <1>1, <1>5, <1>6 DEF CleanAfterReset, FaultyWhileOn

\* The metrics show what is on; after a reset that is over, that is not the fault.
LEMMA MetricsAreTruthful ==
    ASSUME RunInv, WindowInv, TruthInv, NEW i \in Runs, FetchMetrics(i)
    PROVE  /\ CleanAfterReset(i, draft[i].stamp, draft[i].met)'
           /\ FaultyWhileOn(i, draft[i].stamp, draft[i].met, on[fault[i]] # 0)'
<1>1. /\ UNCHANGED <<run, fault, events, outlived, on>>
      /\ collector[i] = "metrics" /\ draft' = [draft EXCEPT ![i].met = {s \in Services : on[s] # 0}]
      /\ draft \in [Runs -> Drafts] /\ fault[i] \in Services
  BY DEF FetchMetrics, mainVars, serviceVars, WindowInv, Collecting, RunInv, Shape
<1>2. draft'[i].met = {s \in Services : on[s] # 0} /\ draft'[i].stamp = draft[i].stamp
  BY <1>1 DEF Drafts
<1>3. ASSUME Quiet(i)', Since(i, "FAULT_RESET", draft[i].stamp)'
      PROVE  on[fault[i]] = 0
  <2>1. i = run /\ run \in Runs
    BY <1>1, <1>3 DEF WindowInv, Collecting, Quiet
  <2>2. AllInjected(run)
    BY <1>1, <1>3, <2>1 DEF Quiet, AllInjected, Wrote
  <2>3. Wrote(run, "FAULT_RESET")
    BY <1>1, <1>3, <2>1 DEF Since, Wrote
  <2>4. request[run]["reset"] = "answered"
    BY <2>1, <2>3 DEF RunInv, Told
  <2> QED BY <2>1, <2>2, <2>4 DEF TruthInv, ResetCleans
<1>4. CleanAfterReset(i, draft[i].stamp, draft[i].met)'
  BY <1>1, <1>2, <1>3 DEF CleanAfterReset
<1>5. FaultyWhileOn(i, draft[i].stamp, draft[i].met, on[fault[i]] # 0)'
  BY <1>1, <1>2 DEF FaultyWhileOn
<1> QED BY <1>4, <1>5

\* A call that is executed between metrics and status switches no fault on in a
\* quiet run.
LEMMA ServiceLeavesDrafts ==
    ASSUME RunInv, WindowInv, DraftsTruthful, NEW j \in Runs, NEW c \in Calls, Execute(j, c),
           NEW i \in Runs, collector[i] = "status"
    PROVE  /\ CleanAfterReset(i, draft[i].stamp, draft[i].met)'
           /\ FaultyWhileOn(i, draft[i].stamp, draft[i].met, on[fault[i]] # 0)'
<1>1. /\ UNCHANGED <<run, fault, events, outlived, draft>> /\ request[j][c] = "sent"
      /\ on' = [on EXCEPT ![fault[j]] = IF c = "inject" THEN j ELSE 0]
      /\ on \in [Services -> 0..MaxRuns] /\ fault[j] \in Services /\ fault[i] \in Services
  BY DEF Execute, mainVars, collectorVars, RunInv, Shape
<1>2. Quiet(i)' <=> Quiet(i)
  BY <1>1 DEF Quiet, AllInjected, Wrote
<1>3. \A kind, stamp : Since(i, kind, stamp)' <=> Since(i, kind, stamp)
  BY <1>1 DEF Since
<1>4. CleanAfterReset(i, draft[i].stamp, draft[i].met)'
  BY <1>1, <1>2, <1>3 DEF CleanAfterReset, DraftsTruthful
<1>5. ASSUME Quiet(i), on'[fault[i]] # 0 PROVE on[fault[i]] # 0
  <2>1. i = run
    BY <1>5 DEF WindowInv, Collecting, Quiet
  <2>2. c = "reset"
    BY <1>1, <1>5, <2>1, NoLateInjection DEF Quiet, Calls
  <2> QED BY <1>1, <1>5, <2>2
<1>6. FaultyWhileOn(i, draft[i].stamp, draft[i].met, on[fault[i]] # 0)'
  BY <1>1, <1>2, <1>3, <1>5 DEF FaultyWhileOn, DraftsTruthful
<1> QED BY <1>4, <1>6

LEMMA DraftsKeep == ASSUME RunInv, WindowInv, TruthInv, [Next]_vars PROVE DraftsTruthful'
<1> SUFFICES ASSUME NEW i \in Runs, collector'[i] = "status"
             PROVE  /\ CleanAfterReset(i, draft[i].stamp, draft[i].met)'
                    /\ FaultyWhileOn(i, draft[i].stamp, draft[i].met, on[fault[i]] # 0)'
  BY DEF DraftsTruthful
<1>1. News /\ DraftsTruthful
  BY StepIsNews DEF TruthInv
<1>2. /\ DOMAIN collector = Runs /\ DOMAIN draft = Runs
      /\ collector \in [Runs -> {"off", "poll", "metrics", "status", "write",
                                 "probe", "paying", "done"}]
  BY DEF WindowInv, Collecting
<1>3. CASE StartRun \/ SendInject \/ InjectReturns \/ SendReset \/ ResetReturns
           \/ ForceNewToken \/ EndRun \/ UNCHANGED vars
  <2>1. UNCHANGED <<on, draft>>
    BY <1>3 DEF StartRun, SendInject, InjectReturns, SendReset, ResetReturns, ForceNewToken,
                EndRun, vars, serviceVars, collectorVars
  <2>2. collector[i] = "status"
    BY <1>2, <1>3 DEF StartRun, SendInject, InjectReturns, SendReset, ResetReturns,
                      ForceNewToken, EndRun, vars, collectorVars
  <2> QED BY <1>1, <2>1, <2>2, DraftsStand
<1>4. CASE Kill
  BY <1>2, <1>4 DEF Kill
<1>5. ASSUME NEW j \in Runs, Collect(j), j # i
      PROVE  /\ CleanAfterReset(i, draft[i].stamp, draft[i].met)'
             /\ FaultyWhileOn(i, draft[i].stamp, draft[i].met, on[fault[i]] # 0)'
  <2>1. collector[i] = "status" /\ draft'[i] = draft[i]
    BY <1>2, <1>5 DEF Collect, StampRecord, FetchMetrics, FetchStatus, WriteCycle, StampProbe,
       Authenticate, TokenLapses, PayAndRecord, NextCycle, CollectorGoto, collectorVars
  <2> QED BY <1>1, <1>5, <2>1, CollectIsQuiet, DraftsStand
<1>6. CASE Collect(i)
  <2>1. FetchMetrics(i)
    BY <1>2, <1>6 DEF Collect, StampRecord, FetchStatus, WriteCycle, StampProbe,
       Authenticate, TokenLapses, PayAndRecord, NextCycle, CollectorGoto, collectorVars
  <2> QED BY <2>1, MetricsAreTruthful
<1>7. ASSUME NEW j \in Runs, RefuseInject(j)
      PROVE  /\ CleanAfterReset(i, draft[i].stamp, draft[i].met)'
             /\ FaultyWhileOn(i, draft[i].stamp, draft[i].met, on[fault[i]] # 0)'
  BY <1>1, <1>7, DraftsStand DEF RefuseInject, collectorVars
<1>8. ASSUME NEW j \in Runs, NEW c \in Calls, Execute(j, c)
      PROVE  /\ CleanAfterReset(i, draft[i].stamp, draft[i].met)'
             /\ FaultyWhileOn(i, draft[i].stamp, draft[i].met, on[fault[i]] # 0)'
  <2>1. collector[i] = "status"
    BY <1>8 DEF Execute, collectorVars
  <2> QED BY <1>1, <1>8, <2>1, ServiceLeavesDrafts
<1> QED BY <1>3, <1>4, <1>5, <1>6, <1>7, <1>8 DEF Next, Proceed

-----------------------------------------------------------------------------
\* The line that FetchStatus makes of a draft.
LEMMA RecordIsTruthful ==
    ASSUME DraftsTruthful, NEW i \in Runs, collector[i] = "status", NEW flag,
           flag = Flag(Polled[cursor[i]]) \/ flag = "unknown"
    PROVE  Truthful(Record(i, flag))
<1>1. /\ CleanAfterReset(i, draft[i].stamp, draft[i].met)
      /\ FaultyWhileOn(i, draft[i].stamp, draft[i].met, on[fault[i]] # 0)
  BY DEF DraftsTruthful
<1>2. flag = "on" /\ Polled[cursor[i]] = fault[i] => on[fault[i]] # 0
  BY DEF Flag
<1>3. /\ Record(i, flag).run = i /\ Record(i, flag).stamp = draft[i].stamp
      /\ Record(i, flag).met = draft[i].met /\ Record(i, flag).flag = flag
      /\ Record(i, flag).service = Polled[cursor[i]]
  BY DEF Record
<1> HIDE DEF Record
<1> QED BY <1>1, <1>2, <1>3 DEF Truthful, CleanAfterReset, FaultyWhileOn

LEMMA FilesStayTruthful == ASSUME RunInv, WindowInv, TruthInv, [Next]_vars PROVE FilesTruthful'
<1>1. News /\ InOrder /\ DraftsTruthful /\ FilesTruthful /\ OwnFiles /\ DOMAIN batch = Runs
  BY StepIsNews DEF TruthInv, WindowInv, Collecting
<1>2. \A x : OwnStamp(x.run, x.stamp) /\ Truthful(x) => Truthful(x)'
  BY <1>1, LinesStayTruthful
<1>3. /\ \A x \in records : Truthful(x)'
      /\ \A i \in Runs : \A x \in batch[i] : Truthful(x)'
  BY <1>1, <1>2 DEF FilesTruthful, OwnFiles, OwnLines
<1>4. CASE UNCHANGED <<records, batch>>
  BY <1>3, <1>4 DEF FilesTruthful
<1>5. CASE Kill
  BY <1>3, <1>5 DEF FilesTruthful, Kill
<1>6. ASSUME NEW i \in Runs, FetchStatus(i) PROVE FilesTruthful'
  <2>1. PICK flag : /\ flag = Flag(Polled[cursor[i]]) \/ flag = "unknown"
                    /\ batch' = [batch EXCEPT ![i] = @ \cup {Record(i, flag)}]
    BY <1>6 DEF FetchStatus
  <2>2. PICK x : x = Record(i, flag)
    OBVIOUS
  <2>3. Truthful(x)
    BY <1>1, <1>6, <2>1, <2>2, RecordIsTruthful DEF FetchStatus
  <2>4. OwnStamp(x.run, x.stamp)
    BY <1>6, <2>2 DEF FetchStatus, WindowInv, Collecting, Record
  <2>5. Truthful(x)'
    BY <1>2, <2>3, <2>4
  <2>6. \A j \in Runs : \A y \in batch'[j] : y = x \/ y \in batch[j]
    BY <1>1, <2>1, <2>2
  <2>7. UNCHANGED records
    BY <1>6 DEF FetchStatus
  <2> QED BY <1>3, <2>5, <2>6, <2>7 DEF FilesTruthful
<1>7. ASSUME NEW i \in Runs, WriteCycle(i) PROVE FilesTruthful'
  <2>1. \A x \in records' : x \in records \/ x \in batch[i]
    BY <1>7 DEF WriteCycle, Written
  <2>2. \A j \in Runs : \A x \in batch'[j] : x \in batch[j]
    BY <1>1, <1>7 DEF WriteCycle
  <2> QED BY <1>3, <2>1, <2>2 DEF FilesTruthful
<1>8. ASSUME NEW i \in Runs, Collect(i) PROVE FilesTruthful'
  BY <1>4, <1>6, <1>7, <1>8 DEF Collect, StampRecord, FetchMetrics, StampProbe, Authenticate,
     TokenLapses, PayAndRecord, collectorVars
<1>9. CASE StartRun \/ SendInject \/ InjectReturns \/ SendReset \/ ResetReturns
           \/ ForceNewToken \/ EndRun \/ UNCHANGED vars
  BY <1>4, <1>9 DEF StartRun, SendInject, InjectReturns, SendReset, ResetReturns,
     ForceNewToken, EndRun, vars, collectorVars
<1>10. ASSUME NEW i \in Runs, RefuseInject(i) \/ \E c \in Calls : Execute(i, c)
       PROVE  FilesTruthful'
  BY <1>4, <1>10 DEF RefuseInject, Execute, collectorVars
<1> QED BY <1>5, <1>8, <1>9, <1>10 DEF Next, Proceed

LEMMA TruthInit == Init => TruthInv
<1> SUFFICES ASSUME Init PROVE TruthInv
  OBVIOUS
<1>1. EventsName /\ ResetCleans
  BY DEF Init, EventsName, ResetCleans
<1>2. DraftsTruthful /\ FilesTruthful
  BY DEF Init, DraftsTruthful, FilesTruthful
<1> QED BY <1>1, <1>2 DEF TruthInv

LEMMA TruthStep == RunInv /\ WindowInv /\ TruthInv /\ [Next]_vars => TruthInv'
<1> SUFFICES ASSUME RunInv, WindowInv, TruthInv, [Next]_vars PROVE TruthInv'
  OBVIOUS
<1>1. EventsName' /\ ResetCleans'
  BY NamesKeep, ResetCleansKeeps DEF TruthInv
<1>2. DraftsTruthful' /\ FilesTruthful'
  BY DraftsKeep, FilesStayTruthful
<1> QED BY <1>1, <1>2 DEF TruthInv

LEMMA TruthInvariant == Spec => [](RunInv /\ WindowInv /\ TruthInv)
<1> QED BY RunInvariant, WindowInvariant, TruthInit, TruthStep, PTL DEF Spec

-----------------------------------------------------------------------------
\* An event that LastBetween finds.
LEMMA LastBetweenIs ==
    ASSUME events \in Seq(EventRecords), NEW i \in Nat, NEW j \in DOMAIN events, NEW kinds,
           NEW k, k = LastBetween(events, i, j, kinds), k # NoMark
    PROVE  k \in DOMAIN events /\ k > i /\ k < j /\ events[k].event \in kinds
<1> DEFINE S == {NoMark} \cup {l \in (i + 1)..(j - 1) : events[l].event \in kinds}
<1>1. j \in Nat /\ DOMAIN events = 1..Len(events) /\ Len(events) \in Nat /\ j <= Len(events)
  BY EventsTyped
<1>2. S \in SUBSET (0..Len(events)) /\ S # {}
  BY <1>1 DEF NoMark
<1>3. Max(S) \in S
  <2> HIDE DEF S
  <2> QED BY <1>1, <1>2, LastPosition
<1>4. k = Max(S)
  BY DEF LastBetween
<1> QED BY <1>1, <1>3, <1>4

\* What the marks of an experiment are.
LEMMA MarksAreItsRuns ==
    ASSUME Shape, InOrder, EventsName, NEW e \in Experiments(events)
    PROVE  /\ RunOf(e) \in Runs /\ e.fault = fault[RunOf(e)]
           /\ e.injected \in DOMAIN events /\ events[e.injected].event = "FAULT_INJECTED"
           /\ events[e.injected].run = RunOf(e)
           /\ e.reset \in DOMAIN events /\ events[e.reset].event = "FAULT_RESET"
           /\ events[e.reset].run = RunOf(e)
<1>1. PICK j \in Ends(events) : e = Block(events, j) /\ e.injected # NoMark /\ e.reset # NoMark
  BY DEF Experiments
<1>2. PICK s : s = Opening(events, j)
  OBVIOUS
<1>3. s \in 1..(j - 1) /\ j \in DOMAIN events /\ events[s].run = events[j].run
  BY <1>2, BlockIsOfOneRun
<1>4. /\ events \in Seq(EventRecords) /\ DOMAIN events = 1..Len(events) /\ Len(events) \in Nat
      /\ s \in DOMAIN events /\ s \in Nat
      /\ \A k \in DOMAIN events : events[k] \in EventRecords /\ events[k].run \in Nat
  BY <1>3, EventsTyped DEF Shape
<1>5. /\ e.start = s /\ e.fault = events[s].fault
      /\ e.injected = LastBetween(events, s, j, {"FAULT_INJECTED"})
      /\ e.reset = LastBetween(events, s, j, {"FAULT_RESET"})
      /\ e.injected # NoMark /\ e.reset # NoMark
  BY <1>1, <1>2 DEF Block
<1>6. RunOf(e) = events[s].run /\ RunOf(e) \in Runs /\ e.fault = fault[RunOf(e)]
  BY <1>4, <1>5 DEF RunOf, EventsName, EventRecords
<1>7. \A k \in DOMAIN events : s <= k /\ k <= j => events[k].run = events[s].run
  BY <1>3, <1>4 DEF InOrder
<1>8. ASSUME NEW kinds, NEW k, k = LastBetween(events, s, j, kinds), k # NoMark
      PROVE  k \in DOMAIN events /\ events[k].event \in kinds /\ events[k].run = RunOf(e)
  <2>1. k \in DOMAIN events /\ k > s /\ k < j /\ events[k].event \in kinds
    <3>1. events \in Seq(EventRecords) /\ s \in Nat /\ j \in DOMAIN events
      BY <1>3, <1>4
    <3> QED BY <1>8, <3>1, LastBetweenIs, Zenon
  <2>2. k \in Nat /\ j \in Nat /\ s <= k /\ k <= j
    BY <1>3, <1>4, <2>1
  <2> QED BY <1>6, <1>7, <2>1, <2>2
<1>9. /\ e.injected \in DOMAIN events /\ events[e.injected].event = "FAULT_INJECTED"
      /\ events[e.injected].run = RunOf(e)
  BY <1>5, <1>8
<1>10. /\ e.reset \in DOMAIN events /\ events[e.reset].event = "FAULT_RESET"
       /\ events[e.reset].run = RunOf(e)
  BY <1>5, <1>8
<1> QED BY <1>6, <1>9, <1>10

\* A record that the properties speak of is one of a quiet run.
LEMMA UndisturbedIsQuiet ==
    ASSUME RunInv, WindowInv, TruthInv, NEW r \in records, NEW e \in Experiments(events),
           Undisturbed(r, e)
    PROVE  /\ r.run = RunOf(e) /\ Quiet(r.run) /\ Truthful(r) /\ r.stamp \in Nat
           /\ e.fault = fault[r.run] /\ e.injected \in Nat /\ e.reset \in Nat
           /\ r.stamp >= e.injected => Since(r.run, "FAULT_INJECTED", r.stamp)
           /\ r.stamp >= e.reset => Since(r.run, "FAULT_RESET", r.stamp)
<1>1. Shape /\ InOrder /\ EventsName
  BY DEF RunInv, WindowInv, TruthInv
<1>2. r.stamp \in Nat /\ OwnStamp(r.run, r.stamp) /\ Truthful(r)
  <2>1. OwnStamp(r.run, r.stamp)
    BY DEF WindowInv, OwnFiles, OwnLines
  <2>2. Len(events) \in Nat
    BY <1>1 DEF Shape
  <2> QED BY <2>1, <2>2 DEF OwnStamp, TruthInv, FilesTruthful
<1>3. InWindow(r.stamp, e) /\ r.run \notin outlived
  BY DEF Undisturbed
<1>4. r.run = RunOf(e)
  BY <1>1, <1>2, <1>3, WindowHoldsOwn
<1>5. /\ RunOf(e) \in Runs /\ e.fault = fault[RunOf(e)]
      /\ e.injected \in DOMAIN events /\ events[e.injected].event = "FAULT_INJECTED"
      /\ events[e.injected].run = RunOf(e)
      /\ e.reset \in DOMAIN events /\ events[e.reset].event = "FAULT_RESET"
      /\ events[e.reset].run = RunOf(e)
  BY <1>1, MarksAreItsRuns
<1>6. e.injected \in Nat /\ e.reset \in Nat
  <2>1. DOMAIN events \subseteq Nat
    BY <1>1, EventsTyped DEF Shape
  <2> QED BY <1>5, <2>1
<1>7. AllInjected(r.run)
  <2>1. \A j \in 1..(RunOf(e) - 1) : Wrote(j, "FAULT_INJECTED")
    BY DEF Undisturbed
  <2>2. Wrote(RunOf(e), "FAULT_INJECTED")
    BY <1>5 DEF Wrote
  <2>3. RunOf(e) \in Nat
    BY <1>5
  <2>4. \A j \in 1..RunOf(e) : j = RunOf(e) \/ j \in 1..(RunOf(e) - 1)
    BY <2>3
  <2> QED BY <1>4, <2>1, <2>2, <2>4 DEF AllInjected
<1>8. /\ r.stamp >= e.injected => Since(r.run, "FAULT_INJECTED", r.stamp)
      /\ r.stamp >= e.reset => Since(r.run, "FAULT_RESET", r.stamp)
  BY <1>2, <1>4, <1>5, <1>6 DEF Since
<1> QED BY <1>2, <1>3, <1>4, <1>5, <1>6, <1>7, <1>8 DEF Quiet

-----------------------------------------------------------------------------
\* Nothing is labelled RECOVERY (reconstruct.py:86) that was measured under the
\* fault, unless an earlier injection that failed may still be on its way or the
\* record is of a collector that outlived its run.
THEOREM RecoveryIsFaultFree == Spec => []RecoveryIsClean
<1>1. ASSUME RunInv, WindowInv, TruthInv PROVE RecoveryIsClean
  <2> SUFFICES ASSUME NEW r \in records, NEW e \in Experiments(events), Undisturbed(r, e),
                      PhaseOf(r, e) = "RECOVERY"
               PROVE  e.fault \notin r.met
    BY DEF RecoveryIsClean
  <2>1. r.stamp >= e.reset
    BY <1>1, UndisturbedIsQuiet DEF PhaseOf, AssignPhase
  <2> QED BY <1>1, <2>1, UndisturbedIsQuiet DEF Truthful, CleanAfterReset
<1> QED BY <1>1, TruthInvariant, PTL

\* A record that confirms the fault of its own service and is averaged as
\* FAULT_ACTIVE (reconstruct.py:93) was measured under the fault, although metrics,
\* flag and timestamp are three moments (collector.py:180-205).
THEOREM ConfirmedIsFaulty == Spec => []ActiveIsFaulty
<1>1. ASSUME RunInv, WindowInv, TruthInv PROVE ActiveIsFaulty
  <2> SUFFICES ASSUME NEW r \in records, NEW e \in Experiments(events), r.flag = "on",
                      Undisturbed(r, e), PhaseOf(r, e) = "FAULT_ACTIVE", r.service = e.fault
               PROVE  e.fault \in r.met
    BY DEF ActiveIsFaulty
  <2>1. r.stamp >= e.injected
    BY <1>1, UndisturbedIsQuiet DEF PhaseOf, AssignPhase
  <2> QED BY <1>1, <2>1, UndisturbedIsQuiet DEF Truthful, FaultyWhileOn
<1> QED BY <1>1, TruthInvariant, PTL

\* What another service shows under the fault after FAULT_INJECTED is labelled
\* FAULT_ACTIVE (reconstruct.py:113-120): its own flag, which is off, does not
\* take it out, and no reset overtakes it.
THEOREM NoSymptomIsLost == Spec => []SymptomsCount
<1>1. ASSUME RunInv, WindowInv, TruthInv PROVE SymptomsCount
  <2> SUFFICES ASSUME NEW r \in records, NEW e \in Experiments(events), Undisturbed(r, e),
                      r.service # e.fault, e.fault \in r.met, r.stamp >= e.injected
               PROVE  PhaseOf(r, e) = "FAULT_ACTIVE"
    BY DEF SymptomsCount
  <2>1. ~ (r.stamp >= e.reset)
    BY <1>1, UndisturbedIsQuiet DEF Truthful, CleanAfterReset
  <2> QED BY <1>1, <2>1, UndisturbedIsQuiet DEF PhaseOf, AssignPhase
<1> QED BY <1>1, TruthInvariant, PTL

-----------------------------------------------------------------------------
\* The events of a run.

\* The steps of run_experiment that an event tells of, and those a run has done.
Step == [kind \in EventKinds |->
    CASE kind = "EXPERIMENT_START" -> 1
      [] kind \in {"FAULT_INJECTED", "FAULT_INJECT_FAILED"} -> 2
      [] kind \in {"FAULT_RESET", "FAULT_RESET_FAILED"} -> 3
      [] kind = "EXPERIMENT_END" -> 4]

Done == [m \in {"baseline", "injecting", "fault", "resetting", "forceToken",
                "forceExpiry", "recovery", "ended", "killed"} |->
    CASE m \in {"baseline", "injecting"} -> 1
      [] m \in {"fault", "resetting"} -> 2
      [] m \in {"forceToken", "forceExpiry", "recovery"} -> 3
      [] m \in {"ended", "killed"} -> 4]

\* A run writes the event of each step at most once, and in their order; the outcome of
\* a call is one event of two.
EachStepOnce ==
    \A k, l \in DOMAIN events :
        k < l /\ events[k].run = events[l].run => Step[events[k].event] < Step[events[l].event]

StepsSoFar == \A k \in DOMAIN events : events[k].run = run => Step[events[k].event] <= Done[main]

\* Of the injections only the db lock's is ever refused.
OnlyLockIsRefused == \A i \in Runs : request[i]["inject"] = "refused" => fault[i] = DbLock

LifeInv == EachStepOnce /\ StepsSoFar /\ OnlyLockIsRefused

LEMMA StepsAreNat == Step \in [EventKinds -> 1..4]
                     /\ DOMAIN Done = {"baseline", "injecting", "fault", "resetting",
                                       "forceToken", "forceExpiry", "recovery", "ended",
                                       "killed"}
                     /\ \A m \in DOMAIN Done : Done[m] \in 1..4
  BY DEF Step, Done, EventKinds

\* The run writes the event of its next step.
LEMMA NextStep ==
    ASSUME Shape, EachStepOnce, StepsSoFar, InOrder,
           NEW e \in EventRecords, events' = Append(events, e), e.run = run',
           run' = run \/ run' = run + 1, Step[e.event] = Done[main'],
           run' = run => Done[main] < Done[main'], main \in DOMAIN Done, main' \in DOMAIN Done
    PROVE  (EachStepOnce /\ StepsSoFar)'
<1>1. /\ events \in Seq(EventRecords) /\ Len(events) \in Nat /\ run \in Nat
      /\ DOMAIN events = 1..Len(events) /\ DOMAIN events' = 1..(Len(events) + 1)
      /\ events'[Len(events) + 1] = e /\ \A k \in DOMAIN events : events'[k] = events[k]
  BY DEF Shape
<1>2. \A k \in DOMAIN events : /\ events[k] \in EventRecords /\ events[k].run \in Nat
                               /\ Step[events[k].event] \in 1..4
  BY <1>1, EventsTyped, StepsAreNat DEF EventRecords
<1>3. Done[main] \in 1..4 /\ Done[main'] \in 1..4
  BY StepsAreNat
<1>4. ASSUME NEW k \in DOMAIN events, events[k].run = run'
      PROVE  Step[events[k].event] < Step[e.event]
  <2>1. events[k].run <= run
    BY DEF InOrder
  <2>2. events[k].run = run /\ run' = run
    BY <1>1, <1>2, <1>4, <2>1
  <2>3. Step[events[k].event] <= Done[main]
    BY <2>2 DEF StepsSoFar
  <2>4. Done[main] < Done[main'] /\ Step[events[k].event] \in 1..4
    BY <1>2, <2>2
  <2>5. \A x, y, z \in 1..4 : x <= y /\ y < z => x < z
    OBVIOUS
  <2>6. Step[events[k].event] < Done[main']
    BY <1>3, <2>3, <2>4, <2>5
  <2> QED BY <2>6
<1>5. EachStepOnce'
  <2> SUFFICES ASSUME NEW k \in DOMAIN events', NEW l \in DOMAIN events', k < l,
                      events'[k].run = events'[l].run
               PROVE  Step[events'[k].event] < Step[events'[l].event]
    BY DEF EachStepOnce
  <2>1. k \in DOMAIN events /\ events'[k] = events[k]
    BY <1>1
  <2>2. CASE l \in DOMAIN events
    BY <1>1, <2>1, <2>2 DEF EachStepOnce
  <2>3. CASE l = Len(events) + 1
    BY <1>1, <1>4, <2>1, <2>3
  <2> QED BY <1>1, <2>2, <2>3
<1>6. StepsSoFar'
  <2> SUFFICES ASSUME NEW k \in DOMAIN events', events'[k].run = run'
               PROVE  Step[events'[k].event] <= Done[main']
    BY DEF StepsSoFar
  <2>1. CASE k \in DOMAIN events
    <3>1. events'[k] = events[k] /\ Step[events[k].event] \in 1..4
      BY <1>1, <1>2, <2>1
    <3>2. Step[events[k].event] < Done[main']
      BY <1>4, <2>1, <3>1
    <3>3. \A x, y \in 1..4 : x < y => x <= y
      OBVIOUS
    <3> QED BY <1>3, <3>1, <3>2, <3>3
  <2>2. CASE k = Len(events) + 1
    BY <1>1, <1>3, <2>2
  <2> QED BY <1>1, <2>1, <2>2
<1> QED BY <1>5, <1>6

\* The run goes on without an event.
LEMMA SilentStep ==
    ASSUME Shape, EachStepOnce, StepsSoFar, UNCHANGED <<events, run>>,
           main \in DOMAIN Done, main' \in DOMAIN Done, Done[main] <= Done[main']
    PROVE  (EachStepOnce /\ StepsSoFar)'
<1>1. EachStepOnce'
  BY DEF EachStepOnce
<1>2. ASSUME NEW k \in DOMAIN events, events[k].run = run
      PROVE  Step[events[k].event] <= Done[main']
  <2>1. events[k].event \in EventKinds
    BY EventsTyped DEF Shape, EventRecords
  <2>2. Step[events[k].event] \in Nat /\ Done[main] \in Nat /\ Done[main'] \in Nat
    BY <2>1, StepsAreNat
  <2> QED BY <1>2, <2>2 DEF StepsSoFar
<1> QED BY <1>1, <1>2 DEF StepsSoFar

LEMMA LifeStep == RunInv /\ WindowInv /\ LifeInv /\ [Next]_vars => LifeInv'
<1> SUFFICES ASSUME RunInv, WindowInv, LifeInv, [Next]_vars PROVE LifeInv'
  OBVIOUS
<1>0. /\ Shape /\ InOrder /\ EachStepOnce /\ StepsSoFar /\ OnlyLockIsRefused
      /\ main \in DOMAIN Done /\ run \in Nat /\ fault \in [Runs -> Faults]
      /\ request \in [Runs -> [Calls -> {"none", "sent", "answered", "refused"}]]
  BY StepsAreNat DEF RunInv, WindowInv, LifeInv, Shape
<1>1. CASE StartRun
  <2> DEFINE e == [event |-> "EXPERIMENT_START", fault |-> fault[run'], run |-> run']
  <2>1. /\ e \in EventRecords /\ events' = Append(events, e) /\ run' = run + 1
        /\ main' = "baseline" /\ UNCHANGED <<fault, request>>
    BY <1>0, <1>1 DEF StartRun, EventRecords, EventKinds, Shape, serviceVars
  <2>2. Step[e.event] = Done[main'] /\ main' \in DOMAIN Done
    BY <2>1 DEF Step, Done, EventKinds
  <2>3. (EachStepOnce /\ StepsSoFar)'
    <3> HIDE DEF e
    <3>1. e.run = run'
      BY DEF e
    <3> QED BY <1>0, <2>1, <2>2, <3>1, NextStep
  <2> QED BY <1>0, <2>1, <2>3 DEF LifeInv, OnlyLockIsRefused
<1>2. CASE InjectReturns \/ ResetReturns \/ EndRun
  <2>1. PICK kind \in EventKinds :
           /\ Event(kind) /\ main' \in DOMAIN Done
           /\ Step[kind] = Done[main'] /\ Done[main] < Done[main']
    <3> USE DEF Step, Done, EventKinds
    <3>1. CASE InjectReturns
      BY <3>1 DEF InjectReturns
    <3>2. CASE ResetReturns
      BY <3>2 DEF ResetReturns
    <3>3. CASE EndRun
      BY <3>3 DEF EndRun
    <3> QED BY <1>2, <3>1, <3>2, <3>3
  <2> DEFINE e == [event |-> kind, fault |-> fault[run], run |-> run]
  <2>2. run' = run /\ run \in Runs /\ UNCHANGED <<fault, request>>
    BY <1>0, <1>2 DEF InjectReturns, ResetReturns, EndRun, Shape, serviceVars
  <2>3. e \in EventRecords /\ events' = Append(events, e) /\ e.run = run' /\ e.event = kind
    BY <1>0, <2>1, <2>2 DEF Event, EventRecords
  <2>4. (EachStepOnce /\ StepsSoFar)'
    <3> HIDE DEF e
    <3> QED BY <1>0, <2>1, <2>2, <2>3, NextStep
  <2> QED BY <1>0, <2>2, <2>4 DEF LifeInv, OnlyLockIsRefused
<1>3. CASE SendInject \/ SendReset \/ ForceNewToken \/ Kill
  <2>1. UNCHANGED <<events, run, fault>>
    BY <1>3 DEF SendInject, SendReset, ForceNewToken, Kill
  <2>2. main' \in DOMAIN Done /\ Done[main] <= Done[main']
    <3>1. CASE SendInject \/ SendReset
      BY <3>1 DEF SendInject, SendReset, Done
    <3>2. CASE ForceNewToken
      BY <3>2 DEF ForceNewToken, Done
    <3>3. CASE Kill
      <4>1. main' = "killed" /\ "killed" \in DOMAIN Done /\ Done["killed"] = 4
        BY <3>3 DEF Kill, Done
      <4> QED BY <1>0, <4>1, StepsAreNat
    <3> QED BY <1>3, <3>1, <3>2, <3>3
  <2>3. OnlyLockIsRefused'
    BY <1>0, <1>3, <2>1 DEF OnlyLockIsRefused, SendInject, SendReset, ForceNewToken, Kill,
       Ask, Calls, serviceVars
  <2> QED BY <1>0, <2>1, <2>2, <2>3, SilentStep DEF LifeInv
<1>4. CASE UNCHANGED <<run, main, fault, events, request>>
  <2>1. Done[main] <= Done[main'] /\ main' \in DOMAIN Done
    BY <1>0, <1>4, StepsAreNat
  <2> QED BY <1>0, <1>4, <2>1, SilentStep DEF LifeInv, OnlyLockIsRefused
<1>5. ASSUME NEW i \in Runs, RefuseInject(i) \/ \E c \in Calls : Execute(i, c)
      PROVE  LifeInv'
  <2>1. UNCHANGED <<run, main, fault, events>>
    BY <1>5 DEF RefuseInject, Execute, mainVars
  <2>2. Done[main] <= Done[main'] /\ main' \in DOMAIN Done
    BY <1>0, <2>1, StepsAreNat
  <2>3. OnlyLockIsRefused'
    <3>1. CASE RefuseInject(i)
      BY <1>0, <2>1, <3>1 DEF OnlyLockIsRefused, RefuseInject, Calls
    <3>2. ASSUME NEW c \in Calls, Execute(i, c) PROVE OnlyLockIsRefused'
      BY <1>0, <2>1, <3>2 DEF OnlyLockIsRefused, Execute, Calls
    <3> QED BY <1>5, <3>1, <3>2
  <2> QED BY <1>0, <2>1, <2>2, <2>3, SilentStep DEF LifeInv
<1>6. CASE \E i \in Runs : Collect(i)
  BY <1>4, <1>6, CollectIsQuiet
<1>7. CASE UNCHANGED vars
  BY <1>4, <1>7 DEF vars, mainVars, serviceVars
<1> QED BY <1>1, <1>2, <1>3, <1>5, <1>6, <1>7 DEF Next, Proceed

LEMMA LifeInvariant == Spec => []LifeInv
<1>1. Init => LifeInv
  BY DEF Init, LifeInv, EachStepOnce, StepsSoFar, OnlyLockIsRefused, Calls
<1> QED BY <1>1, LifeStep, RunInvariant, WindowInvariant, PTL DEF Spec

\* run_experiment writes EXPERIMENT_START, one outcome of the injection, one of the reset
\* and EXPERIMENT_END, in this order and none twice (experiment.py:92-133), however
\* often the process is killed.
THEOREM EventsTellOneStory == Spec => []EachStepOnce
<1>1. LifeInv => EachStepOnce
  BY DEF LifeInv
<1> QED BY <1>1, LifeInvariant, PTL

\* Where the marks of an experiment stand in the file.
LEMMA MarksAreInside ==
    ASSUME Shape, InOrder, NEW e \in Experiments(events)
    PROVE  /\ e.start \in Nat /\ e.injected \in Nat /\ e.reset \in Nat /\ e.end \in DOMAIN events
           /\ e.start < e.injected /\ e.start < e.reset /\ e.injected < e.end /\ e.reset < e.end
           /\ e = Block(events, e.end) /\ events[e.end].event = "EXPERIMENT_END"
           /\ events[e.end].run = RunOf(e)
<1>1. PICK j \in Ends(events) : e = Block(events, j) /\ e.injected # NoMark /\ e.reset # NoMark
  BY DEF Experiments
<1>2. PICK s : s = Opening(events, j)
  OBVIOUS
<1>3. s \in 1..(j - 1) /\ j \in DOMAIN events /\ events[s].run = events[j].run
  BY <1>2, BlockIsOfOneRun
<1>4. /\ events \in Seq(EventRecords) /\ DOMAIN events = 1..Len(events) /\ Len(events) \in Nat
      /\ s \in Nat /\ j \in Nat
  BY <1>3, EventsTyped DEF Shape
<1>5. /\ e.start = s /\ e.end = j
      /\ e.injected = LastBetween(events, s, j, {"FAULT_INJECTED"})
      /\ e.reset = LastBetween(events, s, j, {"FAULT_RESET"})
  BY <1>1, <1>2 DEF Block
<1>6. ASSUME NEW kinds, NEW k, k = LastBetween(events, s, j, kinds), k # NoMark
      PROVE  k \in DOMAIN events /\ k > s /\ k < j
  BY <1>3, <1>4, <1>6, LastBetweenIs, Zenon
<1>7. /\ e.injected \in DOMAIN events /\ e.injected > s /\ e.injected < j
      /\ e.reset \in DOMAIN events /\ e.reset > s /\ e.reset < j
  BY <1>1, <1>5, <1>6
<1>8. events[j].event = "EXPERIMENT_END"
  BY <1>1 DEF Ends
<1> QED BY <1>1, <1>3, <1>4, <1>5, <1>7, <1>8 DEF RunOf

\* An experiment that incidents are built from (incidents.py:183-185) went through its
\* phases in order; its reset was executed, and so was its injection, unless it was
\* that of a db lock and was refused: the one way to violate IncidentHadItsFault.
MarksAreTrue ==
    \A e \in Experiments(events) :
        /\ e.start < e.injected /\ e.injected < e.reset /\ e.reset < e.end
        /\ request[RunOf(e)]["reset"] = "answered"
        /\ \/ request[RunOf(e)]["inject"] = "answered"
           \/ request[RunOf(e)]["inject"] = "refused" /\ e.fault = DbLock

THEOREM MarkedExperimentsHappened == Spec => []MarksAreTrue
<1>1. ASSUME RunInv, WindowInv, TruthInv, LifeInv, NEW e \in Experiments(events)
      PROVE  /\ e.start < e.injected /\ e.injected < e.reset /\ e.reset < e.end
             /\ request[RunOf(e)]["reset"] = "answered"
             /\ \/ request[RunOf(e)]["inject"] = "answered"
                \/ request[RunOf(e)]["inject"] = "refused" /\ e.fault = DbLock
  <2>1. Shape /\ InOrder /\ EventsName /\ EachStepOnce /\ OnlyLockIsRefused
    BY <1>1 DEF RunInv, WindowInv, TruthInv, LifeInv
  <2>2. /\ RunOf(e) \in Runs /\ e.fault = fault[RunOf(e)]
        /\ e.injected \in DOMAIN events /\ events[e.injected].event = "FAULT_INJECTED"
        /\ events[e.injected].run = RunOf(e)
        /\ e.reset \in DOMAIN events /\ events[e.reset].event = "FAULT_RESET"
        /\ events[e.reset].run = RunOf(e)
    BY <2>1, MarksAreItsRuns
  <2>3. /\ e.injected \in Nat /\ e.reset \in Nat
        /\ e.start < e.injected /\ e.reset < e.end
    BY <2>1, MarksAreInside
  <2>4. e.injected < e.reset
    <3>1. Step["FAULT_INJECTED"] = 2 /\ Step["FAULT_RESET"] = 3
      BY DEF Step, EventKinds
    <3>2. ~ (e.reset < e.injected)
      BY <2>1, <2>2, <3>1 DEF EachStepOnce
    <3>3. e.reset # e.injected
      BY <2>2
    <3> QED BY <2>3, <3>2, <3>3
  <2>5. Wrote(RunOf(e), "FAULT_INJECTED") /\ Wrote(RunOf(e), "FAULT_RESET")
    BY <2>2 DEF Wrote
  <2>6. /\ request[RunOf(e)]["inject"] \in {"answered", "refused"}
        /\ request[RunOf(e)]["reset"] = "answered"
    BY <1>1, <2>2, <2>5 DEF RunInv, Told
  <2> QED BY <2>1, <2>2, <2>3, <2>4, <2>6 DEF OnlyLockIsRefused
<1>2. RunInv /\ WindowInv /\ TruthInv /\ LifeInv => MarksAreTrue
  BY <1>1 DEF MarksAreTrue
<1> QED BY <1>2, TruthInvariant, LifeInvariant, PTL

\* However often the process is killed, no run is taken for two experiments.
OneExperimentEach == \A d, e \in Experiments(events) : RunOf(d) = RunOf(e) => d = e

THEOREM RunsAreNotSplit == Spec => []OneExperimentEach
<1>1. ASSUME Shape, InOrder, EachStepOnce,
             NEW d \in Experiments(events), NEW e \in Experiments(events), RunOf(d) = RunOf(e)
      PROVE  d = e
  <2>1. /\ d.end \in DOMAIN events /\ e.end \in DOMAIN events
        /\ d = Block(events, d.end) /\ e = Block(events, e.end)
        /\ events[d.end].event = "EXPERIMENT_END" /\ events[e.end].event = "EXPERIMENT_END"
        /\ events[d.end].run = events[e.end].run
    BY <1>1, MarksAreInside
  <2>2. d.end \in Nat /\ e.end \in Nat /\ Step["EXPERIMENT_END"] = 4
    BY <1>1, <2>1, EventsTyped DEF Shape, Step, EventKinds
  <2>3. ~ (d.end < e.end) /\ ~ (e.end < d.end)
    BY <1>1, <2>1, <2>2 DEF EachStepOnce
  <2>4. d.end = e.end
    BY <2>2, <2>3
  <2> QED BY <2>1, <2>4
<1>2. RunInv /\ WindowInv /\ LifeInv => OneExperimentEach
  BY <1>1 DEF RunInv, WindowInv, LifeInv, OneExperimentEach
<1> QED BY <1>2, RunInvariant, WindowInvariant, LifeInvariant, PTL

-----------------------------------------------------------------------------
\* Windows, in any events file.

LEMMA OpeningIs ==
    ASSUME NEW S, NEW evs \in Seq(S), NEW j \in Ends(evs), NEW s, s = Opening(evs, j)
    PROVE  /\ s \in Nat /\ j \in Nat /\ s < j
           /\ evs[s].event = "EXPERIMENT_START" /\ evs[j].event = "EXPERIMENT_END"
           /\ \A k \in Ends(evs) : k < j => k < s
<1> DEFINE T == {NoMark} \cup {k \in (NoMark + 1)..(j - 1) :
                    evs[k].event \in {"EXPERIMENT_START", "EXPERIMENT_END"}}
<1>1. /\ j \in 1..Len(evs) /\ Len(evs) \in Nat /\ evs[j].event = "EXPERIMENT_END"
      /\ s # NoMark /\ evs[s].event = "EXPERIMENT_START"
  BY DEF Ends
<1>2. s = Max(T) /\ T \in SUBSET (0..Len(evs)) /\ T # {}
  BY <1>1 DEF Opening, LastBetween, NoMark
<1>3. s \in T /\ \A y \in T : s >= y
  <2> HIDE DEF T
  <2> QED BY <1>1, <1>2, LastPosition
<1>4. s \in 1..(j - 1)
  BY <1>1, <1>3 DEF NoMark
<1>5. ASSUME NEW k \in Ends(evs), k < j PROVE k < s
  <2>1. k \in 1..Len(evs) /\ evs[k].event = "EXPERIMENT_END"
    BY DEF Ends
  <2>2. k \in T
    BY <1>1, <1>5, <2>1 DEF NoMark
  <2>3. k # s
    BY <1>1, <2>1
  <2>4. s >= k
    BY <1>3, <2>2
  <2> QED BY <1>4, <2>1, <2>3, <2>4
<1> QED BY <1>1, <1>4, <1>5

\* Whatever is in an events file, also of processes that were killed, no timestamp is in
\* the windows of two experiments: no record is counted twice (reconstruct.py:100-108).
THEOREM WindowsAreDisjoint ==
    ASSUME NEW S, NEW evs \in Seq(S), NEW d \in Experiments(evs), NEW e \in Experiments(evs),
           NEW stamp \in Nat, InWindow(stamp, d), InWindow(stamp, e)
    PROVE  d = e
<1>1. PICK i \in Ends(evs) : d = Block(evs, i)
  BY DEF Experiments
<1>2. PICK j \in Ends(evs) : e = Block(evs, j)
  BY DEF Experiments
<1>3. PICK s, t : s = Opening(evs, i) /\ t = Opening(evs, j)
  OBVIOUS
<1>4. d.start = s /\ d.end = i /\ e.start = t /\ e.end = j
  BY <1>1, <1>2, <1>3 DEF Block
<1>5. /\ s \in Nat /\ i \in Nat /\ t \in Nat /\ j \in Nat
      /\ i < j => i < t
      /\ j < i => j < s
  BY <1>3, OpeningIs
<1>6. stamp >= s /\ stamp < i /\ stamp >= t /\ stamp < j
  BY <1>4 DEF InWindow
<1>7. i = j
  BY <1>5, <1>6
<1> QED BY <1>1, <1>2, <1>7
=============================================================================
