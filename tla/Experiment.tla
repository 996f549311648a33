----------------------------- MODULE Experiment -----------------------------
(***************************************************************************)
(* telemetry/experiment.py: NORMAL -> FAULT -> RECOVERY experiments, one   *)
(* after another as dataset_tools/generate.py runs them.  In each run the  *)
(* main thread starts a collector thread, injects a fault into its service *)
(* and resets it again, and writes an event each time; the collector polls *)
(* every service in turn and then makes a payment probe, over and over.    *)
(* Nothing but time.sleep keeps the two in step, so any interleaving may   *)
(* happen.                                                                 *)
(*                                                                         *)
(* An HTTP call that fails for the client may still be executed by the     *)
(* service, then or later.  Each service carries one fault and is named by *)
(* it here.  The process may be killed; the services keep running.         *)
(***************************************************************************)
EXTENDS PaymentProbe, Phases

CONSTANTS
    Services,     \* the services, each named by the fault it carries
    Faults,       \* faults to experiment with
    Polled,       \* the services in the order of config.SERVICES
    AuthKey,      \* the auth-key-error fault
    DbLock,       \* the db-lock fault, whose injection may be refused
    Probing,      \* Collector.probe_payment; run_experiment has it on
    StatusFails,  \* whether the collector's status calls may fail
    MaxCycles,    \* bound: collection cycles of a run
    MaxRuns,      \* bound: runs
    MaxKills      \* bound: how often the process is killed

ASSUME ExperimentAssumption ==
    /\ Runs = 1..MaxRuns /\ MaxRuns \in Nat \ {0}
    /\ MaxCycles \in Nat \ {0} /\ MaxKills \in Nat
    /\ Faults \subseteq Services /\ AuthKey \in Services
    /\ Polled \in Seq(Services) /\ Polled # <<>> /\ {Probing, StatusFails} \subseteq BOOLEAN

VARIABLES
    run,          \* the run the main thread is in
    main,         \* where it is in run_experiment
    fault,        \* the fault of each run
    request,      \* its two calls, at the service
    on,           \* per service: 0, or the run whose injection is in force
    events,       \* the events file; run is not in the file
    collector,    \* where each run's collector thread is
    cursor,       \* the service it polls
    cycles,       \* cycles it has begun
    draft,        \* the record it is making: timestamp and faults it has met
    batch,        \* records of the cycle that are not written yet
    forced,       \* force_new_token had returned when its probe began
    records,      \* a line of the telemetry file; run and met are not in the file
    probes,       \* a line of the payment_probes file; nor are run, forced, key
    outlived,     \* runs whose collector was still alive when they ended
    kills

mainVars == <<run, main, fault, events, outlived, kills>>
serviceVars == <<request, on>>
collectorVars == <<collector, cursor, cycles, draft, batch, forced, records, probes>>
vars == <<mainVars, serviceVars, collectorVars, probeVars>>

Calls == {"inject", "reset"}
EmptyDraft == [stamp |-> 0, met |-> {}]

Init ==
    /\ run = 0 /\ main = "ended" /\ kills = 0
    /\ fault \in [Runs -> Faults]
    /\ request = [i \in Runs |-> [c \in Calls |-> "none"]]
    /\ on = [s \in Services |-> 0]
    /\ events = <<>>
    /\ collector = [i \in Runs |-> "off"]
    /\ cursor = [i \in Runs |-> 1] /\ cycles = [i \in Runs |-> 1]
    /\ draft = [i \in Runs |-> EmptyDraft] /\ batch = [i \in Runs |-> {}]
    /\ forced = [i \in Runs |-> FALSE]
    /\ records = {} /\ probes = {} /\ outlived = {}
    /\ ProbeInit

\* The key auth-service signs and verifies with.
ActiveKey == on[AuthKey]

-----------------------------------------------------------------------------
\* The main thread.

Event(kind) ==
    events' = Append(events, [event |-> kind, fault |-> fault[run], run |-> run])
Ask(c) == request' = [request EXCEPT ![run][c] = "sent"]

\* EXPERIMENT_START and collector_thread.start().
StartRun ==
    /\ main \in {"ended", "killed"} /\ run < MaxRuns
    /\ run' = run + 1 /\ main' = "baseline"
    /\ events' = Append(events, [event |-> "EXPERIMENT_START",
                                 fault |-> fault[run'], run |-> run'])
    /\ collector' = [collector EXCEPT ![run'] = "poll"]
    /\ UNCHANGED <<fault, outlived, kills, serviceVars, cursor, cycles, draft, batch, forced,
                   records, probes, probeVars>>

SendInject ==
    /\ main = "baseline" /\ main' = "injecting" /\ Ask("inject")
    /\ UNCHANGED <<run, fault, events, outlived, kills, on, collectorVars, probeVars>>

\* Mutant of InjectReturns: the event is written without waiting for the answer.
InjectReturnsUnheard ==
    /\ main = "injecting" /\ main' = "fault"
    /\ Event("FAULT_INJECTED")
    /\ UNCHANGED <<run, fault, outlived, kills, serviceVars, collectorVars, probeVars>>

\* An answer with status 200, or an exception (timeout, connection, status).
InjectReturns ==
    /\ main = "injecting" /\ main' = "fault"
    /\ \/ request[run]["inject"] \in {"answered", "refused"} /\ Event("FAULT_INJECTED")
       \/ Event("FAULT_INJECT_FAILED")
    /\ UNCHANGED <<run, fault, outlived, kills, serviceVars, collectorVars, probeVars>>

SendReset ==
    /\ main = "fault" /\ main' = "resetting" /\ Ask("reset")
    /\ UNCHANGED <<run, fault, events, outlived, kills, on, collectorVars, probeVars>>

\* Mutant of ResetReturns: the event is written without waiting for the answer.
ResetReturnsUnheard ==
    /\ main = "resetting"
    /\ main' = IF fault[run] = AuthKey THEN "forceToken" ELSE "recovery"
    /\ Event("FAULT_RESET")
    /\ UNCHANGED <<run, fault, outlived, kills, serviceVars, collectorVars, probeVars>>

ResetReturns ==
    /\ main = "resetting"
    /\ main' = IF fault[run] = AuthKey THEN "forceToken" ELSE "recovery"
    /\ \/ request[run]["reset"] = "answered" /\ Event("FAULT_RESET")
       \/ Event("FAULT_RESET_FAILED")
    /\ UNCHANGED <<run, fault, outlived, kills, serviceVars, collectorVars, probeVars>>

\* force_new_token, after a reset that may have failed.
ForceNewToken ==
    /\ \/ main = "forceToken" /\ main' = "forceExpiry" /\ DropToken(run)
       \/ main = "forceExpiry" /\ main' = "recovery" /\ DropExpiry(run)
    /\ UNCHANGED <<run, fault, events, outlived, kills, serviceVars, collectorVars>>

\* Mutant of EndRun: nobody joins the collector thread.
EndRunUnjoined ==
    /\ main = "recovery" /\ main' = "ended"
    /\ Event("EXPERIMENT_END")
    /\ UNCHANGED <<run, fault, outlived, kills, serviceVars, collectorVars, probeVars>>

\* Mutant of EndRun: join() without a timeout.
EndRunWhenDone ==
    /\ main = "recovery" /\ main' = "ended"
    /\ collector[run] = "done"
    /\ Event("EXPERIMENT_END")
    /\ UNCHANGED <<run, fault, outlived, kills, serviceVars, collectorVars, probeVars>>

\* join(timeout=10) and EXPERIMENT_END.
EndRun ==
    /\ main = "recovery" /\ main' = "ended"
    /\ \/ collector[run] = "done" /\ UNCHANGED outlived
       \/ collector[run] # "done" /\ outlived' = outlived \cup {run}
    /\ Event("EXPERIMENT_END")
    /\ UNCHANGED <<run, fault, kills, serviceVars, collectorVars, probeVars>>

\* The process is killed with all its threads and what they have not written;
\* what it has asked for stands.
Kill ==
    /\ main \notin {"ended", "killed"} /\ kills < MaxKills
    /\ kills' = kills + 1 /\ main' = "killed"
    /\ collector' = [i \in Runs |-> IF i <= run THEN "done" ELSE "off"]
    /\ draft' = [i \in Runs |-> EmptyDraft] /\ batch' = [i \in Runs |-> {}]
    /\ UNCHANGED <<run, fault, events, outlived, serviceVars, cursor, cycles, forced,
                   records, probes, probeVars>>

-----------------------------------------------------------------------------
\* The services.  A call is executed once, or never if it is lost.

Execute(i, c) ==
    /\ request[i][c] = "sent"
    /\ request' = [request EXCEPT ![i][c] = "answered"]
    /\ on' = [on EXCEPT ![fault[i]] = IF c = "inject" THEN i ELSE 0]
    /\ UNCHANGED <<mainVars, collectorVars, probeVars>>

\* DbLockFaultService finds no connection: success = false, status 200.
RefuseInject(i) ==
    /\ request[i]["inject"] = "sent" /\ fault[i] = DbLock
    /\ request' = [request EXCEPT ![i]["inject"] = "refused"]
    /\ UNCHANGED <<on, mainVars, collectorVars, probeVars>>

-----------------------------------------------------------------------------
\* The collector thread of run i.

\* records and probes stand for their files by any one line: what is asked of a
\* file is asked of each of its lines.
Written(file, lines) == {file} \cup {{x} : x \in lines}

CollectorGoto(i, where) == collector' = [collector EXCEPT ![i] = where]

\* The end of run_once: another cycle, or the duration is over.
NextCycle(i) ==
    \/ /\ cycles[i] < MaxCycles
       /\ CollectorGoto(i, "poll")
       /\ cycles' = [cycles EXCEPT ![i] = @ + 1]
       /\ cursor' = [cursor EXCEPT ![i] = 1]
    \/ CollectorGoto(i, "done") /\ UNCHANGED <<cycles, cursor>>

\* Mutant of StampRecord: the clock is ahead.
StampRecordAhead(i) ==
    /\ collector[i] = "poll" /\ CollectorGoto(i, "metrics")
    /\ draft' = [draft EXCEPT ![i] = [stamp |-> Len(events) + 1, met |-> {}]]
    /\ UNCHANGED <<cursor, cycles, batch, forced, records, probes, mainVars, serviceVars,
                   probeVars>>

\* collect_service takes the timestamp before it calls the service.
StampRecord(i) ==
    /\ collector[i] = "poll" /\ CollectorGoto(i, "metrics")
    /\ draft' = [draft EXCEPT ![i] = [stamp |-> Len(events), met |-> {}]]
    /\ UNCHANGED <<cursor, cycles, batch, forced, records, probes, mainVars, serviceVars,
                   probeVars>>

\* fetch_health and fetch_metrics: met is what was wrong at that time.
FetchMetrics(i) ==
    /\ collector[i] = "metrics" /\ CollectorGoto(i, "status")
    /\ draft' = [draft EXCEPT ![i].met = {s \in Services : on[s] # 0}]
    /\ UNCHANGED <<cursor, cycles, batch, forced, records, probes, mainVars, serviceVars,
                   probeVars>>

Record(i, flag) ==
    [run |-> i, service |-> Polled[cursor[i]], stamp |-> draft[i].stamp,
     met |-> draft[i].met, flag |-> flag]

Flag(service) == IF on[service] # 0 THEN "on" ELSE "off"

\* fetch_fault_status, which may fail; then the next service.
FetchStatus(i) ==
    /\ collector[i] = "status"
    /\ \E flag \in {Flag(Polled[cursor[i]])} \cup IF StatusFails THEN {"unknown"} ELSE {} :
          batch' = [batch EXCEPT ![i] = @ \cup {Record(i, flag)}]
    /\ draft' = [draft EXCEPT ![i] = EmptyDraft]
    /\ \/ /\ cursor[i] < Len(Polled)
          /\ cursor' = [cursor EXCEPT ![i] = @ + 1]
          /\ CollectorGoto(i, "poll")
       \/ /\ cursor[i] = Len(Polled)
          /\ CollectorGoto(i, "write") /\ UNCHANGED cursor
    /\ UNCHANGED <<cycles, forced, records, probes, mainVars, serviceVars, probeVars>>

\* collect_cycle has returned with all services' records; run_once writes them and
\* goes on with the probe or ends.
WriteCycle(i) ==
    /\ collector[i] = "write"
    /\ records' \in Written(records, batch[i])
    /\ batch' = [batch EXCEPT ![i] = {}]
    /\ IF Probing
       THEN CollectorGoto(i, "probe") /\ UNCHANGED <<cursor, cycles>>
       ELSE NextCycle(i)
    /\ UNCHANGED <<draft, forced, probes, mainVars, serviceVars, probeVars>>

TokenForced(i) == i < run \/ main \in {"recovery", "ended"}

StampProbe(i) ==
    /\ collector[i] = "probe" /\ CollectorGoto(i, "paying")
    /\ BeginProbe(i)
    /\ draft' = [draft EXCEPT ![i].stamp = Len(events)]
    /\ forced' = [forced EXCEPT ![i] = TokenForced(i)]
    /\ UNCHANGED <<cursor, cycles, batch, records, probes, mainVars, serviceVars>>

Authenticate(i) ==
    /\ collector[i] = "paying" /\ EnsureToken(i, ActiveKey)
    /\ UNCHANGED <<mainVars, serviceVars, collectorVars>>

TokenLapses(i) ==
    /\ collector[i] = "paying" /\ Lapse(i)
    /\ UNCHANGED <<mainVars, serviceVars, collectorVars>>

Outcome(i) ==
    [run |-> i, stamp |-> draft[i].stamp, forced |-> forced[i], key |-> carried[i]]

\* The payment, however it ends (PaymentChain), or no payment for want of a token.
PayAndRecord(i) ==
    /\ collector[i] = "paying" /\ EndProbe(i)
    /\ probes' \in Written(probes, {Outcome(i)})
    /\ NextCycle(i)
    /\ draft' = [draft EXCEPT ![i] = EmptyDraft]
    /\ forced' = [forced EXCEPT ![i] = FALSE]
    /\ UNCHANGED <<batch, records, mainVars, serviceVars>>

-----------------------------------------------------------------------------
\* What follows of a run that has begun.
Proceed ==
    SendInject \/ InjectReturns \/ SendReset \/ ResetReturns \/ ForceNewToken \/ EndRun

Collect(i) ==
    \/ StampRecord(i) \/ FetchMetrics(i) \/ FetchStatus(i) \/ WriteCycle(i)
    \/ StampProbe(i) \/ Authenticate(i) \/ TokenLapses(i) \/ PayAndRecord(i)

Next ==
    \/ StartRun \/ Proceed \/ Kill
    \/ \E i \in Runs : Collect(i) \/ RefuseInject(i)
                       \/ \E c \in Calls : Execute(i, c)

Spec == Init /\ [][Next]_vars

\* The main thread only ever waits for a sleep or a timeout; nothing is assumed
\* of the collector, of the services or of whoever starts the next run.
FairSpec == Spec /\ WF_vars(Proceed)

-----------------------------------------------------------------------------
TypeOK ==
    /\ run \in 0..MaxRuns /\ kills \in 0..MaxKills /\ outlived \in SUBSET Runs
    /\ main \in {"baseline", "injecting", "fault", "resetting", "forceToken",
                 "forceExpiry", "recovery", "ended", "killed"}
    /\ fault \in [Runs -> Faults]
    /\ request \in [Runs -> [Calls -> {"none", "sent", "answered", "refused"}]]
    /\ on \in [Services -> 0..MaxRuns]
    /\ \A k \in DOMAIN events : events[k].fault \in Faults /\ events[k].run \in Runs
    /\ collector \in [Runs -> {"off", "poll", "metrics", "status", "write",
                               "probe", "paying", "done"}]
    /\ cursor \in [Runs -> 1..Len(Polled)] /\ cycles \in [Runs -> 1..MaxCycles]
    /\ forced \in [Runs -> BOOLEAN]
    /\ \A i \in Runs : draft[i].stamp <= Len(events) /\ draft[i].met \subseteq Services
    /\ \A x \in records \cup probes \cup UNION {batch[i] : i \in Runs} :
          x.run \in Runs /\ x.stamp <= Len(events)
    /\ ProbeTypeOK

\* Run i wrote such an event.
Wrote(i, kind) == \E k \in DOMAIN events : events[k].event = kind /\ events[k].run = i

RunOf(e) == events[e.start].run

\* Record r is in the window of experiment e, no injection of an earlier run can
\* still be on its way, and its collector did not outlive join().
Undisturbed(r, e) ==
    /\ InWindow(r.stamp, e) /\ r.run \notin outlived
    /\ \A j \in 1..(RunOf(e) - 1) : Wrote(j, "FAULT_INJECTED")

\* Whatever is labelled RECOVERY (reconstruct.py:86) was measured with the
\* fault off, although the collector never stops for the reset and the reset's
\* event is written by another thread.
RecoveryIsClean ==
    \A r \in records : \A e \in Experiments(events) :
        Undisturbed(r, e) /\ PhaseOf(r, e) = "RECOVERY"
            => e.fault \notin r.met

\* A record of the target service that is averaged as FAULT_ACTIVE because it
\* confirms the fault (reconstruct.py:93) was measured under it, although it was
\* measured before the service was asked.
ActiveIsFaulty ==
    \A r \in records : r.flag = "on" =>
        \A e \in Experiments(events) :
            Undisturbed(r, e) /\ PhaseOf(r, e) = "FAULT_ACTIVE" /\ r.service = e.fault
                => e.fault \in r.met

\* What another service shows under the fault, after FAULT_INJECTED, is never
\* lost to another phase (reconstruct.py:113-120): neither by its own flag, which
\* is off, nor by a reset that overtakes the record.
SymptomsCount ==
    \A r \in records : \A e \in Experiments(events) :
        /\ Undisturbed(r, e)
        /\ r.service # e.fault /\ e.fault \in r.met /\ r.stamp >= e.injected
        => PhaseOf(r, e) = "FAULT_ACTIVE"

\* Records are attributed to runs by their timestamps alone (reconstruct.py:
\* 100-108); a run only gets records of another run whose collector had outlived
\* the ten seconds of join().
SliceIsOwn ==
    \A x \in records \cup probes : \A e \in Experiments(events) :
        InWindow(x.stamp, e) => x.run = RunOf(e) \/ x.run \in outlived

\* What is true of generate.py:39-40, that a run always resets the fault before
\* returning: if it has not, the events file says that a call had failed.
LeftOnIsRecorded ==
    \A i \in Runs :
        Wrote(i, "EXPERIMENT_END") /\ on[fault[i]] = i =>
            Wrote(i, "FAULT_INJECT_FAILED") \/ Wrote(i, "FAULT_RESET_FAILED")

\* payment_probe.py:9-15: a token is reused as long as it is fresh, so that one
\* from before the fault meets the fault; it is dropped, but never replaced.
FreshTokenIsKept ==
    [][\A i \in Runs : token[i] # NoToken /\ fresh[i] =>
            token'[i] \in {token[i], NoToken}]_vars

\* A run comes to its end whatever the services and the collector do.
RunsEnd == main = "baseline" ~> main \in {"ended", "killed"}

\* incidents.py:183-185: no incident is built if the injection itself failed.
IncidentHadItsFault ==
    \A e \in Experiments(events) : request[RunOf(e)]["inject"] # "refused"

\* experiment.py:125-127: once force_new_token has returned, the recovery phase
\* probes with a token minted under the restored key.
RecoveryTokenIsRestored ==
    \A p \in probes : \A e \in Experiments(events) :
        e.fault = AuthKey /\ p.run = RunOf(e) /\ p.forced /\ InWindow(p.stamp, e)
            => p.key \in {0, NoToken}
=============================================================================
