------------------------------- MODULE Phases -------------------------------
(***************************************************************************)
(* dataset_tools/reconstruct.py: how the events of an experiment turn      *)
(* telemetry records into labelled ones.  Pure functions of the files.     *)
(*                                                                         *)
(* The events file is a sequence in the order of its timestamps, and the   *)
(* timestamp of a record is the number of events stamped before it; two    *)
(* stamps within one microsecond are not considered, nor is a wall clock   *)
(* that is set back.                                                       *)
(***************************************************************************)
EXTENDS Naturals, Sequences, FiniteSetsExt

NoMark == 0     \* an event that is missing

\* Position of the last event of one of these kinds between two positions.
LastBetween(events, i, j, kinds) ==
    Max({NoMark} \cup {k \in (i + 1)..(j - 1) : events[k].event \in kinds})

\* group_experiments: each EXPERIMENT_END closes the block that the last
\* EXPERIMENT_START has opened, if it is still open.
Opening(events, j) ==
    LastBetween(events, NoMark, j, {"EXPERIMENT_START", "EXPERIMENT_END"})

Block(events, j) ==
    LET start == Opening(events, j)
        Mark(kind) == LastBetween(events, start, j, {kind})
    IN  [fault |-> events[start].fault, start |-> start, end |-> j,
         injected |-> Mark("FAULT_INJECTED"), reset |-> Mark("FAULT_RESET")]

Ends(events) == {j \in 1..Len(events) :
                    /\ events[j].event = "EXPERIMENT_END"
                    /\ LET start == Opening(events, j)
                       IN  start # NoMark /\ events[start].event = "EXPERIMENT_START"}

\* What incidents.py and the baseline loader use: experiments with both marks.
Experiments(events) ==
    {e \in {Block(events, j) : j \in Ends(events)} :
        e.injected # NoMark /\ e.reset # NoMark}

InWindow(stamp, e) == stamp >= e.start /\ stamp < e.end

\* assign_phase; confirmed is the record's word on the fault of this experiment.
AssignPhase(stamp, e, confirmed) ==
    IF stamp < e.injected THEN "NORMAL"
    ELSE IF stamp >= e.reset THEN "RECOVERY"
    ELSE IF confirmed = "off" THEN "FAULT_INTRODUCTION"
    ELSE "FAULT_ACTIVE"

\* Mutant of PhaseOf: every service's flag is trusted.
PhaseTrustingAll(r, e) == AssignPhase(r.stamp, e, r.flag)

\* phase_label_telemetry: only the target service's flag is trusted.
PhaseOf(r, e) ==
    AssignPhase(r.stamp, e, IF r.service = e.fault THEN r.flag ELSE "unknown")

\* phase_label_probes.
PhaseOfProbe(p, e) == AssignPhase(p.stamp, e, "unknown")
=============================================================================
