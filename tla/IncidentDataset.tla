--------------------------- MODULE IncidentDataset ---------------------------
(***************************************************************************)
(* dataset_tools/build_dataset.py and split.py: a build numbers all real   *)
(* incidents of that moment and the synthetic ones that top them up, splits*)
(* them by fault type into Memory and Evaluation, and leaves the two in a  *)
(* file each.  It may be killed between and inside its writes.             *)
(*                                                                         *)
(* A fault type is its rank in the alphabet.  Within a build, an incident  *)
(* is told by type, source and index; its number, incident_id, is given    *)
(* anew by each build.  all_incidents.jsonl and split_manifest.json are    *)
(* read by no program and left out.                                        *)
(***************************************************************************)
EXTENDS RunningSums, FiniteSets

CONSTANTS
    Types,           \* number of fault types
    Target,          \* TARGET_PER_FAULT_TYPE
    Chosen(_, _),    \* the places a seeded shuffle puts into Memory, by type and size
    MaxReals,        \* bound: real incidents, per type
    MaxKills         \* bound: processes that are killed

FaultTypes == 1..Types

ASSUME DatasetAssumption ==
    /\ Types \in Nat /\ Target \in Nat /\ MaxKills \in Nat
    /\ MaxReals \in [FaultTypes -> Nat]

\* round(n * 20/68) of n places; no n makes it a tie.
ASSUME ShareAssumption ==
    \A t \in FaultTypes : \A n \in 0..(Target + MaxReals[t]) :
        /\ Chosen(t, n) \subseteq 1..n
        /\ Cardinality(Chosen(t, n)) = (10 * n + 17) \div 34

VARIABLES
    reals,           \* per type: experiments in telemetry/data that make an incident
    builder,         \* where build() is
    snapshot,        \* the reals its reconstruction has found
    memoryFile,      \* memory_incidents.jsonl
    evaluationFile,  \* evaluation_incidents.jsonl
    kills

datasetVars == <<reals, builder, snapshot, memoryFile, evaluationFile, kills>>

-----------------------------------------------------------------------------
\* n says how many real incidents there are of each type.

\* Mutant of Needed: synthetic incidents are generated whatever is there.
NeededAlways(real) == Target

\* top_up_with_synthetic.
Needed(real) == IF real < Target THEN Target - real ELSE 0

Total(real) == real + Needed(real)

\* Mutant of Place: sorted by start_time alone; the base date of the synthetic
\* ones is before every experiment.
PlaceByTime(real, source, index) ==
    IF source = "synthetic" THEN index ELSE Needed(real) + index

\* assign_incident_ids: by type, "real" before "synthetic", then by start_time.
Place(real, source, index) == IF source = "real" THEN index ELSE real + index

\* How far the count is when it comes to type t.
Offset(n, t) == RunningSum([u \in FaultTypes |-> Total(n[u])], Types)[t - 1]

Incident(n, t, source, index) ==
    [id |-> Offset(n, t) + Place(n[t], source, index),
     type |-> t, source |-> source, index |-> index]

IncidentsOf(n, t) ==
    {Incident(n, t, "real", i) : i \in 1..n[t]}
        \cup {Incident(n, t, "synthetic", i) : i \in 1..Needed(n[t])}

Incidents(n) == UNION {IncidentsOf(n, t) : t \in FaultTypes}

\* stratified_split: within a type the places count, not the ids.
InMemory(n, x) == Place(n[x.type], x.source, x.index) \in Chosen(x.type, Total(n[x.type]))

Memory(n) == {x \in Incidents(n) : InMemory(n, x)}
Evaluation(n) == Incidents(n) \ Memory(n)

\* The same real incident, whatever its numbers: experiment_id.  A synthetic one is made
\* anew, with other contents, by every build (README, section 5).
Same(x, y) ==
    /\ x.source = "real" /\ y.source = "real"
    /\ x.type = y.type /\ x.index = y.index
Ids(S) == {x.id : x \in S}

-----------------------------------------------------------------------------
File(lines, torn) == [lines |-> lines, torn |-> torn]
NoFile == File({}, FALSE)

\* What write_jsonl has left of its lines on disk: some of them, or a last line
\* that is cut, on which every reader fails, whatever came before.
Partial(S) == {File(L, FALSE) : L \in SUBSET S} \cup {File({}, TRUE)}

\* What it may be later on: no line that was complete is lost.
Grown(file, S) == {g \in Partial(S) : file.torn \/ g.torn \/ file.lines \subseteq g.lines}

NoReals == [t \in FaultTypes |-> 0]

DatasetInit ==
    /\ reals = NoReals /\ snapshot = NoReals
    /\ builder = "idle" /\ kills = 0
    /\ memoryFile = NoFile /\ evaluationFile = NoFile

\* An experiment ends from which an incident can be built (Experiment).
AddReal(t) ==
    /\ reals[t] < MaxReals[t]
    /\ reals' = [reals EXCEPT ![t] = @ + 1]
    /\ UNCHANGED <<builder, snapshot, memoryFile, evaluationFile, kills>>

\* Mutant of BeginBuild: an experiment that is still under way counts.
BeginBuildEarly ==
    /\ builder = "idle" /\ builder' = "memory"
    /\ snapshot' = [t \in FaultTypes |-> IF reals[t] < MaxReals[t] THEN reals[t] + 1
                                                                 ELSE reals[t]]
    /\ memoryFile' = NoFile
    /\ UNCHANGED <<reals, evaluationFile, kills>>

\* reconstruct_real_incidents, and the first open(path, "w"), which truncates.
BeginBuild ==
    /\ builder = "idle" /\ builder' = "memory"
    /\ snapshot' = reals
    /\ memoryFile' = NoFile
    /\ UNCHANGED <<reals, evaluationFile, kills>>

\* The buffer is written out again and again while write_jsonl goes through S.
WriteOn ==
    /\ \/ /\ builder = "memory" /\ memoryFile' \in Grown(memoryFile, Memory(snapshot))
          /\ UNCHANGED evaluationFile
       \/ /\ builder = "evaluation"
          /\ evaluationFile' \in Grown(evaluationFile, Evaluation(snapshot))
          /\ UNCHANGED memoryFile
    /\ UNCHANGED <<reals, builder, snapshot, kills>>

\* The end of one file is the beginning of the other.
EndMemory ==
    /\ builder = "memory" /\ builder' = "evaluation"
    /\ memoryFile' = File(Memory(snapshot), FALSE)
    /\ evaluationFile' = NoFile
    /\ UNCHANGED <<reals, snapshot, kills>>

EndEvaluation ==
    /\ builder = "evaluation" /\ builder' = "idle" /\ snapshot' = NoReals
    /\ evaluationFile' = File(Evaluation(snapshot), FALSE)
    /\ UNCHANGED <<reals, memoryFile, kills>>

\* The process is killed; the files stay as they are.
KillBuild ==
    /\ builder # "idle" /\ kills < MaxKills
    /\ builder' = "idle" /\ snapshot' = NoReals /\ kills' = kills + 1
    /\ UNCHANGED <<reals, memoryFile, evaluationFile>>

Build == BeginBuild \/ WriteOn \/ EndMemory \/ EndEvaluation \/ KillBuild

-----------------------------------------------------------------------------
IncidentType == [id : Nat, type : FaultTypes, source : {"real", "synthetic"}, index : Nat]
FileType == [lines : SUBSET IncidentType, torn : BOOLEAN]

DatasetTypeOK ==
    /\ reals \in [FaultTypes -> Nat] /\ snapshot \in [FaultTypes -> Nat]
    /\ \A t \in FaultTypes : snapshot[t] <= reals[t] /\ reals[t] <= MaxReals[t]
    /\ builder \in {"idle", "memory", "evaluation"}
    /\ memoryFile \in FileType /\ evaluationFile \in FileType
    /\ kills \in 0..MaxKills
=============================================================================
