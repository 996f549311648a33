------------------------------ MODULE Detectors ------------------------------
(***************************************************************************)
(* anomaly/train.py and anomaly/detector.py: one model per service, saved  *)
(* as model.joblib and then metadata.json, and read back in the opposite   *)
(* order by the process that runs the workflow.  Training may be killed    *)
(* anywhere, and the feature schema in the code moves on.                  *)
(*                                                                         *)
(* A file is 0 if it is absent, Torn if it is not complete, and otherwise  *)
(* the number of the feature schema its model was trained on.              *)
(***************************************************************************)
EXTENDS Naturals

CONSTANTS
    Services,        \* services with a feature schema
    Torn,
    MaxSchema,       \* bound: feature schemas
    MaxTrainKills    \* bound: trainings that are killed

NoService == "none"

ASSUME DetectorsAssumption ==
    /\ Torn \notin Nat /\ MaxSchema \in Nat \ {0} /\ MaxTrainKills \in Nat
    /\ Services # {} /\ NoService \notin Services

Absent == 0

VARIABLES
    schema,       \* the feature schema of the code on disk
    modelFile,    \* per service
    metaFile,
    trainer,      \* where train_all_services is
    trainedOn,    \* the schema its process has started with
    saving,       \* the service it saves
    trainKills,
    process,      \* where the workflow's process is
    running,      \* the schema it has started with
    toLoad,       \* services load_all_detectors has not come to
    confirmed,    \* of these, the one whose metadata it has accepted
    detectors     \* per service: 0, or the schema of the model it has loaded

fileVars == <<modelFile, metaFile>>
trainerVars == <<trainer, trainedOn, saving, trainKills>>
loaderVars == <<process, running, toLoad, confirmed, detectors>>
detectorVars == <<schema, fileVars, trainerVars, loaderVars>>

DetectorsInit ==
    /\ schema = 1 /\ trainKills = 0
    /\ modelFile = [s \in Services |-> Absent] /\ metaFile = [s \in Services |-> Absent]
    /\ trainer = "idle" /\ trainedOn = 1 /\ saving = NoService
    /\ process = "down" /\ running = 1 /\ toLoad = {} /\ confirmed = NoService
    /\ detectors = [s \in Services |-> Absent]

\* A later version of the code is installed; processes that run keep theirs.
Upgrade ==
    /\ schema < MaxSchema
    /\ schema' = schema + 1
    /\ UNCHANGED <<fileVars, trainerVars, loaderVars>>

-----------------------------------------------------------------------------
\* train_all_services; one training at a time.

StartTraining ==
    /\ trainer = "idle" /\ trainer' = "fit" /\ trainedOn' = schema
    /\ UNCHANGED <<schema, fileVars, saving, trainKills, loaderVars>>

\* Mutant of BeginModel: save() leaves the metadata before the model.
BeginModelLast(s) ==
    /\ trainer = "fit" /\ trainer' = "model" /\ saving' = s
    /\ metaFile' = [metaFile EXCEPT ![s] = trainedOn]
    /\ UNCHANGED <<schema, modelFile, trainedOn, trainKills, loaderVars>>

\* train() has made a model of its own process's schema; joblib.dump opens the
\* file.  Services without feature vectors are passed over.
BeginModel(s) ==
    /\ trainer = "fit" /\ trainer' = "model" /\ saving' = s
    /\ modelFile' = [modelFile EXCEPT ![s] = Torn]
    /\ UNCHANGED <<schema, metaFile, trainedOn, trainKills, loaderVars>>

EndModel ==
    /\ trainer = "model" /\ trainer' = "saved"
    /\ modelFile' = [modelFile EXCEPT ![saving] = trainedOn]
    /\ UNCHANGED <<schema, metaFile, trainedOn, saving, trainKills, loaderVars>>

BeginMetadata ==
    /\ trainer = "saved" /\ trainer' = "metadata"
    /\ metaFile' = [metaFile EXCEPT ![saving] = Torn]
    /\ UNCHANGED <<schema, modelFile, trainedOn, saving, trainKills, loaderVars>>

EndMetadata ==
    /\ trainer = "metadata" /\ trainer' = "fit" /\ saving' = NoService
    /\ metaFile' = [metaFile EXCEPT ![saving] = trainedOn]
    /\ UNCHANGED <<schema, modelFile, trainedOn, trainKills, loaderVars>>

EndTraining ==
    /\ trainer = "fit" /\ trainer' = "idle"
    /\ UNCHANGED <<schema, fileVars, trainedOn, saving, trainKills, loaderVars>>

KillTraining ==
    /\ trainer # "idle" /\ trainKills < MaxTrainKills
    /\ trainer' = "idle" /\ saving' = NoService /\ trainKills' = trainKills + 1
    /\ UNCHANGED <<schema, fileVars, trainedOn, loaderVars>>

Train == StartTraining \/ (\E s \in Services : BeginModel(s)) \/ EndModel
            \/ BeginMetadata \/ EndMetadata \/ EndTraining \/ KillTraining

-----------------------------------------------------------------------------
\* load_all_detectors.

LoadStep == UNCHANGED <<schema, fileVars, trainerVars>>

StartProcess ==
    /\ process = "down" /\ process' = "loading"
    /\ running' = schema /\ toLoad' = Services
    /\ LoadStep /\ UNCHANGED <<confirmed, detectors>>

\* Mutant of Fall: every exception is caught.
FallCaught == UNCHANGED <<process, toLoad, confirmed, detectors>>

\* Only FileNotFoundError is caught; any other exception ends the process.
Fall ==
    /\ process' = "down" /\ toLoad' = {} /\ confirmed' = NoService
    /\ detectors' = [s \in Services |-> Absent]

Loaded(s, version) ==
    /\ toLoad' = toLoad \ {s} /\ confirmed' = NoService
    /\ detectors' = [detectors EXCEPT ![s] = version]
    /\ process' = IF toLoad' = {} THEN "ready" ELSE "loading"

\* FileNotFoundError: the service stays without a detector.
FindNoModel(s) ==
    /\ process = "loading" /\ confirmed = NoService /\ s \in toLoad
    /\ Absent \in {modelFile[s], metaFile[s]}
    /\ Loaded(s, Absent)
    /\ LoadStep /\ UNCHANGED running

AcceptMetadata(s) ==
    /\ process = "loading" /\ confirmed = NoService /\ s \in toLoad
    /\ modelFile[s] # Absent /\ metaFile[s] = running
    /\ confirmed' = s
    /\ LoadStep /\ UNCHANGED <<process, running, toLoad, detectors>>

\* FeatureSchemaMismatchError, or a torn file.
RejectMetadata(s) ==
    /\ process = "loading" /\ confirmed = NoService /\ s \in toLoad
    /\ modelFile[s] # Absent /\ metaFile[s] \notin {Absent, running}
    /\ Fall
    /\ LoadStep /\ UNCHANGED running

ReadModel ==
    /\ process = "loading" /\ confirmed # NoService
    /\ \/ modelFile[confirmed] = Torn /\ Fall
       \/ modelFile[confirmed] # Torn /\ Loaded(confirmed, modelFile[confirmed])
    /\ LoadStep /\ UNCHANGED running

LoadFiles == ReadModel
          \/ \E s \in Services : FindNoModel(s) \/ AcceptMetadata(s) \/ RejectMetadata(s)

-----------------------------------------------------------------------------
FileStates == {Absent, Torn} \cup 1..MaxSchema

DetectorsTypeOK ==
    /\ schema \in 1..MaxSchema /\ trainKills \in 0..MaxTrainKills
    /\ modelFile \in [Services -> FileStates] /\ metaFile \in [Services -> FileStates]
    /\ trainer \in {"idle", "fit", "model", "saved", "metadata"}
    /\ trainedOn \in 1..schema /\ running \in 1..schema
    /\ saving \in Services \cup {NoService}
    /\ saving # NoService <=> trainer \in {"model", "saved", "metadata"}
    /\ process \in {"down", "loading", "ready"}
    /\ toLoad \subseteq Services /\ confirmed \in toLoad \cup {NoService}
    /\ detectors \in [Services -> 0..MaxSchema]

\* models.py:45-46: a model of another feature schema is never used silently.  What
\* load() returns is no model of an earlier schema than the running process has,
\* although the two files are written one after the other by another process, which
\* may be killed in between and started again by later code.  (A later one it can
\* be: if the code is replaced and a training gets as far as the metadata while a
\* process starts.)
OldModelsAreRefused ==
    \A s \in Services : detectors[s] # Absent => detectors[s] >= running
=============================================================================
