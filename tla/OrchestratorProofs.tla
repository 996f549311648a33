-------------------------- MODULE OrchestratorProofs --------------------------
(***************************************************************************)
(* What holds of the orchestrator for any services, records and answers,   *)
(* and any number of schema versions and killed trainings.                 *)
(***************************************************************************)
EXTENDS Orchestrator, Induction, FiniteSetTheorems, TLAPS

USE DetectorsAssumption, WorkflowAssumption

-----------------------------------------------------------------------------
\* Signatures.

LEMMA ExcessIsNat ==
    ASSUME NEW m \in [Faults -> Nat], NEW f \in Faults
    PROVE  Excess(m, f) \in Nat /\ Rank[f] \in Nat
<1>1. 58500 \div Threshold[f] \in Nat
  BY DEF Faults, Threshold
<1>2. m[f] \in Nat /\ Rank[f] \in Nat
  BY DEF Faults, Rank
<1> QED BY <1>1, <1>2 DEF Excess

\* Of some faults, one comes before the others.
LEMMA OneIsFirst ==
    ASSUME NEW m \in [Faults -> Nat], NEW S \in SUBSET Faults, S # {}
    PROVE  \E f \in S : \A g \in S : Before(m, f, g)
<1> DEFINE B(f, g) == Before(m, f, g)
<1>1. \A f, g \in Faults : B(f, g) \/ B(g, f)
  BY ExcessIsNat DEF Before
<1>2. \A f, g, h \in Faults : B(f, g) /\ B(g, h) => B(f, h)
  BY ExcessIsNat DEF Before
<1> HIDE DEF B
<1> DEFINE First(T) == T = {} \/ \E f \in T : \A g \in T : B(f, g)
<1>3. ASSUME NEW T, NEW k \in Faults, T \subseteq Faults, First(T)
      PROVE  First(T \cup {k})
  <2>1. CASE T = {}
    BY <1>1, <2>1
  <2>2. CASE T # {}
    <3>1. PICK f \in T : \A g \in T : B(f, g)
      BY <1>3, <2>2
    <3>2. CASE B(f, k)
      BY <1>1, <3>1, <3>2
    <3>3. CASE B(k, f)
      BY <1>1, <1>2, <1>3, <3>1, <3>3
    <3> QED BY <1>1, <1>3, <3>2, <3>3
  <2> QED BY <2>1, <2>2
<1> HIDE DEF First
<1>4. ASSUME NEW T, NEW k \in Faults, T \subseteq Faults, First(S \cap T)
      PROVE  First(S \cap (T \cup {k}))
  <2>1. CASE k \in S
    <3>1. S \cap (T \cup {k}) = (S \cap T) \cup {k}
      BY <2>1
    <3>2. S \cap T \subseteq Faults
      BY <1>4
    <3> QED BY <1>3, <1>4, <3>1, <3>2
  <2>2. CASE k \notin S
    <3>1. S \cap (T \cup {k}) = S \cap T
      BY <2>2
    <3> QED BY <1>4, <3>1
  <2> QED BY <2>1, <2>2
<1>5. First(S \cap {})
  BY DEF First
<1>6. First(S \cap ({} \cup {"memory-leak"}))
  BY <1>4, <1>5 DEF Faults
<1>7. First(S \cap ({"memory-leak"} \cup {"db-lock"}))
  BY <1>4, <1>6 DEF Faults
<1>8. First(S \cap ({"memory-leak", "db-lock"} \cup {"auth-key-error"}))
  BY <1>4, <1>7 DEF Faults
<1>9. First(S \cap ({"memory-leak", "db-lock", "auth-key-error"}
                        \cup {"notification-latency"}))
  BY <1>4, <1>8 DEF Faults
<1>10. S \cap ({"memory-leak", "db-lock", "auth-key-error"}
                  \cup {"notification-latency"}) = S
  BY DEF Faults
<1> QED BY <1>9, <1>10 DEF First, B

LEMMA BestIsMatch ==
    ASSUME NEW service, NEW m \in [Faults -> Nat], Matches(service, m) # {}
    PROVE  Best(service, m) \in Matches(service, m)
<1>1. Matches(service, m) \in SUBSET Faults
  BY DEF Matches
<1>2. \E f \in Matches(service, m) : \A g \in Matches(service, m) : Before(m, f, g)
  BY <1>1, OneIsFirst
<1> QED BY <1>2 DEF Best

LEMMA RemedyIsForRootCause == \A f \in Faults : Remedy[f].target = RootCause[f]
  BY DEF Faults, Remedy, RootCause
-----------------------------------------------------------------------------
\* The detectors' files.

TrainerActive == trainer # "idle"

\* A file's number is not ahead of the code nor, in a training, of its schema.
NotAhead(s) ==
    /\ modelFile[s] \in Nat => /\ modelFile[s] <= schema
                               /\ TrainerActive => modelFile[s] <= trainedOn
    /\ metaFile[s] \in Nat => /\ metaFile[s] <= schema
                              /\ TrainerActive => metaFile[s] <= trainedOn

\* Metadata never promises more than the model is: the model is written first.
MetadataIsTrue(s) ==
    metaFile[s] \in Nat \ {Absent} =>
        modelFile[s] = Torn \/ (modelFile[s] \in Nat /\ modelFile[s] >= metaFile[s])

SavedModelIsThere ==
    trainer \in {"saved", "metadata"} => modelFile[saving] = trainedOn

\* Once its metadata is accepted a model can only become a later one.
AcceptedIsNotOld ==
    confirmed # NoService =>
        /\ modelFile[confirmed] = Torn
             \/ (modelFile[confirmed] \in Nat /\ modelFile[confirmed] >= running)
        /\ TrainerActive => trainedOn >= running

LoaderIsCalm ==
    /\ process # "loading" => confirmed = NoService
    /\ process = "down" => \A s \in Services : detectors[s] = Absent

FilesInv ==
    /\ DetectorsTypeOK
    /\ \A s \in Services : NotAhead(s) /\ MetadataIsTrue(s)
    /\ SavedModelIsThere /\ AcceptedIsNotOld /\ LoaderIsCalm
    /\ OldModelsAreRefused

LEMMA FilesInit == DetectorsInit => FilesInv
<1> SUFFICES ASSUME DetectorsInit PROVE FilesInv
  OBVIOUS
<1> USE DEF DetectorsInit, Absent
<1>1. DetectorsTypeOK
  BY DEF DetectorsTypeOK, FileStates
<1> QED BY <1>1 DEF FilesInv, NotAhead, MetadataIsTrue, SavedModelIsThere, TrainerActive,
            AcceptedIsNotOld, LoaderIsCalm, OldModelsAreRefused

LEMMA UpgradeKeeps == ASSUME FilesInv, Upgrade PROVE FilesInv'
<1> USE DEF FilesInv, Upgrade, fileVars, trainerVars, loaderVars, Absent
<1>1. DetectorsTypeOK'
  BY DEF DetectorsTypeOK
<1>2. \A s \in Services : NotAhead(s)' /\ MetadataIsTrue(s)'
  BY DEF NotAhead, MetadataIsTrue, DetectorsTypeOK, TrainerActive
<1> QED BY <1>1, <1>2 DEF SavedModelIsThere, TrainerActive, AcceptedIsNotOld,
            LoaderIsCalm, OldModelsAreRefused

LEMMA TrainKeeps == ASSUME FilesInv, Train PROVE FilesInv'
<1> USE DEF FilesInv, loaderVars, fileVars, Absent
<1>1. UNCHANGED <<schema, loaderVars>>
  BY DEF Train, StartTraining, BeginModel, EndModel, BeginMetadata, EndMetadata,
         EndTraining, KillTraining
<1>2. /\ schema \in 1..MaxSchema /\ trainedOn \in 1..schema /\ running \in 1..schema
      /\ modelFile \in [Services -> FileStates] /\ metaFile \in [Services -> FileStates]
      /\ trainer \in {"idle", "fit", "model", "saved", "metadata"}
      /\ saving # NoService <=> trainer \in {"model", "saved", "metadata"}
      /\ saving \in Services \cup {NoService} /\ trainKills \in 0..MaxTrainKills
      /\ confirmed \in Services \cup {NoService}
  BY DEF DetectorsTypeOK
<1>3. DetectorsTypeOK'
  <2>1. CASE StartTraining \/ EndTraining \/ KillTraining
    BY <1>1, <1>2, <2>1 DEF StartTraining, EndTraining, KillTraining, DetectorsTypeOK
  <2>2. ASSUME NEW s \in Services, BeginModel(s) PROVE DetectorsTypeOK'
    BY <1>1, <1>2, <2>2 DEF BeginModel, DetectorsTypeOK, FileStates
  <2>3. CASE EndModel
    BY <1>1, <1>2, <2>3 DEF EndModel, DetectorsTypeOK, FileStates
  <2>4. CASE BeginMetadata
    BY <1>1, <1>2, <2>4 DEF BeginMetadata, DetectorsTypeOK, FileStates
  <2>5. CASE EndMetadata
    BY <1>1, <1>2, <2>5 DEF EndMetadata, DetectorsTypeOK, FileStates
  <2> QED BY <2>1, <2>2, <2>3, <2>4, <2>5 DEF Train
<1>4. ASSUME NEW s \in Services PROVE (NotAhead(s) /\ MetadataIsTrue(s))'
  <2>1. NotAhead(s) /\ MetadataIsTrue(s)
    OBVIOUS
  <2> USE <1>1, <1>2, <2>1 DEF NotAhead, MetadataIsTrue, TrainerActive
  <2>2. CASE StartTraining \/ EndTraining \/ KillTraining
    BY <2>2 DEF StartTraining, EndTraining, KillTraining
  <2>3. CASE \E u \in Services : BeginModel(u)
    BY <2>3 DEF BeginModel
  <2>4. CASE EndModel
    BY <2>4 DEF EndModel
  <2>5. CASE BeginMetadata
    BY <2>5 DEF BeginMetadata
  <2>6. CASE EndMetadata
    BY <2>6 DEF EndMetadata, SavedModelIsThere
  <2> QED BY <2>2, <2>3, <2>4, <2>5, <2>6 DEF Train
<1>5. SavedModelIsThere'
  BY <1>2 DEF SavedModelIsThere, Train, StartTraining, BeginModel, EndModel, BeginMetadata,
              EndMetadata, EndTraining, KillTraining
<1>6. AcceptedIsNotOld'
  <2> USE <1>1, <1>2 DEF AcceptedIsNotOld, TrainerActive
  <2>1. CASE StartTraining \/ EndTraining \/ KillTraining
    BY <2>1 DEF StartTraining, EndTraining, KillTraining
  <2>2. CASE \E u \in Services : BeginModel(u)
    BY <2>2 DEF BeginModel
  <2>3. CASE EndModel
    BY <2>3 DEF EndModel
  <2>4. CASE BeginMetadata \/ EndMetadata
    BY <2>4 DEF BeginMetadata, EndMetadata
  <2> QED BY <2>1, <2>2, <2>3, <2>4 DEF Train
<1>7. LoaderIsCalm' /\ OldModelsAreRefused'
  BY <1>1 DEF LoaderIsCalm, OldModelsAreRefused
<1> QED BY <1>3, <1>4, <1>5, <1>6, <1>7

\* What a step of load_all_detectors, or the end of the process, leaves alone.
LEMMA FilesStay ==
    ASSUME FilesInv, UNCHANGED <<schema, fileVars, trainerVars>>
    PROVE  /\ \A s \in Services : NotAhead(s)' /\ MetadataIsTrue(s)'
           /\ SavedModelIsThere'
  BY DEF FilesInv, fileVars, trainerVars, NotAhead, MetadataIsTrue, SavedModelIsThere,
         TrainerActive

LEMMA StartKeeps == ASSUME FilesInv, StartProcess PROVE FilesInv'
<1> USE DEF FilesInv, StartProcess, LoadStep, fileVars, trainerVars
<1>1. DetectorsTypeOK'
  BY DEF DetectorsTypeOK
<1> QED BY <1>1, FilesStay DEF AcceptedIsNotOld, LoaderIsCalm, OldModelsAreRefused

LEMMA FallKeeps ==
    ASSUME FilesInv, Fall, UNCHANGED <<schema, fileVars, trainerVars, running>>
    PROVE  FilesInv'
<1> USE DEF FilesInv, Fall, fileVars, trainerVars
<1>1. DetectorsTypeOK'
  BY DEF DetectorsTypeOK, Absent
<1> QED BY <1>1, FilesStay DEF AcceptedIsNotOld, LoaderIsCalm, OldModelsAreRefused

LEMMA LoadedKeeps ==
    ASSUME FilesInv, NEW s \in Services, NEW version \in 0..MaxSchema,
           version # Absent => version >= running, process = "loading",
           Loaded(s, version), UNCHANGED <<schema, fileVars, trainerVars, running>>
    PROVE  FilesInv'
<1> USE DEF FilesInv, Loaded, fileVars, trainerVars
<1>1. DetectorsTypeOK'
  BY DEF DetectorsTypeOK
<1>2. AcceptedIsNotOld' /\ LoaderIsCalm'
  BY DEF AcceptedIsNotOld, LoaderIsCalm
<1>3. OldModelsAreRefused'
  BY DEF OldModelsAreRefused, DetectorsTypeOK
<1> QED BY <1>1, <1>2, <1>3, FilesStay

LEMMA LoadKeeps == ASSUME FilesInv, LoadFiles PROVE FilesInv'
<1>1. /\ schema \in 1..MaxSchema /\ running \in 1..schema
      /\ modelFile \in [Services -> FileStates] /\ metaFile \in [Services -> FileStates]
      /\ toLoad \subseteq Services /\ confirmed \in toLoad \cup {NoService}
  BY DEF FilesInv, DetectorsTypeOK
<1>2. UNCHANGED <<schema, fileVars, trainerVars, running>> /\ process = "loading"
  BY DEF LoadFiles, FindNoModel, AcceptMetadata, RejectMetadata, ReadModel, LoadStep
<1>3. ASSUME NEW s \in Services, FindNoModel(s) PROVE FilesInv'
  BY <1>2, <1>3, LoadedKeeps DEF FindNoModel, Absent
<1>4. ASSUME NEW s \in Services, AcceptMetadata(s) PROVE FilesInv'
  <2>1. DetectorsTypeOK'
    BY <1>4 DEF FilesInv, DetectorsTypeOK, AcceptMetadata, LoadStep, fileVars, trainerVars
  <2>2. AcceptedIsNotOld'
    BY <1>1, <1>4 DEF FilesInv, NotAhead, MetadataIsTrue, AcceptedIsNotOld, TrainerActive,
                      AcceptMetadata, LoadStep, fileVars, trainerVars, Absent
  <2>3. LoaderIsCalm' /\ OldModelsAreRefused'
    BY <1>4 DEF FilesInv, LoaderIsCalm, OldModelsAreRefused, AcceptMetadata
  <2> QED BY <1>2, <2>1, <2>2, <2>3, FilesStay DEF FilesInv
<1>5. ASSUME NEW s \in Services, RejectMetadata(s) PROVE FilesInv'
  BY <1>2, <1>5, FallKeeps DEF RejectMetadata
<1>6. CASE ReadModel
  <2>1. CASE modelFile[confirmed] = Torn /\ Fall
    BY <1>2, <2>1, FallKeeps
  <2>2. CASE modelFile[confirmed] # Torn /\ Loaded(confirmed, modelFile[confirmed])
    <3>1. confirmed \in Services
      BY <1>1, <1>6 DEF ReadModel
    <3>2. modelFile[confirmed] \in 0..MaxSchema /\ modelFile[confirmed] >= running
      BY <1>1, <1>6, <2>2, <3>1
         DEF ReadModel, FilesInv, AcceptedIsNotOld, FileStates, Absent
    <3> QED BY <1>2, <2>2, <3>1, <3>2, LoadedKeeps
  <2> QED BY <1>6, <2>1, <2>2 DEF ReadModel
<1> QED BY <1>3, <1>4, <1>5, <1>6 DEF LoadFiles

LEMMA FilesStutter == ASSUME FilesInv, UNCHANGED detectorVars PROVE FilesInv'
<1> USE DEF FilesInv, detectorVars, fileVars, trainerVars, loaderVars
<1>1. DetectorsTypeOK'
  BY DEF DetectorsTypeOK
<1> QED BY <1>1, FilesStay DEF AcceptedIsNotOld, LoaderIsCalm, OldModelsAreRefused,
                              TrainerActive

LEMMA FilesStep == FilesInv /\ [Next]_vars => FilesInv'
<1> SUFFICES ASSUME FilesInv, [Next]_vars PROVE FilesInv'
  OBVIOUS
<1>1. CASE InvokeRecord \/ UNCHANGED vars
  BY <1>1, FilesStutter DEF InvokeRecord, vars
<1>2. CASE RunGraph
  <2>1. CASE node' = "crashed"
    BY <1>2, <2>1, FallKeeps DEF RunGraph
  <2>2. CASE node' # "crashed"
    BY <1>2, <2>2, FilesStutter DEF RunGraph, detectorVars, loaderVars
  <2> QED BY <2>1, <2>2
<1>3. CASE Start
  BY <1>3, StartKeeps DEF Start
<1>4. CASE Provide \/ Load
  BY <1>4, UpgradeKeeps, TrainKeeps, LoadKeeps DEF Provide, Load
<1> QED BY <1>1, <1>2, <1>3, <1>4 DEF Next

LEMMA FilesInvariant == Spec => []FilesInv
<1>1. Init => FilesInv
  BY FilesInit DEF Init
<1> QED BY <1>1, FilesStep, PTL DEF Spec

\* A process never holds a model of an earlier feature schema than its own
\* (detector.py:87-118), whenever trainings run, are killed or meet new code.  The
\* argument: save() writes the model before its metadata, and no training starts
\* on an earlier schema than the last, so metadata never promises too much.
THEOREM OldModelsRefused == Spec => []OldModelsAreRefused
<1>1. FilesInv => OldModelsAreRefused
  BY DEF FilesInv
<1> QED BY <1>1, FilesInvariant, PTL

-----------------------------------------------------------------------------
\* The graph.

BeforeAnalysis == {"idle", "extract_features", "detect_anomaly", "interpret",
                   "retrieve_similar_incidents", "root_cause_analysis"}

\* A conclusion is the one that record and incidents lead to, and a proposal the one
\* the conclusion leads to, for as long as either is there.
GraphInv ==
    /\ node \notin {"idle", "crashed"} => record \in Records
    /\ node \in BeforeAnalysis => analysis = Nothing
    /\ node \in BeforeAnalysis \cup {"propose_remediation"} => proposal = Nothing
    /\ node = "propose_remediation" => analysis # Nothing
    /\ analysis # Nothing =>
          /\ record \in Records
          /\ analysis = Analyze(record.service, record.metrics, incidents)
    /\ proposal # Nothing => analysis # Nothing /\ proposal = Propose(analysis)

LEMMA AnalysisIsSomething ==
    ASSUME NEW service, NEW metrics, NEW found
    PROVE  Analyze(service, metrics, found) # Nothing
<1>1. ASSUME NEW f, NEW r, NEW c, NEW d PROVE Conclusion(f, r, c, d) # Nothing
  <2>1. "fault" \in DOMAIN Conclusion(f, r, c, d) /\ "fault" \notin DOMAIN Nothing
    BY DEF Conclusion, Nothing
  <2> QED BY <2>1
<1> QED BY <1>1 DEF Analyze, BySignature, ByRetrieval

LEMMA GraphInit == WorkflowInit => GraphInv
  BY DEF WorkflowInit, GraphInv, BeforeAnalysis

LEMMA InvokeKeeps == ASSUME GraphInv, NEW r \in Records, Invoke(r) PROVE GraphInv'
  BY DEF GraphInv, Invoke, Fresh, BeforeAnalysis

LEMMA NodeKeeps ==
    ASSUME GraphInv, NEW schemas, NEW found, NEW version, RunNode(schemas, found, version)
    PROVE  GraphInv'
<1> USE DEF GraphInv, BeforeAnalysis, foundVars, rcaVars
<1>1. CASE ExtractFeatures(schemas)
  BY <1>1 DEF ExtractFeatures
<1>2. CASE DetectAnomaly(found, version)
  BY <1>2 DEF DetectAnomaly, RouteAfterDetection
<1>3. CASE Interpret
  BY <1>3 DEF Interpret
<1>4. CASE RetrieveSimilarIncidents
  BY <1>4 DEF RetrieveSimilarIncidents
<1>5. CASE RootCauseAnalysis
  BY <1>5, AnalysisIsSomething DEF RootCauseAnalysis
<1>6. CASE ProposeRemediation
  BY <1>6 DEF ProposeRemediation
<1>7. CASE Finalize
  BY <1>7 DEF Finalize
<1> QED BY <1>1, <1>2, <1>3, <1>4, <1>5, <1>6, <1>7 DEF RunNode

LEMMA GraphStep == GraphInv /\ [Next]_vars => GraphInv'
<1> SUFFICES ASSUME GraphInv, [Next]_vars PROVE GraphInv'
  OBVIOUS
<1>1. CASE InvokeRecord
  BY <1>1, InvokeKeeps DEF InvokeRecord
<1>2. CASE RunGraph
  BY <1>2, NodeKeeps DEF RunGraph
<1>3. CASE Start
  BY <1>3 DEF Start, Fresh, GraphInv, BeforeAnalysis
<1>4. CASE Provide \/ Load \/ UNCHANGED vars
  BY <1>4 DEF Provide, Load, vars, workflowVars, foundVars, rcaVars, GraphInv, BeforeAnalysis
<1> QED BY <1>1, <1>2, <1>3, <1>4 DEF Next

LEMMA GraphInvariant == Spec => []GraphInv
<1>1. Init => GraphInv
  BY GraphInit DEF Init
<1> QED BY <1>1, GraphStep, PTL DEF Spec

\* What Analyze concludes without a match is low, and with one it is not.
LEMMA ConfidenceNeedsMatch ==
    ASSUME NEW service, NEW m, NEW found
    PROVE  IF Matches(service, m) = {}
           THEN Analyze(service, m, found).confidence = "low"
           ELSE /\ Analyze(service, m, found).confidence # "low"
                /\ Analyze(service, m, found).fault = Best(service, m)
  BY DEF Analyze, BySignature, ByRetrieval, Conclusion

\* Whatever is retrieved and whatever the language model answers, a matched
\* signature decides the fault and is not made tentative (analyzer.py:5-12).
THEOREM EvidenceWins == Spec => []EvidenceOutweighsRetrieval
<1>1. GraphInv => EvidenceOutweighsRetrieval
  BY ConfidenceNeedsMatch DEF GraphInv, EvidenceOutweighsRetrieval
<1> QED BY <1>1, GraphInvariant, PTL

\* A concrete action is only proposed for a record that itself shows, above its
\* threshold, the metric of a fault rooted in the target (proposer.py:88-94).
THEOREM RemedyHasMetric == Spec => []RemedyNeedsMetric
<1>1. ASSUME GraphInv, proposal # Nothing, proposal.category # "investigate_manually"
      PROVE  \E f \in Matches(record.service, record.metrics) :
                 proposal.target = RootCause[f]
  <2>1. /\ record.metrics \in [Faults -> Nat]
        /\ analysis = Analyze(record.service, record.metrics, incidents)
        /\ proposal = Propose(analysis)
    BY <1>1 DEF GraphInv
  <2>2. /\ analysis.fault \in Faults /\ analysis.confidence # "low"
        /\ proposal = Remedy[analysis.fault]
    BY <1>1, <2>1 DEF Propose
  <2>3. Matches(record.service, record.metrics) # {}
    BY <2>1, <2>2, ConfidenceNeedsMatch
  <2>4. analysis.fault \in Matches(record.service, record.metrics)
    BY <2>1, <2>3, ConfidenceNeedsMatch, BestIsMatch
  <2> QED BY <2>2, <2>4, RemedyIsForRootCause
<1>2. GraphInv => RemedyNeedsMetric
  BY <1>1 DEF RemedyNeedsMetric
<1> QED BY <1>2, GraphInvariant, PTL

-----------------------------------------------------------------------------
\* The way through the graph.

Asked == interpretation \in {"llm_unavailable", "llm_error", "interpreted"}
Searched == retrieval \in {"collection_unavailable", "empty", "retrieved"}

PathInv ==
    /\ anomaly \in {"none", "insufficient_data", "no_model", "normal", "anomaly"}
    /\ node \in {"interpret", "retrieve_similar_incidents", "root_cause_analysis",
                 "propose_remediation"} => anomaly = "anomaly"
    /\ node \in {"retrieve_similar_incidents", "root_cause_analysis",
                 "propose_remediation"} => Asked
    /\ node \in {"root_cause_analysis", "propose_remediation"} => Searched
    /\ node \in {"finalize", "done"} =>
          /\ anomaly # "none"
          /\ anomaly = "anomaly" => Asked /\ Searched /\ analysis # Nothing
    /\ node = "done" => limitations = Limitations

LEMMA PathNodeKeeps ==
    ASSUME GraphInv, PathInv, NEW schemas, NEW found, NEW version,
           RunNode(schemas, found, version)
    PROVE  PathInv'
<1> USE DEF PathInv, Asked, Searched, foundVars, rcaVars
<1>1. CASE ExtractFeatures(schemas)
  BY <1>1 DEF ExtractFeatures
<1>2. CASE DetectAnomaly(found, version)
  BY <1>2 DEF DetectAnomaly, RouteAfterDetection, Verdicts
<1>3. CASE Interpret
  BY <1>3 DEF Interpret, Interpreted, Replies
<1>4. CASE RetrieveSimilarIncidents
  BY <1>4 DEF RetrieveSimilarIncidents
<1>5. CASE RootCauseAnalysis
  BY <1>5 DEF RootCauseAnalysis
<1>6. CASE ProposeRemediation
  BY <1>6 DEF ProposeRemediation, GraphInv
<1>7. CASE Finalize
  BY <1>7 DEF Finalize, Limitations
<1> QED BY <1>1, <1>2, <1>3, <1>4, <1>5, <1>6, <1>7 DEF RunNode

LEMMA PathStep == GraphInv /\ PathInv /\ [Next]_vars => PathInv'
<1> SUFFICES ASSUME GraphInv, PathInv, [Next]_vars PROVE PathInv'
  OBVIOUS
<1>1. CASE InvokeRecord
  BY <1>1 DEF InvokeRecord, Invoke, Fresh, PathInv
<1>2. CASE RunGraph
  BY <1>2, PathNodeKeeps DEF RunGraph
<1>3. CASE Start
  BY <1>3 DEF Start, Fresh, PathInv
<1>4. CASE Provide \/ Load \/ UNCHANGED vars
  BY <1>4 DEF Provide, Load, vars, workflowVars, foundVars, rcaVars, PathInv, Asked, Searched,
              Limitations
<1> QED BY <1>1, <1>2, <1>3, <1>4 DEF Next

\* A result that names no limitation has passed every stage in full: nothing that
\* failed or was missing on the way is left unsaid (graph/workflow.py:144-164).
THEOREM NothingIsLeftUnsaid == Spec => []LimitationsTellAll
<1>1. Init => PathInv
  BY DEF Init, WorkflowInit, PathInv
<1>2. Spec => [](GraphInv /\ PathInv)
  BY <1>1, GraphInvariant, PathStep, PTL DEF Spec
<1>3. PathInv => LimitationsTellAll
  BY DEF PathInv, LimitationsTellAll, Limitations, Asked, Searched
<1> QED BY <1>2, <1>3, PTL

-----------------------------------------------------------------------------
\* Types.

\* TypeOK without the detectors' part.
Contents ==
    /\ node \in {"idle", "extract_features", "detect_anomaly", "interpret",
                 "retrieve_similar_incidents", "root_cause_analysis",
                 "propose_remediation", "finalize", "done", "crashed"}
    /\ node = "crashed" => process = "down"
    /\ node \notin {"idle", "crashed"} => process = "ready"
    /\ extracted \in BOOLEAN /\ narrated \in BOOLEAN
    /\ interpretation \in {"none", "llm_unavailable", "llm_error", "interpreted"}
    /\ retrieval \in {"none", "collection_unavailable", "empty", "retrieved"}
    /\ incidents \in Retrievals \cup {<<>>}
    /\ limitations \subseteq {"insufficient_data", "no_model", "llm_unavailable", "llm_error",
                              "collection_unavailable", "empty", "no_narrative",
                              "low_confidence"}

LEMMA NodeKeepsContents ==
    ASSUME Contents, process = "ready", NEW schemas, NEW found, NEW version,
           RunNode(schemas, found, version),
           IF node' = "crashed" THEN process' = "down" ELSE process' = process
    PROVE  Contents'
<1> USE DEF Contents, foundVars, rcaVars
<1>1. CASE ExtractFeatures(schemas)
  <2>1. extracted' \in BOOLEAN
    BY <1>1 DEF ExtractFeatures
  <2> QED BY <1>1, <2>1 DEF ExtractFeatures
<1>2. CASE DetectAnomaly(found, version)
  BY <1>2 DEF DetectAnomaly, RouteAfterDetection
<1>3. CASE Interpret
  BY <1>3 DEF Interpret, Interpreted, Replies
<1>4. CASE RetrieveSimilarIncidents
  BY <1>4 DEF RetrieveSimilarIncidents
<1>5. CASE RootCauseAnalysis
  BY <1>5 DEF RootCauseAnalysis
<1>6. CASE ProposeRemediation
  BY <1>6 DEF ProposeRemediation
<1>7. CASE Finalize
  BY <1>7 DEF Finalize, Limitations
<1> QED BY <1>1, <1>2, <1>3, <1>4, <1>5, <1>6, <1>7 DEF RunNode

LEMMA ContentsStep == Contents /\ [Next]_vars => Contents'
<1> SUFFICES ASSUME Contents, [Next]_vars PROVE Contents'
  OBVIOUS
<1>1. CASE InvokeRecord
  BY <1>1 DEF InvokeRecord, Invoke, Fresh, Contents, detectorVars, loaderVars
<1>2. CASE RunGraph
  <2>1. IF node' = "crashed" THEN process' = "down" ELSE process' = process
    BY <1>2 DEF RunGraph, Fall
  <2> QED BY <1>2, <2>1, NodeKeepsContents DEF RunGraph
<1>3. CASE Start
  BY <1>3 DEF Start, Fresh, Contents
<1>4. CASE Provide \/ Load
  <2>1. process' = process \/ process = "loading"
    BY <1>4 DEF Provide, Load, Upgrade, Train, StartTraining, BeginModel, EndModel,
        BeginMetadata, EndMetadata, EndTraining, KillTraining, LoadFiles, FindNoModel, AcceptMetadata,
        RejectMetadata, ReadModel, loaderVars
  <2>2. process = "loading" => node = "idle"
    BY DEF Contents
  <2> QED BY <1>4, <2>1, <2>2 DEF Provide, Load, workflowVars, foundVars, rcaVars, Contents
<1>5. CASE UNCHANGED vars
  BY <1>5 DEF vars, detectorVars, loaderVars, workflowVars, foundVars, rcaVars, Contents
<1> QED BY <1>1, <1>2, <1>3, <1>4, <1>5 DEF Next

\* A conclusion names a known fault, or none, and a service.
LEMMA AnalysisHasType ==
    ASSUME NEW r \in Records, NEW found \in Retrievals \cup {<<>>}
    PROVE  Analyze(r.service, r.metrics, found) \in AnalysisType
<1>1. r.service \in Targets /\ \A f \in Faults \cup {"unknown"} : RootCause[f] \in Targets
  BY DEF Targets, RootCause, Faults
<1>2. CASE Matches(r.service, r.metrics) = {}
  <2>1. found # <<>> => found[1] \in Faults \cup {"unknown"}
    <3> SUFFICES ASSUME found # <<>> PROVE found[1] \in Faults \cup {"unknown"}
      OBVIOUS
    <3>1. found \in Seq(Faults \cup {"unknown"}) /\ found # <<>>
      OBVIOUS
    <3>2. Len(found) \in Nat /\ Len(found) # 0
      BY <3>1
    <3> QED BY <3>1, <3>2
  <2> QED BY <1>1, <1>2, <2>1 DEF Analyze, ByRetrieval, Conclusion, AnalysisType
<1>3. CASE Matches(r.service, r.metrics) # {}
  <2>1. Best(r.service, r.metrics) \in Faults
    BY <1>3, BestIsMatch DEF Matches
  <2> QED BY <1>1, <1>3, <2>1 DEF Analyze, BySignature, Conclusion, AnalysisType
<1> QED BY <1>2, <1>3

LEMMA ProposalHasType == \A a \in AnalysisType : Propose(a) \in ProposalType
<1>1. \A f \in Faults : Remedy[f] \in ProposalType
  BY DEF Faults, Remedy, ProposalType, Targets
<1> QED BY <1>1 DEF Propose, ProposalType, AnalysisType

\* Every variable of the orchestrator keeps its type: a conclusion names a known fault
\* or none, a proposal a service, and the graph runs in a process that is ready.
THEOREM TypeCorrect == Spec => []TypeOK
<1>1. Init => Contents /\ PathInv
  BY DEF Init, WorkflowInit, PathInv, Contents
<1>2. Spec => [](FilesInv /\ GraphInv /\ PathInv /\ Contents)
  BY <1>1, FilesInvariant, GraphInvariant, PathStep, ContentsStep, PTL DEF Spec
<1>3. ASSUME FilesInv, GraphInv, PathInv, Contents PROVE TypeOK
  <2>1. analysis # Nothing => analysis \in AnalysisType
    BY <1>3, AnalysisHasType DEF GraphInv, Contents
  <2>2. proposal # Nothing => proposal \in ProposalType
    BY <1>3, <2>1, ProposalHasType DEF GraphInv
  <2>3. DetectorsTypeOK
    BY <1>3 DEF FilesInv
  <2> QED BY <1>3, <2>1, <2>2, <2>3 DEF TypeOK, Contents, GraphInv, PathInv
<1> QED BY <1>2, <1>3, PTL
-----------------------------------------------------------------------------
\* Votes.

LEMMA VotesAreNat ==
    ASSUME NEW found, NEW S, found \in Seq(S), NEW f
    PROVE  /\ Votes(found, f) \in Nat
           /\ (\A i \in DOMAIN found : found[i] # f) => Votes(found, f) = 0
<1> DEFINE T == {i \in DOMAIN found : found[i] = f}
<1>1. DOMAIN found = 1..Len(found) /\ Len(found) \in Nat
  OBVIOUS
<1>2. IsFiniteSet(1..Len(found))
  BY <1>1, FS_Interval
<1>3. IsFiniteSet(T)
  BY <1>1, <1>2, FS_Subset
<1>4. Cardinality(T) \in Nat
  BY <1>3, FS_CardinalityType
<1>5. (\A i \in DOMAIN found : found[i] # f) => Cardinality(T) = 0
  BY FS_EmptySet
<1> QED BY <1>4, <1>5 DEF Votes

\* The fault type that is voted for is one that was retrieved, and none was retrieved
\* more often.
LEMMA TopVotedWins ==
    ASSUME NEW found, NEW S, found \in Seq(S), found # <<>>
    PROVE  /\ \E i \in DOMAIN found : found[i] = TopVoted(found)
           /\ \A f : Votes(found, f) <= Votes(found, TopVoted(found))
<1> DEFINE V(i) == Votes(found, found[i])
           B(i, j) == V(i) > V(j) \/ (V(i) = V(j) /\ i <= j)
           First(k) == \E i \in 1..k : \A j \in 1..k : B(i, j)
           Firsts == {k \in Nat : k + 1 <= Len(found) => First(k + 1)}
<1>1. DOMAIN found = 1..Len(found) /\ Len(found) \in Nat /\ Len(found) # 0
  OBVIOUS
<1>2. \A i \in 1..Len(found) : V(i) \in Nat
  BY VotesAreNat
<1> HIDE DEF V
<1>3. 0 \in Firsts
  <2>1. 0 + 1 <= Len(found) => First(0 + 1)
    BY <1>2
  <2> HIDE DEF First
  <2> QED BY <2>1
<1>4. ASSUME NEW k \in Nat, k \in Firsts PROVE k + 1 \in Firsts
  <2> SUFFICES ASSUME k + 2 <= Len(found) PROVE First(k + 2)
    <3> HIDE DEF First
    <3> QED OBVIOUS
  <2>1. First(k + 1)
    <3> HIDE DEF First
    <3> QED BY <1>1, <1>4
  <2>2. PICK i \in 1..(k + 1) : \A j \in 1..(k + 1) : B(i, j)
    BY <2>1
  <2>3. /\ i \in 1..(k + 2) /\ k + 2 \in 1..(k + 2) /\ V(i) \in Nat /\ V(k + 2) \in Nat
        /\ \A j \in 1..(k + 2) : V(j) \in Nat /\ (j \in 1..(k + 1) \/ j = k + 2)
    BY <1>1, <1>2
  <2>4. CASE B(i, k + 2)
    BY <2>2, <2>3, <2>4
  <2>5. CASE ~ B(i, k + 2)
    <3>1. \A j \in 1..(k + 2) : B(k + 2, j)
      BY <2>2, <2>3, <2>5
    <3> QED BY <2>3, <3>1
  <2> QED BY <2>4, <2>5
<1>5. First(Len(found))
  <2> HIDE DEF First
  <2>1. Nat \subseteq Firsts
    <3> HIDE DEF Firsts
    <3> QED BY <1>3, <1>4, SetInduction
  <2>2. Len(found) - 1 \in Nat
    BY <1>1
  <2>3. Len(found) - 1 \in Firsts
    BY <2>1, <2>2
  <2> QED BY <1>1, <2>3
<1>6. PICK i \in DOMAIN found : /\ \A j \in DOMAIN found : B(i, j)
                                /\ TopVoted(found) = found[i]
  <2> DEFINE P(n) == \A j \in DOMAIN found : B(n, j)
  <2>1. \E n \in DOMAIN found : P(n)
    BY <1>1, <1>5
  <2>2. TopVoted(found) = found[CHOOSE n \in DOMAIN found : P(n)]
    BY DEF TopVoted, V
  <2> HIDE DEF P
  <2>3. PICK n \in DOMAIN found : P(n) /\ n = (CHOOSE m \in DOMAIN found : P(m))
    BY <2>1
  <2> QED BY <2>2, <2>3 DEF P
<1>7. ASSUME NEW f PROVE Votes(found, f) <= Votes(found, found[i])
  <2>1. Votes(found, found[i]) = V(i) /\ V(i) \in Nat
    BY <1>1, <1>2 DEF V
  <2>2. CASE \E j \in DOMAIN found : found[j] = f
    <3>1. PICK j \in DOMAIN found : found[j] = f
      BY <2>2
    <3>2. Votes(found, f) = V(j) /\ V(j) \in Nat
      BY <1>1, <1>2, <3>1 DEF V
    <3> QED BY <1>6, <2>1, <3>2
  <2>3. CASE \A j \in DOMAIN found : found[j] # f
    <3>1. Votes(found, f) = 0
      BY <2>3, VotesAreNat
    <3> QED BY <2>1, <3>1
  <2> QED BY <2>2, <2>3
<1> QED BY <1>6, <1>7

\* A conclusion of high confidence stands on both legs (rca/analyzer.py:111-118): the
\* fault's metric is above its threshold and no other comes before it, and its type is
\* among the incidents retrieved and no other was retrieved more often.
HighIsEarned ==
    analysis # Nothing /\ analysis.confidence = "high" =>
        /\ analysis.fault \in Matches(record.service, record.metrics)
        /\ \A g \in Matches(record.service, record.metrics) :
              Before(record.metrics, analysis.fault, g)
        /\ \E i \in DOMAIN incidents : incidents[i] = analysis.fault
        /\ \A f \in Faults \cup {"unknown"} :
              Votes(incidents, f) <= Votes(incidents, analysis.fault)

\* Every conclusion of high confidence is earned, whatever is retrieved.
THEOREM HighConfidenceIsEarned == Spec => []HighIsEarned
<1>1. ASSUME GraphInv, Contents, analysis # Nothing, analysis.confidence = "high"
      PROVE  /\ Matches(record.service, record.metrics) # {}
             /\ analysis.fault = Best(record.service, record.metrics)
             /\ incidents # <<>> /\ analysis.fault = TopVoted(incidents)
  BY <1>1 DEF GraphInv, Analyze, BySignature, ByRetrieval, Conclusion
<1>2. ASSUME GraphInv, Contents, analysis # Nothing, analysis.confidence = "high"
      PROVE  /\ analysis.fault \in Matches(record.service, record.metrics)
             /\ \A g \in Matches(record.service, record.metrics) :
                   Before(record.metrics, analysis.fault, g)
             /\ \E i \in DOMAIN incidents : incidents[i] = analysis.fault
             /\ \A f : Votes(incidents, f) <= Votes(incidents, analysis.fault)
  <2>1. /\ record.metrics \in [Faults -> Nat]
        /\ incidents \in Seq(Faults \cup {"unknown"})
    BY <1>1, <1>2 DEF GraphInv, Contents
  <2>2. Matches(record.service, record.metrics) \in SUBSET Faults
    BY DEF Matches
  <2>3. \E f \in Matches(record.service, record.metrics) :
            \A g \in Matches(record.service, record.metrics) : Before(record.metrics, f, g)
    BY <1>1, <1>2, <2>1, <2>2, OneIsFirst
  <2>4. /\ analysis.fault \in Matches(record.service, record.metrics)
        /\ \A g \in Matches(record.service, record.metrics) :
              Before(record.metrics, analysis.fault, g)
    BY <1>1, <1>2, <2>3 DEF Best
  <2> QED BY <1>1, <1>2, <2>1, <2>4, TopVotedWins
<1>3. GraphInv /\ Contents => HighIsEarned
  BY <1>2 DEF HighIsEarned
<1>4. Init => Contents
  BY DEF Init, WorkflowInit, Contents
<1>5. Spec => [](GraphInv /\ Contents)
  BY <1>4, GraphInvariant, ContentsStep, PTL DEF Spec
<1> QED BY <1>3, <1>5, PTL

-----------------------------------------------------------------------------
\* Progress.

\* The nodes in the order of the graph's edges (graph/workflow.py:210-220).
Position == [n \in {"extract_features", "detect_anomaly", "interpret",
                    "retrieve_similar_incidents", "root_cause_analysis",
                    "propose_remediation", "finalize", "done", "crashed"} |->
    CASE n = "extract_features" -> 1 [] n = "detect_anomaly" -> 2 [] n = "interpret" -> 3
      [] n = "retrieve_similar_incidents" -> 4 [] n = "root_cause_analysis" -> 5
      [] n = "propose_remediation" -> 6 [] n = "finalize" -> 7
      [] n \in {"done", "crashed"} -> 8]

\* While a record is in the graph its node runs, and the graph goes on along its
\* edges with the same record, or nothing of its state changes.
GraphAdvances ==
    node \notin {"idle", "done", "crashed"} =>
        \/ RunGraph /\ Position[node'] > Position[node] /\ record' = record
        \/ UNCHANGED workflowVars

\* No node is visited twice for one record, and no upgrade, training or restart touches
\* a graph that is running: RecordIsDecided is lost only if a node waits for ever.
THEOREM GraphOnlyAdvances == Spec => [][GraphAdvances]_vars
<1>1. ASSUME Contents, Next, node \notin {"idle", "done", "crashed"}
      PROVE  \/ RunGraph /\ Position[node'] > Position[node] /\ record' = record
             \/ UNCHANGED workflowVars
  <2>1. process = "ready"
    BY <1>1 DEF Contents
  <2>2. CASE RunGraph
    <3> USE DEF Position
    <3>1. PICK schemas, found, version : RunNode(schemas, found, version)
      BY <2>2 DEF RunGraph
    <3>2. CASE ExtractFeatures(schemas) \/ DetectAnomaly(found, version)
      BY <2>2, <3>2 DEF ExtractFeatures, DetectAnomaly, RouteAfterDetection
    <3>3. CASE Interpret \/ RetrieveSimilarIncidents
      BY <2>2, <3>3 DEF Interpret, RetrieveSimilarIncidents
    <3>4. CASE RootCauseAnalysis \/ ProposeRemediation \/ Finalize
      BY <2>2, <3>4 DEF RootCauseAnalysis, ProposeRemediation, Finalize
    <3> QED BY <3>1, <3>2, <3>3, <3>4 DEF RunNode
  <2>3. CASE Provide \/ Load
    BY <2>3 DEF Provide, Load
  <2>4. ~ InvokeRecord /\ ~ Start
    BY <1>1, <2>1 DEF InvokeRecord, Invoke, Start, StartProcess
  <2> QED BY <1>1, <2>2, <2>3, <2>4 DEF Next
<1>2. Contents /\ [Next]_vars => [GraphAdvances]_vars
  BY <1>1 DEF GraphAdvances
<1>3. Init => Contents
  BY DEF Init, WorkflowInit, Contents
<1>4. Spec => []Contents
  BY <1>3, ContentsStep, PTL DEF Spec
<1> QED BY <1>2, <1>4, PTL DEF Spec
=============================================================================
