----------------------------- MODULE Orchestrator -----------------------------
(***************************************************************************)
(* The process that loads the detectors once, builds the graph and invokes *)
(* it for one record after another (graph/workflow.py: load_all_detectors, *)
(* build_graph), while trainings and new versions of the code come and go. *)
(***************************************************************************)
EXTENDS Detectors, Workflow

vars == <<detectorVars, workflowVars>>

Init == DetectorsInit /\ WorkflowInit

InvokeRecord ==
    /\ process = "ready" /\ \E r \in Records : Invoke(r)
    /\ UNCHANGED detectorVars

\* With an exception the process is gone, its detectors with it.
RunGraph ==
    /\ process = "ready" /\ RunNode(Services, detectors, running)
    /\ IF node' = "crashed" THEN Fall ELSE UNCHANGED <<process, toLoad, confirmed, detectors>>
    /\ UNCHANGED <<schema, fileVars, trainerVars, running>>

\* It is started again.
Start ==
    /\ StartProcess
    /\ node' = "idle" /\ record' = Nothing /\ Fresh

\* Models and code on disk change whatever the process does.
Provide == (Upgrade \/ Train) /\ UNCHANGED workflowVars

Load == LoadFiles /\ UNCHANGED workflowVars

Next == InvokeRecord \/ RunGraph \/ Start \/ Provide \/ Load

\* The nodes of one invoke() run without a pause; what they wait for has timeouts
\* (ollama_client.py:34, 56).
Spec == Init /\ [][Next]_vars /\ WF_vars(RunGraph)

-----------------------------------------------------------------------------
Targets == {"auth-service", "payment-service", "ledger-service", "notification-service",
            "unknown"} \cup {r.service : r \in Records}

AnalysisType ==
    [fault : Faults \cup {"unknown", "none"}, root : Targets,
     confidence : {"low", "medium", "high"},
     method : {"metric_signature", "metric_signature+rag_agreement",
               "metric_signature+rag_disagreement", "rag_only", "fallback_unknown"}]

ProposalType ==
    [target : Targets,
     category : {"restore_configuration", "reset_fault_configuration",
                 "release_resources", "investigate_manually"}]

TypeOK ==
    /\ DetectorsTypeOK
    /\ node \in {"idle", "extract_features", "detect_anomaly", "interpret",
                 "retrieve_similar_incidents", "root_cause_analysis",
                 "propose_remediation", "finalize", "done", "crashed"}
    /\ node = "crashed" => process = "down"
    /\ node \notin {"idle", "crashed"} => process = "ready" /\ record \in Records
    /\ extracted \in BOOLEAN /\ narrated \in BOOLEAN
    /\ anomaly \in {"none", "insufficient_data", "no_model", "normal", "anomaly"}
    /\ interpretation \in {"none", "llm_unavailable", "llm_error", "interpreted"}
    /\ retrieval \in {"none", "collection_unavailable", "empty", "retrieved"}
    /\ incidents \in Retrievals \cup {<<>>}
    /\ analysis \in AnalysisType \cup {Nothing} /\ proposal \in ProposalType \cup {Nothing}
    /\ limitations \subseteq {"insufficient_data", "no_model", "llm_unavailable", "llm_error",
                              "collection_unavailable", "empty", "no_narrative",
                              "low_confidence"}

\* rca/analyzer.py:5-12: a matched signature wins over retrieval and language model.
\* Whatever they answer, the fault is the one that is found without them, and they
\* do not make it tentative.
EvidenceOutweighsRetrieval ==
    analysis # Nothing /\ Matches(record.service, record.metrics) # {} =>
        /\ analysis.fault = Analyze(record.service, record.metrics, <<>>).fault
        /\ analysis.confidence # "low"

\* remediation/proposer.py:88-94: an action other than to investigate is proposed only
\* on evidence of its own.  The record itself shows a metric above its threshold, of
\* a fault whose root cause is the target, whatever was retrieved or narrated.
RemedyNeedsMetric ==
    proposal # Nothing /\ proposal.category # "investigate_manually" =>
        \E f \in Matches(record.service, record.metrics) : proposal.target = RootCause[f]

\* graph/workflow.py:145-147: a result without limitations has everything: a scored
\* record and, if it is anomalous, the model's interpretation, incidents, a
\* narrative and a conclusion that is not a guess.
LimitationsTellAll ==
    node = "done" /\ limitations = {} =>
        /\ anomaly \in {"normal", "anomaly"}
        /\ anomaly = "anomaly" =>
              /\ interpretation = "interpreted" /\ retrieval = "retrieved" /\ narrated
              /\ analysis.confidence # "low"

\* Every record that is taken up is decided, or ends the process: no answer, and no
\* missing one, of detectors, language model or collection leaves the graph going
\* round (graph/workflow.py:210-220).
RecordIsDecided == node = "extract_features" ~> node \in {"done", "crashed"}
=============================================================================
