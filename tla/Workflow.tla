------------------------------- MODULE Workflow -------------------------------
(***************************************************************************)
(* graph/workflow.py: one raw record goes through the nodes of the graph,  *)
(* one after the other, in one invoke().  The language model and the       *)
(* incident collection are outside: a node takes any answer of theirs.     *)
(* An exception that a node does not catch ends the process.               *)
(***************************************************************************)
EXTENDS Diagnosis

CONSTANTS
    Records,     \* raw records: [service, metrics, complete]
    Retrievals   \* what is found: sequences of fault types, "unknown" for none

ASSUME WorkflowAssumption ==
    /\ \A r \in Records : r.metrics \in [Faults -> Nat] /\ r.complete \in BOOLEAN
    /\ \A q \in Retrievals : q \in Seq(Faults \cup {"unknown"}) /\ q # <<>>

VARIABLES
    node,            \* the node to run, or "idle", "done", "crashed"
    record,          \* raw_record
    extracted,       \* a feature vector could be made
    anomaly,         \* the status, and the verdict, of anomaly_result
    interpretation,  \* the status of llm_interpretation
    retrieval,       \* the status of the retrieval
    incidents,       \* the incidents retrieved, closest first
    analysis,        \* root_cause_analysis
    narrated,        \* it has an llm_reasoning
    proposal,        \* remediation_proposal
    limitations      \* of the result

foundVars == <<retrieval, incidents>>
rcaVars == <<analysis, narrated>>
workflowVars == <<node, record, extracted, anomaly, interpretation, foundVars, rcaVars,
                  proposal, limitations>>

Nothing == [none |-> TRUE]

Fresh ==
    /\ extracted' = FALSE /\ anomaly' = "none" /\ interpretation' = "none"
    /\ retrieval' = "none" /\ incidents' = <<>>
    /\ analysis' = Nothing /\ narrated' = FALSE /\ proposal' = Nothing
    /\ limitations' = {}

WorkflowInit ==
    /\ node = "idle" /\ record = Nothing
    /\ extracted = FALSE /\ anomaly = "none" /\ interpretation = "none"
    /\ retrieval = "none" /\ incidents = <<>>
    /\ analysis = Nothing /\ narrated = FALSE /\ proposal = Nothing /\ limitations = {}

\* invoke(): every run has a state of its own.
Invoke(r) ==
    /\ node \in {"idle", "done"} /\ node' = "extract_features"
    /\ record' = r /\ Fresh

-----------------------------------------------------------------------------
\* None for a service without a schema or if a metric is missing.
ExtractFeatures(schemas) ==
    /\ node = "extract_features" /\ node' = "detect_anomaly"
    /\ extracted' = (record.service \in schemas /\ record.complete)
    /\ UNCHANGED <<record, anomaly, interpretation, foundVars, rcaVars, proposal, limitations>>

\* Mutant of RouteAfterDetection: a record that could not be scored is tried again.
RouteAgain(status) ==
    CASE status = "anomaly" -> "interpret"
      [] status = "normal" -> "finalize"
      [] OTHER -> "extract_features"

\* _route_after_detection, and the edges it chooses from.
RouteAfterDetection(status) == IF status = "anomaly" THEN "interpret" ELSE "finalize"

\* A forest may find any vector anomalous.
Verdicts(detectors) ==
    IF ~ extracted THEN {"insufficient_data"}
    ELSE IF detectors[record.service] = 0 THEN {"no_model"}
    ELSE {"normal", "anomaly"}

\* A forest of a later schema than the version the process runs may have been fitted to
\* another number of features, and then raises.
DetectAnomaly(detectors, version) ==
    /\ node = "detect_anomaly"
    /\ \/ anomaly' \in Verdicts(detectors) /\ node' = RouteAfterDetection(anomaly')
       \/ /\ extracted /\ detectors[record.service] \notin {0, version}
          /\ node' = "crashed" /\ UNCHANGED anomaly
    /\ UNCHANGED <<record, extracted, interpretation, foundVars, rcaVars, proposal, limitations>>

-----------------------------------------------------------------------------
\* What comes of generate() and json.loads(): no answer within the timeout or a
\* bad status; a body that is not JSON; a response that is not JSON; a response
\* that is a number or null, a list or string, an object that lacks a key; the
\* object that was asked for.
Replies == {"unreachable", "broken_body", "text", "number", "list", "partial", "full"}

\* interpret_anomaly, with `in` on whatever the response is.
Interpreted(reply) ==
    CASE reply = "unreachable" -> "llm_unavailable"
      [] reply \in {"text", "list", "partial"} -> "llm_error"
      [] reply = "full" -> "interpreted"

Interpret ==
    /\ node = "interpret"
    /\ \E reply \in Replies :
          IF reply \in {"broken_body", "number"}
          THEN node' = "crashed" /\ UNCHANGED interpretation
          ELSE /\ node' = "retrieve_similar_incidents"
               /\ interpretation' = Interpreted(reply)
    /\ UNCHANGED <<record, extracted, anomaly, foundVars, rcaVars, proposal, limitations>>

\* Whatever query_similar raises is caught, and what reading the Evaluation file
\* raises is not.
RetrieveSimilarIncidents ==
    /\ node = "retrieve_similar_incidents"
    /\ \/ /\ node' = "root_cause_analysis"
          /\ \/ retrieval' \in {"collection_unavailable", "empty"} /\ UNCHANGED incidents
             \/ retrieval' = "retrieved" /\ incidents' \in Retrievals
       \/ node' = "crashed" /\ UNCHANGED foundVars
    /\ UNCHANGED <<record, extracted, anomaly, interpretation, rcaVars, proposal, limitations>>

\* _narrate_with_llm: here a body that is not JSON is caught, and .get() of a
\* list is not.
RootCauseAnalysis ==
    /\ node = "root_cause_analysis"
    /\ \E reply \in Replies :
          IF reply \in {"number", "list"}
          THEN node' = "crashed" /\ UNCHANGED rcaVars
          ELSE /\ node' = "propose_remediation"
               /\ analysis' = Analyze(record.service, record.metrics, incidents)
               /\ narrated' = (reply = "full")
    /\ UNCHANGED <<record, extracted, anomaly, interpretation, foundVars, proposal, limitations>>

ProposeRemediation ==
    /\ node = "propose_remediation" /\ node' = "finalize"
    /\ proposal' = Propose(analysis)
    /\ UNCHANGED <<record, extracted, anomaly, interpretation, foundVars, rcaVars, limitations>>

-----------------------------------------------------------------------------
\* Mutant of Limitations: an empty retrieval is forgotten.
LimitationsButEmpty ==
    ({anomaly} \cap {"insufficient_data", "no_model"})
        \cup ({interpretation} \cap {"llm_unavailable", "llm_error"})
        \cup ({retrieval} \cap {"collection_unavailable"})
        \cup {l \in {"no_narrative"} : analysis # Nothing /\ ~ narrated}
        \cup {l \in {"low_confidence"} : analysis # Nothing /\ analysis.confidence = "low"}

Limitations ==
    ({anomaly} \cap {"insufficient_data", "no_model"})
        \cup ({interpretation} \cap {"llm_unavailable", "llm_error"})
        \cup ({retrieval} \cap {"collection_unavailable", "empty"})
        \cup {l \in {"no_narrative"} : analysis # Nothing /\ ~ narrated}
        \cup {l \in {"low_confidence"} : analysis # Nothing /\ analysis.confidence = "low"}

Finalize ==
    /\ node = "finalize" /\ node' = "done"
    /\ limitations' = Limitations
    /\ UNCHANGED <<record, extracted, anomaly, interpretation, foundVars, rcaVars, proposal>>

RunNode(schemas, detectors, version) ==
    \/ ExtractFeatures(schemas) \/ DetectAnomaly(detectors, version) \/ Interpret
    \/ RetrieveSimilarIncidents \/ RootCauseAnalysis \/ ProposeRemediation \/ Finalize
=============================================================================
