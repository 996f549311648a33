------------------------------ MODULE Diagnosis ------------------------------
(***************************************************************************)
(* The deterministic part of a diagnosis: rca/signatures.py,               *)
(* rca/analyzer.py and remediation/proposer.py, with the service map of    *)
(* dataset_tools/config.py.                                                *)
(*                                                                         *)
(* Each fault type has one primary metric, so a record's metrics are a     *)
(* function on fault types.  Memory counts in halves of 10^6 bytes, errors *)
(* in halves, connections and milliseconds as they are.  A retrieved       *)
(* incident is its fault type, "unknown" if its metadata lacks one.        *)
(***************************************************************************)
EXTENDS Naturals, FiniteSets, Sequences

Faults == {"memory-leak", "db-lock", "auth-key-error", "notification-latency"}

\* The order of FAULT_SIGNATURES.
Rank == [f \in Faults |->
    CASE f = "memory-leak" -> 1 [] f = "db-lock" -> 2
      [] f = "auth-key-error" -> 3 [] f = "notification-latency" -> 4]

\* 1.3 * 45 * 10^6 bytes, 1 connection, half an error, 500 ms.
Threshold == [f \in Faults |->
    CASE f = "memory-leak" -> 117 [] f = "db-lock" -> 1
      [] f = "auth-key-error" -> 1 [] f = "notification-latency" -> 500]

\* FAULT_SERVICE_MAP.
RootCause == [f \in Faults \cup {"unknown"} |->
    CASE f = "memory-leak" -> "payment-service" [] f = "db-lock" -> "ledger-service"
      [] f = "auth-key-error" -> "auth-service"
      [] f = "notification-latency" -> "notification-service"
      [] f = "unknown" -> "unknown"]

Symptom == [f \in Faults |->
    IF f = "db-lock" THEN "ledger-service" ELSE "payment-service"]

-----------------------------------------------------------------------------
\* match_signatures.
Matches(service, metrics) ==
    {f \in Faults : Symptom[f] = service /\ metrics[f] > Threshold[f]}

\* excess_ratio, observed / threshold, in parts of 58500, which each threshold divides.
Excess(metrics, f) == metrics[f] * (58500 \div Threshold[f])

\* sorted() is stable.
Before(metrics, f, g) ==
    \/ Excess(metrics, f) > Excess(metrics, g)
    \/ Excess(metrics, f) = Excess(metrics, g) /\ Rank[f] <= Rank[g]

Best(service, metrics) ==
    CHOOSE f \in Matches(service, metrics) :
        \A g \in Matches(service, metrics) : Before(metrics, f, g)

\* Counter.most_common: of fault types with as many votes, the one met first.
Votes(incidents, f) == Cardinality({i \in DOMAIN incidents : incidents[i] = f})

TopVoted(incidents) ==
    LET top == CHOOSE i \in DOMAIN incidents : \A j \in DOMAIN incidents :
                  LET mine == Votes(incidents, incidents[i])
                      other == Votes(incidents, incidents[j])
                  IN  mine > other \/ (mine = other /\ i <= j)
    IN  incidents[top]

Conclusion(fault, root, confidence, method) ==
    [fault |-> fault, root |-> root, confidence |-> confidence, method |-> method]

BySignature(fault, incidents) ==
    IF incidents = <<>>
    THEN Conclusion(fault, RootCause[fault], "medium", "metric_signature")
    ELSE IF TopVoted(incidents) = fault
    THEN Conclusion(fault, RootCause[fault], "high", "metric_signature+rag_agreement")
    ELSE Conclusion(fault, RootCause[fault], "medium", "metric_signature+rag_disagreement")

ByRetrieval(service, incidents) ==
    IF incidents = <<>>
    THEN Conclusion("none", service, "low", "fallback_unknown")
    ELSE Conclusion(incidents[1], RootCause[incidents[1]], "low", "rag_only")

\* Mutant of Analyze: the incidents outvote the metrics.
AnalyzeByVote(service, metrics, incidents) ==
    IF Matches(service, metrics) = {} THEN ByRetrieval(service, incidents)
    ELSE IF incidents # <<>> /\ TopVoted(incidents) \in Faults
    THEN BySignature(TopVoted(incidents), incidents)
    ELSE BySignature(Best(service, metrics), incidents)

\* analyze(), but for the words.
Analyze(service, metrics, incidents) ==
    IF Matches(service, metrics) = {} THEN ByRetrieval(service, incidents)
    ELSE BySignature(Best(service, metrics), incidents)

-----------------------------------------------------------------------------
\* _FAULT_REMEDIATION_TEMPLATES.
Remedy == [f \in Faults |->
    CASE f = "memory-leak" -> [target |-> "payment-service",
                               category |-> "reset_fault_configuration"]
      [] f = "db-lock" -> [target |-> "ledger-service", category |-> "release_resources"]
      [] f = "auth-key-error" -> [target |-> "auth-service",
                                  category |-> "restore_configuration"]
      [] f = "notification-latency" -> [target |-> "notification-service",
                                        category |-> "reset_fault_configuration"]]

\* Mutant of Propose: any known fault has its template used.
ProposeAny(analysis) ==
    IF analysis.fault \in Faults THEN Remedy[analysis.fault]
    ELSE [target |-> analysis.root, category |-> "investigate_manually"]

Propose(analysis) ==
    IF analysis.fault \in Faults /\ analysis.confidence # "low"
    THEN Remedy[analysis.fault]
    ELSE [target |-> analysis.root, category |-> "investigate_manually"]
=============================================================================
