---------------------------- MODULE MCOrchestrator ----------------------------
(***************************************************************************)
(* A small instance of Orchestrator for TLC.                               *)
(***************************************************************************)
EXTENDS Orchestrator, TLC

Quiet == [f \in Faults |-> 0]

Record(service, metrics, complete) ==
    [service |-> service, metrics |-> metrics, complete |-> complete]

\* Three signatures at once with a tie between two; one that retrieval may contradict;
\* none, though a metric is at its threshold; a gap; a service without a model.
MCRecords ==
    {Record("payment-service", "memory-leak" :> 234 @@ "auth-key-error" :> 2
                                  @@ "notification-latency" :> 501 @@ Quiet, TRUE),
     Record("payment-service", "notification-latency" :> 6000 @@ Quiet, TRUE),
     Record("payment-service", "notification-latency" :> 500 @@ Quiet, TRUE),
     Record("payment-service", Quiet, FALSE),
     Record("ledger-service", "db-lock" :> 9 @@ Quiet, TRUE)}

\* Agreement for one record and disagreement for another, with a tie in the votes.
MCRetrievals ==
    {<<"notification-latency">>, <<"unknown", "memory-leak", "memory-leak">>,
     <<"auth-key-error", "memory-leak">>}
=============================================================================
