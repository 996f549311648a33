---------------------------- MODULE MCExperiment ----------------------------
(***************************************************************************)
(* Small instances of Experiment for TLC: ledger-service is the one polled *)
(* service, the target of the db-lock fault and a bystander of the         *)
(* auth-key-error fault.                                                   *)
(***************************************************************************)
EXTENDS Experiment

CONSTANTS auth, ledger

MCPolled == <<ledger>>
=============================================================================
