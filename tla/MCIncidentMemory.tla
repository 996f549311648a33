--------------------------- MODULE MCIncidentMemory ---------------------------
(***************************************************************************)
(* Small instances of IncidentMemory for TLC.  The places are those that   *)
(* random.Random("42:auth-key-error") and random.Random("42:memory-leak")  *)
(* shuffle to the front.                                                   *)
(***************************************************************************)
EXTENDS IncidentMemory, TLC

MCChosen(t, n) ==
    CASE n < 2 -> {}
      [] t = 1 -> (2 :> {1} @@ 3 :> {3} @@ 4 :> {2} @@ 5 :> {2})[n]
      [] t = 2 -> (2 :> {1} @@ 3 :> {1} @@ 4 :> {2} @@ 5 :> {2} @@ 6 :> {2, 3})[n]

MCMaxReals == <<3, 0>>
MCMaxRealsBoth == <<3, 4>>
=============================================================================
