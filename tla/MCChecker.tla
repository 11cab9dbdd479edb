----------------------------- MODULE MCChecker -----------------------------
(***************************************************************************)
(* Instances of Checker for TLC: one HTTPS target watched for its          *)
(* certificate and one TCP target, under one context.                      *)
(***************************************************************************)
EXTENDS Checker, TLC

CONSTANTS web, db

MCTargets == {web, db}
MCTCPTargets == {db}
MCCertWatched == {web}
MCTimeout == (web :> 2) @@ (db :> 1)
=============================================================================
