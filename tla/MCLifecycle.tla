---------------------------- MODULE MCLifecycle ----------------------------
(***************************************************************************)
(* An instance of Lifecycle for TLC: two targets that share one client.    *)
(***************************************************************************)
EXTENDS Lifecycle

CONSTANTS web, api, direct

MCSetting == [t \in Targets |-> direct]
MCMaxChecks == [t \in Targets |-> IF t = web THEN 2 ELSE 1]
=============================================================================
