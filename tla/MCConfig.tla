------------------------------ MODULE MCConfig ------------------------------
(***************************************************************************)
(* Instances of Config for TLC: an HTTPS target, a TCP target and one      *)
(* alerter.                                                                *)
(***************************************************************************)
EXTENDS Config

MCTargets == {"api", "db"}
MCAlerters == {"ops"}
=============================================================================
