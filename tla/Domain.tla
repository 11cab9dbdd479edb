------------------------------- MODULE Domain -------------------------------
(***************************************************************************)
(* What the modules of the process share: the targets and, of the fields   *)
(* of a domain.Target, the one that decides which client probes it.        *)
(***************************************************************************)
CONSTANTS
  Targets,
  Setting     \* Setting[t]: the proxy setting of target t

Settings == {Setting[t] : t \in Targets}
=============================================================================
