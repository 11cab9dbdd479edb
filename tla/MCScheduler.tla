---------------------------- MODULE MCScheduler ----------------------------
(***************************************************************************)
(* Instances of Scheduler for TLC.                                         *)
(***************************************************************************)
EXTENDS Scheduler, TLC

CONSTANTS web, db

MCTimeout == [t \in Targets |-> 1]
MCInterval == [t \in Targets |-> 4]
MCShortInterval == [t \in Targets |-> 1]
=============================================================================
