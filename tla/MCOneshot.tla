----------------------------- MODULE MCOneshot -----------------------------
(***************************************************************************)
(* Instances of Oneshot for TLC: two targets behind one slot.              *)
(***************************************************************************)
EXTENDS Oneshot, TLC

CONSTANTS web, db

MCList == <<web, db>>
MCTimeout == [t \in Targets |-> 1]
=============================================================================
