-------------------------- MODULE MCSupervisedTurn --------------------------
(* Instances of SupervisedTurn for TLC. *)
EXTENDS SupervisedTurn, TLC
=============================================================================
