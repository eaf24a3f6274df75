----------------------- MODULE MCDurableDelegationTurn -----------------------
(* Finite instances of DurableDelegationTurn for TLC. *)
EXTENDS DurableDelegationTurn, TLC
=============================================================================
