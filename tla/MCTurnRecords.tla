---------------------------- MODULE MCTurnRecords ----------------------------
(***************************************************************************)
(* One run for the two durable descriptions of an operator's turn: the     *)
(* delegation turn with its continuation, actor and run registry, and the  *)
(* execution envelope.  They share no state.  A behaviour is a behaviour   *)
(* of one of them, chosen by subject in the initial state; the other stays *)
(* in its initial state.                                                   *)
(***************************************************************************)
EXTENDS DurableDelegationTurn, DurableExecutionEnvelope

VARIABLE subject

RecordsInit ==
  /\ subject \in {"turn", "envelope"} /\ Init /\ EnvelopeInit
  /\ subject = "turn" => now = 0

RecordsNext ==
  \/ subject = "turn" /\ Next /\ UNCHANGED <<subject, envelopeVars>>
  \/ subject = "envelope" /\ EnvelopeNext /\ UNCHANGED <<subject, vars>>

\* The fairness of DurableDelegationTurn; the envelope needs none.
RecordsSpec ==
  /\ RecordsInit /\ [][RecordsNext]_<<subject, envelopeVars, vars>>
  /\ WF_vars(subject = "turn" /\ Step)
=============================================================================
