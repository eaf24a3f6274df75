------------------------------- MODULE MCEgress ------------------------------
(***************************************************************************)
(* One run for semantic egress: the consent to send memory to an embedding *)
(* provider, and the delivery of the consent's events. They share no       *)
(* state. A behaviour is a behaviour of one of them, chosen by subject in  *)
(* the initial state; the other stays in its initial state.                *)
(***************************************************************************)
EXTENDS SemanticEgressConsent, SemanticEgressOutbox, TLC

VARIABLE subject

EgressInit == subject \in {"consent", "outbox"} /\ Init /\ OutboxInit

EgressNext ==
    \/ subject = "consent" /\ Next /\ UNCHANGED <<subject, outboxVars>>
    \/ subject = "outbox" /\ OutboxNext /\ UNCHANGED <<subject, vars>>

EgressSpec == EgressInit /\ [][EgressNext]_<<subject, vars, outboxVars>>

\* Callers, who are the workers too, and connections are compared for equality only.
Symmetry == Permutations(Callers) \cup Permutations(Connections)
=============================================================================
