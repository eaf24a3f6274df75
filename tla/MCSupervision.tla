---------------------------- MODULE MCSupervision ----------------------------
(***************************************************************************)
(* One run for the three components around the process supervisor: the     *)
(* restart budget, the restart receipt and the SQLite lease.  They share   *)
(* no state.  A behaviour is a behaviour of one of them, chosen by subject *)
(* in the initial state; the other two stay in their initial states.       *)
(***************************************************************************)
EXTENDS RestartBudget, RestartReceipt, PrivateSqliteLease

VARIABLE subject

\* two clients in processes of their own
OwnProcess == [c \in Clients |-> IF c = "a" THEN "p" ELSE "q"]

allVars == <<subject, vars, receiptVars, leaseVars>>

SupervisionInit ==
    /\ subject \in {"budget", "receipt", "lease"}
    /\ Init /\ ReceiptInit /\ LeaseInit

SupervisionNext ==
    /\ UNCHANGED subject
    /\ \/ subject = "budget" /\ Next /\ UNCHANGED <<receiptVars, leaseVars>>
       \/ subject = "receipt" /\ ReceiptNext /\ UNCHANGED <<vars, leaseVars>>
       \/ subject = "lease" /\ LeaseNext /\ UNCHANGED <<vars, receiptVars>>

SupervisionSpec == SupervisionInit /\ [][SupervisionNext]_allVars

\* Each component's variables keep their types (Codes, States, Intents, Anchors in the modules).
TypesAreKept == TypeOK /\ ReceiptTypeOK /\ LeaseTypeOK
=============================================================================
