------------------------- MODULE ApprovalLifecycle -------------------------
(***************************************************************************)
(* What the durable turn actor promises, without cards, revisions, tokens, *)
(* clocks or restarts: an operation asks once for approval, is decided at  *)
(* most once, runs only when approved, ends at most once, and cannot go    *)
(* back; at most one operation of the installation is open at a time.      *)
(***************************************************************************)
CONSTANT Actors

VARIABLE status

Open == {"asked", "approved", "refused", "running", "stopping"}

Move(a, from, to) == status[a] \in from /\ status' = [status EXCEPT ![a] = to]

Init == status = [a \in Actors |-> "none"]

Ask(a) == (\A b \in Actors : status[b] \notin Open) /\ Move(a, {"none"}, "asked")
Approve(a) == Move(a, {"asked"}, "approved")
Refuse(a) == Move(a, {"asked"}, "refused")
Expire(a) == Move(a, {"asked"}, "denied")
Run(a) == Move(a, {"approved"}, "running")
End(a) == \E kind \in {"completed", "failed", "denied"} : Move(a, {"running"}, kind)
Close(a) == Move(a, {"refused"}, "denied")
Stop(a) == Move(a, {"asked", "approved", "refused", "running"}, "stopping")
Stopped(a) == Move(a, {"stopping"}, "cancelled")

Next ==
  \E a \in Actors :
    \/ Ask(a) \/ Approve(a) \/ Refuse(a) \/ Expire(a) \/ Run(a)
    \/ End(a) \/ Close(a) \/ Stop(a) \/ Stopped(a)

Spec == Init /\ [][Next]_status
=============================================================================
