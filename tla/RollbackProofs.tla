---------------------------- MODULE RollbackProofs ----------------------------
(***************************************************************************)
(* Proofs about the two components that undo what they did when it fails:  *)
(* the follow-ups of a digest and the installers of the sidecars, for      *)
(* every set of executors, installer processes and releases, and for every *)
(* bound on time, claims, operations and failures.                         *)
(*                                                                         *)
(* FollowupsAreSafe speaks of the row and of the world.  It is inductive   *)
(* only together with where the executors are: Forward ties the call that  *)
(* performs the action to its effect, Backward the rollback to the failed  *)
(* verification it answers, Approved the approval to both.                 *)
(*                                                                         *)
(* ReleaseIsSound speaks of what a finished operation leaves.  It is       *)
(* inductive only together with what an unfinished one has done so far:    *)
(* Midway compares the disk with what the process found when it started,   *)
(* VouchedFor covers the tree that is about to get a name.                 *)
(***************************************************************************)
EXTENDS MonitoringFollowups, SidecarRelease, TLAPS

(***************************************************************************)
(* The follow-ups of a digest.                                             *)
(***************************************************************************)

\* The calls of execute, and the effects on the world.
Phases == {"idle", "precondition", "execute", "recoverReceipt", "verify", "rollback", "recoverRollback",
           "verifyRollback"}
Calls == [phase: Phases, tok: 0..MaxClaims, landed: BOOLEAN]
Effects == [action: Nat, rollback: Nat, called: BOOLEAN]
Surroundings == [now: 0..MaxTime, up: BOOLEAN, auth: BOOLEAN]
Budgets == [claims: 0..MaxClaims, mishaps: 0..MaxMishaps]

FollowupTyped ==
    /\ row \in ProposalRow /\ exec \in [Executors -> Calls] /\ done \in Effects /\ card \in BOOLEAN
    /\ ctx \in Surroundings /\ budget \in Budgets

\* An executor that may start the action, or has.
InCall(e) == exec[e].phase \in {"precondition", "execute"}

\* The states in which the action was not started, and those a rollback can be found in.
Unstarted == Early \cup {"none", "paused", "rejected", "expired", "blocked"}
Reversing == {"rollback-pending", "rolled-back", "rollback-failed", "quarantined", "reconciliation-required"}

\* Towards the action: one executor at most is in the call that performs it, none while the row says
\* that nothing was started, and the effect is there exactly when it landed.
Forward ==
    /\ \A e, f \in Executors : InCall(e) /\ InCall(f) => e = f
    /\ row.status \in Unstarted => done.action = 0 /\ \A e \in Executors : ~InCall(e)
    /\ \A e \in Executors :
        /\ exec[e].phase = "precondition" => done.action = 0
        /\ exec[e].phase = "execute" => done.action = IF exec[e].landed THEN 1 ELSE 0
    /\ done.action \in {0, 1}
    /\ row.status \in {"verifying", "verified"} => done.action = 1 /\ done.rollback = 0 /\ row.receipt
    /\ row.status = "rollback-pending" => done.action = 1

\* Whatever has started, or is about to, was approved.
Approved ==
    /\ row.status \in {"approved"} \cup Working => row.approval
    /\ row.status = "paused" /\ row.from = "approved" => row.approval
    /\ done.action = 1 => row.approval
    /\ \A e \in Executors : InCall(e) => row.approval

\* Back again: one executor at most rolls back, only after a failed verification was saved.
Backward ==
    /\ \A e, f \in Executors : exec[e].phase = "rollback" /\ exec[f].phase = "rollback" => e = f
    /\ \A e \in Executors :
        /\ exec[e].phase = "rollback" =>
              /\ row.status \in Reversing /\ done.action = 1
              /\ done.rollback = IF exec[e].landed THEN 1 ELSE 0
        /\ exec[e].phase = "verifyRollback" => done.rollback = 1
    /\ done.rollback \in {0, 1}
    /\ done.rollback = 1 => row.status \in Reversing /\ done.action = 1
    /\ row.status = "rolled-back" => done.action = 1 /\ done.rollback = 1

Progress == Forward /\ Approved /\ Backward

\* The fields of a row the store accepts.
LEMMA RowFields ==
    ASSUME NEW r \in ProposalRow
    PROVE  /\ r.status \in Statuses /\ r.from \in {"none"} \cup Early /\ r.approval \in BOOLEAN
           /\ r.receipt \in BOOLEAN /\ r.tok \in 0..MaxClaims /\ r.until \in 0..(MaxTime + ClaimMs)
           /\ r.status = "paused" => r.from # "none"
BY DEF ProposalRow

\* Giving the claim back leaves the state, the approval and the receipt.
LEMMA Releasing ==
    ASSUME NEW r \in ProposalRow
    PROVE  /\ release(r) \in ProposalRow
           /\ release(r).status = r.status /\ release(r).from = r.from
           /\ release(r).approval = r.approval /\ release(r).receipt = r.receipt
<1>1. 0 \in 0..MaxClaims /\ 0 \in 0..(MaxTime + ClaimMs)
  BY FollowupBounds
<1>2. /\ r.status \in Statuses /\ r.from \in {"none"} \cup Early /\ r.approval \in BOOLEAN
      /\ r.receipt \in BOOLEAN /\ r.status = "paused" => r.from # "none"
  BY RowFields
<1> QED
  BY <1>1, <1>2, Zenon DEF ProposalRow, release

\* A state other than paused can be written into any row.
LEMMA StatusUpdates ==
    ASSUME NEW r \in ProposalRow, NEW s \in Statuses \ {"paused"}
    PROVE  /\ [r EXCEPT !.status = s] \in ProposalRow
           /\ [r EXCEPT !.status = s].status = s /\ [r EXCEPT !.status = s].from = r.from
           /\ [r EXCEPT !.status = s].approval = r.approval /\ [r EXCEPT !.status = s].receipt = r.receipt
BY DEF ProposalRow

\* A pause is written together with the state it came from.
LEMMA PauseUpdates ==
    ASSUME NEW r \in ProposalRow, NEW s \in Early
    PROVE  LET q == [r EXCEPT !.status = "paused", !.from = s] IN
           /\ q \in ProposalRow /\ q.status = "paused" /\ q.from = s
           /\ q.approval = r.approval /\ q.receipt = r.receipt
BY Zenon DEF ProposalRow, Statuses, Early

\* What the operations on a row leave of it.
Moved(q, r, s) ==
    q \in ProposalRow /\ q.status = s /\ q.from = r.from /\ q.approval = r.approval /\ q.receipt = r.receipt

\* quarantine, pause, pauseClaimedApproval and a guarded update change the state and the claim only.
LEMMA RowMoves ==
    ASSUME NEW r \in ProposalRow
    PROVE  /\ Moved(quarantine(r), r, "quarantined")
           /\ \A s \in Statuses \ {"paused"} : Moved([release(r) EXCEPT !.status = s], r, s)
           /\ r.status \in Early =>
                /\ pause(r) \in ProposalRow /\ pause(r).status = "paused" /\ pause(r).from = r.status
                /\ pause(r).approval = r.approval /\ pause(r).receipt = r.receipt
           /\ r.status \notin Early => Moved(pause(r), r, "reconciliation-required")
           /\ /\ pauseClaimedApproval(r) \in ProposalRow /\ pauseClaimedApproval(r).status = "paused"
              /\ pauseClaimedApproval(r).from = "approved"
              /\ pauseClaimedApproval(r).approval = r.approval /\ pauseClaimedApproval(r).receipt = r.receipt
<1>0. /\ {"quarantined", "reconciliation-required", "expired"} \subseteq Statuses \ {"paused"}
      /\ "approved" \in Early
  BY DEF Statuses, Final, Early
<1>1. /\ release(r) \in ProposalRow /\ release(r).status = r.status /\ release(r).from = r.from
      /\ release(r).approval = r.approval /\ release(r).receipt = r.receipt
  BY Releasing, Zenon
<1>2. ASSUME NEW s \in Statuses \ {"paused"} PROVE Moved([release(r) EXCEPT !.status = s], r, s)
  <2>1. LET q == [release(r) EXCEPT !.status = s] IN
        /\ q \in ProposalRow /\ q.status = s /\ q.from = release(r).from
        /\ q.approval = release(r).approval /\ q.receipt = release(r).receipt
    BY <1>1, StatusUpdates, Zenon
  <2> QED
    BY <1>1, <2>1, Zenon DEF Moved
<1>3. Moved(quarantine(r), r, "quarantined")
  BY <1>0, <1>2, Zenon DEF quarantine
<1>4. r.status \notin Early => Moved(pause(r), r, "reconciliation-required")
  BY <1>0, <1>2, Zenon DEF pause
<1>5. r.status \in Early =>
                /\ pause(r) \in ProposalRow /\ pause(r).status = "paused" /\ pause(r).from = r.status
                /\ pause(r).approval = r.approval /\ pause(r).receipt = r.receipt
  <2> SUFFICES ASSUME r.status \in Early
               PROVE  /\ pause(r) \in ProposalRow /\ pause(r).status = "paused" /\ pause(r).from = r.status
                      /\ pause(r).approval = r.approval /\ pause(r).receipt = r.receipt
    OBVIOUS
  <2>1. LET q == [release(r) EXCEPT !.status = "paused", !.from = r.status] IN
        /\ q \in ProposalRow /\ q.status = "paused" /\ q.from = r.status
        /\ q.approval = release(r).approval /\ q.receipt = release(r).receipt
    BY <1>1, PauseUpdates, Zenon
  <2> QED
    BY <1>1, <2>1, Zenon DEF pause
<1>6. /\ pauseClaimedApproval(r) \in ProposalRow /\ pauseClaimedApproval(r).status = "paused"
      /\ pauseClaimedApproval(r).from = "approved"
      /\ pauseClaimedApproval(r).approval = r.approval /\ pauseClaimedApproval(r).receipt = r.receipt
  <2>1. pauseClaimedApproval(r) = [release(r) EXCEPT !.status = "paused", !.from = "approved"]
    BY DEF pauseClaimedApproval
  <2>2. LET q == [release(r) EXCEPT !.status = "paused", !.from = "approved"] IN
        /\ q \in ProposalRow /\ q.status = "paused" /\ q.from = "approved"
        /\ q.approval = release(r).approval /\ q.receipt = release(r).receipt
    BY <1>0, <1>1, PauseUpdates, Zenon
  <2> QED
    BY <1>1, <2>1, <2>2, Zenon
<1> QED
  BY <1>2, <1>3, <1>4, <1>5, <1>6, Zenon

\* A row in the lists comes back as it is, quarantined, paused where it was, or for reconciliation.
LEMMA Screens ==
    ASSUME NEW r \in ProposalRow
    PROVE  \/ screened(r) = r
           \/ Moved(screened(r), r, "quarantined")
           \/ /\ r.status \in Early /\ screened(r) \in ProposalRow /\ screened(r).status = "paused"
              /\ screened(r).from = r.status /\ screened(r).approval = r.approval
              /\ screened(r).receipt = r.receipt
           \/ r.status \notin Early /\ Moved(screened(r), r, "reconciliation-required")
BY RowMoves, Zenon DEF screened

-----------------------------------------------------------------------------
(* Steps that leave every call where it is. *)

\* A row of which nothing was started may move among such states, or into quarantine.
LEMMA EarlyMove ==
    ASSUME FollowupTyped, Progress, row.status \in Unstarted, row' \in ProposalRow,
           row'.status \in Unstarted \cup {"quarantined"},
           row'.status = "approved" => row'.approval,
           row'.status = "paused" /\ row'.from = "approved" => row'.approval,
           UNCHANGED <<exec, done>>
    PROVE  Progress'
<1>1. done.action = 0 /\ done.rollback \in {0, 1} /\ \A e \in Executors : ~InCall(e)
  BY Zenon DEF Progress, Forward, Backward
<1>2. done.rollback # 1 /\ \A e \in Executors : exec[e].phase # "rollback"
  BY <1>1 DEF Progress, Backward
<1>3. row'.status \notin {"verifying", "verified", "rollback-pending", "rolled-back"} \cup Working
  BY DEF Unstarted, Early, Working
<1>4. Forward'
  BY <1>1, <1>3 DEF Progress, Forward, InCall
<1>5. Approved'
  <2>1. done'.action # 1 /\ \A e \in Executors : ~InCall(e)'
    BY <1>1 DEF InCall
  <2>2. row'.status \in {"approved"} \cup Working => row'.status = "approved"
    BY <1>3
  <2>3. /\ row'.status \in {"approved"} \cup Working => row'.approval
        /\ row'.status = "paused" /\ row'.from = "approved" => row'.approval
    BY <2>2
  <2> QED
    BY <2>1, <2>3, Zenon DEF Approved
<1>6. Backward'
  BY <1>1, <1>2, <1>3 DEF Progress, Backward
<1> QED
  BY <1>4, <1>5, <1>6 DEF Progress

\* Any row may be quarantined or sent to reconciliation while the calls go on.
LEMMA LateMove ==
    ASSUME FollowupTyped, Progress, row' \in ProposalRow,
           row'.status \in {"quarantined", "reconciliation-required"}, row'.approval = row.approval,
           UNCHANGED <<exec, done>>
    PROVE  Progress'
<1>1. row'.status \notin Unstarted \cup {"verifying", "verified", "rollback-pending", "rolled-back", "approved",
                                         "paused"} \cup Working /\ row'.status \in Reversing
  BY DEF Unstarted, Early, Working, Reversing
<1>4. Forward'
  BY <1>1 DEF Progress, Forward, InCall
<1>5. Approved'
  BY <1>1 DEF Progress, Approved, InCall
<1>6. Backward'
  BY <1>1 DEF Progress, Backward
<1> QED
  BY <1>4, <1>5, <1>6 DEF Progress

\* The expiry of a list leaves the row, or ends it as expired.
LEMMA Expires ==
    ASSUME NEW r \in ProposalRow, NEW S
    PROVE  \/ expireEarly(r, S) = r
           \/ r.status \in S /\ expiredNow /\ Moved(expireEarly(r, S), r, "expired")
<1>1. "expired" \in Statuses \ {"paused"}
  BY DEF Statuses, Final
<1> QED
  BY <1>1, RowMoves, Zenon DEF expireEarly

\* What a listing makes of a row that is early: what EarlyMove asks for.
EarlyRow(q) ==
    /\ q \in ProposalRow /\ q.status \in Unstarted \cup {"quarantined"}
    /\ q.status = "approved" => q.approval
    /\ q.status = "paused" /\ q.from = "approved" => q.approval

\* The lists keep an early row among the states of which nothing was started.
LEMMA EarlyRows ==
    ASSUME FollowupTyped, Progress, row.status \in Early
    PROVE  /\ EarlyRow(row) /\ EarlyRow(screened(row))
           /\ \A S : EarlyRow(expireEarly(row, S))
           /\ \A s \in Unstarted \ {"approved", "paused"} : EarlyRow([row EXCEPT !.status = s])
<1>1. row \in ProposalRow /\ row.status \in Unstarted
  BY DEF FollowupTyped, Unstarted
<1>2. row.status = "approved" => row.approval
  BY DEF Progress, Approved
<1>3. row.status # "paused" /\ Unstarted \ {"paused"} \subseteq Statuses
  BY DEF Early, Unstarted, Statuses, Final
<1>4. EarlyRow(row)
  BY <1>1, <1>2, <1>3 DEF EarlyRow
<1>5. EarlyRow(screened(row))
  <2>1. CASE Moved(screened(row), row, "quarantined")
    BY <2>1 DEF Moved, EarlyRow
  <2>2. CASE /\ row.status \in Early /\ screened(row) \in ProposalRow /\ screened(row).status = "paused"
             /\ screened(row).from = row.status /\ screened(row).approval = row.approval
             /\ screened(row).receipt = row.receipt
    BY <2>2, <1>2 DEF EarlyRow, Unstarted
  <2> QED
    BY <1>1, <1>4, <2>1, <2>2, Screens
<1>6. ASSUME NEW S PROVE EarlyRow(expireEarly(row, S))
  <2>1. CASE Moved(expireEarly(row, S), row, "expired")
    BY <2>1 DEF Moved, EarlyRow, Unstarted
  <2> QED
    BY <1>1, <1>4, <2>1, Expires
<1>7. ASSUME NEW s \in Unstarted \ {"approved", "paused"} PROVE EarlyRow([row EXCEPT !.status = s])
  BY <1>1, <1>3, StatusUpdates DEF EarlyRow
<1> QED
  BY <1>4, <1>5, <1>6, <1>7, Zenon

\* Proposal, delivery and approval keep the invariant.
LEMMA EarlyNext ==
    ASSUME FollowupTyped, Progress,
           \/ propose \/ listForProposalDelivery \/ recordProposalDelivery \/ approve \/ reject \/ resumePaused
    PROVE  FollowupTyped' /\ Progress'
<1>0. row \in ProposalRow /\ card \in BOOLEAN
  BY DEF FollowupTyped
<1>1. UNCHANGED <<exec, done, ctx, budget>> /\ card' \in BOOLEAN
  BY <1>0, Zenon DEF propose, listForProposalDelivery, recordProposalDelivery, approve, reject, resumePaused
<1>2. row.status \in Unstarted \/ row' = row
  BY DEF propose, listForProposalDelivery, recordProposalDelivery, approve, reject, resumePaused, Unstarted, Early
<1>3. EarlyRow(row') \/ row' = row
  <2>1. CASE propose
    <3>1. NoProposal \in ProposalRow /\ row.status = "none"
      BY <2>1, FollowupBounds DEF NoProposal, ProposalRow, Statuses, propose
    <3>2. Moved(row', NoProposal, "proposed")
      BY <2>1, <3>1, StatusUpdates DEF propose, Moved, Statuses, Early
    <3> QED
      BY <3>2 DEF Moved, EarlyRow, NoProposal, Unstarted, Early
  <2>2. CASE listForProposalDelivery
    <3>1. row.status \in Early
      BY <2>2 DEF listForProposalDelivery
    <3>2. row' = expireEarly(row, Early) \/ row' = screened(row)
      BY <2>2, <1>0, Expires DEF listForProposalDelivery, Moved
    <3> QED
      BY <3>1, <3>2, EarlyRows
  <2>3. CASE recordProposalDelivery
    <3>1. \/ row' = row
          \/ row.status = "proposed" /\ row' = screened(row)
          \/ row.status = "proposed" /\ row' = [row EXCEPT !.status = "awaiting-approval"]
      BY <2>3 DEF recordProposalDelivery
    <3>2. "proposed" \in Early /\ "awaiting-approval" \in Unstarted \ {"approved", "paused"}
      BY DEF Early, Unstarted
    <3> QED
      BY <3>1, <3>2, EarlyRows
  <2>4. CASE approve
    <3>1. row.status \in Early
      BY <2>4 DEF approve, Early
    <3>2. CASE row' = screened(row)
      BY <3>1, <3>2, EarlyRows
    <3>3. CASE row' = [row EXCEPT !.status = "approved", !.approval = TRUE]
      <4>1. row' \in ProposalRow /\ row'.status = "approved" /\ row'.approval = TRUE
        BY <1>0, <3>3, Zenon DEF ProposalRow, Statuses, Early
      <4> QED
        BY <4>1 DEF EarlyRow, Unstarted, Early
    <3> QED
      BY <2>4, <3>2, <3>3 DEF approve
  <2>5. CASE reject
    <3>1. "rejected" \in Statuses \ {"paused"} /\ "rejected" \in Unstarted
      BY DEF Statuses, Final, Unstarted
    <3>2. Moved(row', row, "rejected")
      BY <1>0, <2>5, <3>1, RowMoves DEF reject, updateSimple
    <3> QED
      BY <3>1, <3>2 DEF Moved, EarlyRow
  <2>6. CASE resumePaused
    <3>1. row.status = "paused" /\ row.from \in Early
      BY <1>0, <2>6, RowFields DEF resumePaused
    <3>2. row.from = "approved" => row.approval
      BY <3>1 DEF Progress, Approved
    <3>3. CASE row' = quarantine(row)
      BY <1>0, <3>3, RowMoves DEF Moved, EarlyRow
    <3>4. CASE row' = [row EXCEPT !.status = "expired", !.from = "none"]
      <4>1. row' \in ProposalRow /\ row'.status = "expired" /\ row'.approval = row.approval
        BY <1>0, <3>4, Zenon DEF ProposalRow, Statuses, Final
      <4> QED
        BY <4>1 DEF EarlyRow, Unstarted
    <3>5. CASE row' = [row EXCEPT !.status = row.from, !.from = "none"]
      <4>1. row' \in ProposalRow /\ row'.status = row.from /\ row'.approval = row.approval /\ row'.from = "none"
        BY <1>0, <3>1, <3>5, Zenon DEF ProposalRow, Statuses, Early
      <4> QED
        BY <4>1, <3>1, <3>2 DEF EarlyRow, Unstarted
    <3> QED
      BY <2>6, <3>3, <3>4, <3>5 DEF resumePaused
  <2> QED
    BY <2>1, <2>2, <2>3, <2>4, <2>5, <2>6
<1>4. row' \in ProposalRow
  BY <1>0, <1>3 DEF EarlyRow
<1>5. Progress'
  <2>1. CASE row' = row
    BY <1>1, <2>1 DEF Progress, Forward, Approved, Backward, InCall
  <2>2. CASE row.status \in Unstarted /\ EarlyRow(row')
    BY <1>1, <2>2, EarlyMove, Zenon DEF EarlyRow
  <2> QED
    BY <1>2, <1>3, <2>1, <2>2
<1> QED
  BY <1>1, <1>4, <1>5, Zenon DEF FollowupTyped

-----------------------------------------------------------------------------
(* Steps in which calls end, or go on to a call that changes nothing. *)

Acting == {"precondition", "execute", "rollback"}

\* A call stays as it is, or is none of those that change the world afterwards.
Thins ==
    /\ exec' \in [Executors -> Calls]
    /\ \A f \in Executors :
        \/ exec'[f] = exec[f]
        \/ /\ exec'[f].phase \notin Acting
           /\ exec'[f].phase = "verifyRollback" => done.rollback = 1

\* What such a step makes of the row.
Settles ==
    /\ row' \in ProposalRow /\ row'.approval = row.approval
    /\ \/ row'.status = row.status /\ row'.from = row.from /\ row'.receipt = row.receipt
       \/ row'.status \in {"quarantined", "reconciliation-required", "rollback-failed"}
       \/ /\ row'.status \in {"blocked", "expired", "paused"} /\ row'.from \in {row.from, "approved"}
          /\ \E e \in Executors : exec[e].phase = "precondition" /\ exec'[e].phase \notin Acting
       \/ row.status = "executing" /\ row'.status = "verifying" /\ row'.receipt /\ done.action = 1
       \/ row.status = "verifying" /\ row'.status = "verified" /\ row'.receipt = row.receipt
       \/ row.status = "verifying" /\ row'.status = "rollback-pending"
       \/ row.status = "rollback-pending" /\ row'.status = "rolled-back" /\ done.rollback = 1

\* A step that only ends calls, or moves them on to a read, and settles the row accordingly keeps the invariant.
LEMMA Settling ==
    ASSUME FollowupTyped, Progress, Thins, Settles, done' = done
    PROVE  Progress'
<1>1. \A f \in Executors : InCall(f)' => InCall(f) /\ exec'[f] = exec[f]
  BY DEF Thins, InCall, Acting
<1>2. \A f \in Executors : exec'[f].phase = "rollback" => exec'[f] = exec[f]
  BY DEF Thins, Acting
<1>3. \A f \in Executors : exec'[f].phase = "verifyRollback" => done'.rollback = 1
  BY DEF Thins, Progress, Backward
<1>4. CASE row'.status = row.status /\ row'.from = row.from /\ row'.receipt = row.receipt
  <2>1. Forward'
    BY <1>1, <1>4 DEF Progress, Forward, InCall
  <2>2. Approved'
    BY <1>1, <1>4, Zenon DEF Progress, Approved, Settles
  <2>3. Backward'
    BY <1>2, <1>3, <1>4 DEF Progress, Backward
  <2> QED
    BY <2>1, <2>2, <2>3 DEF Progress
<1>5. CASE row'.status \in {"quarantined", "reconciliation-required", "rollback-failed"}
  <2>0. row'.status \notin Unstarted \cup {"verifying", "verified", "rollback-pending", "rolled-back", "approved",
                                           "paused"} \cup Working /\ row'.status \in Reversing
    BY <1>5 DEF Unstarted, Early, Working, Reversing
  <2>1. Forward'
    BY <1>1, <2>0 DEF Progress, Forward, InCall
  <2>2. Approved'
    BY <1>1, <2>0 DEF Progress, Approved, Settles
  <2>3. Backward'
    BY <1>2, <1>3, <2>0 DEF Progress, Backward
  <2> QED
    BY <2>1, <2>2, <2>3 DEF Progress
<1>6. CASE /\ row'.status \in {"blocked", "expired", "paused"} /\ row'.from \in {row.from, "approved"}
           /\ \E e \in Executors : exec[e].phase = "precondition" /\ exec'[e].phase \notin Acting
  <2>1. PICK e \in Executors : exec[e].phase = "precondition" /\ exec'[e].phase \notin Acting
    BY <1>6
  <2>2. InCall(e) /\ done.action = 0 /\ row.approval
    BY <2>1 DEF InCall, Progress, Forward, Approved
  <2>3. \A f \in Executors : ~InCall(f)'
    BY <1>1, <2>1, <2>2 DEF Progress, Forward, InCall, Acting
  <2>4. done.rollback # 1 /\ \A f \in Executors : exec[f].phase # "rollback"
    BY <2>2 DEF Progress, Backward
  <2>5. row'.status \notin {"verifying", "verified", "rollback-pending", "rolled-back"}
    BY <1>6
  <2>6. Forward'
    BY <2>2, <2>3, <2>5 DEF Forward, InCall
  <2>7. Approved'
    BY <2>2, Zenon DEF Approved, Settles
  <2>8. Backward'
    BY <1>2, <1>3, <2>4, <2>5 DEF Progress, Backward
  <2> QED
    BY <2>6, <2>7, <2>8 DEF Progress
<1>7. CASE row.status = "executing" /\ row'.status = "verifying" /\ row'.receipt /\ done.action = 1
  <2>1. row'.status \notin Unstarted /\ done.rollback = 0 /\ \A f \in Executors : exec[f].phase # "rollback"
    BY <1>7 DEF Unstarted, Early, Progress, Backward, Reversing
  <2>2. Forward'
    BY <1>1, <1>7, <2>1 DEF Progress, Forward, InCall
  <2>3. Approved'
    BY <1>7, Zenon DEF Progress, Approved, Settles, Working
  <2>4. Backward'
    BY <1>2, <1>3, <1>7, <2>1 DEF Progress, Backward
  <2> QED
    BY <2>2, <2>3, <2>4 DEF Progress
<1>8. CASE /\ row.status = "verifying"
           /\ \/ row'.status = "verified" /\ row'.receipt = row.receipt
              \/ row'.status = "rollback-pending"
  <2>1. row'.status \notin Unstarted /\ done.rollback = 0 /\ \A f \in Executors : exec[f].phase # "rollback"
    BY <1>8 DEF Unstarted, Early, Progress, Backward, Reversing
  <2>2. done.action = 1 /\ row.receipt /\ row.approval
    BY <1>8 DEF Progress, Forward, Approved
  <2>3. Forward'
    BY <1>1, <1>8, <2>1, <2>2, Zenon DEF Progress, Forward, InCall
  <2>4. Approved'
    BY <2>2, Zenon DEF Approved, Settles
  <2>5. Backward'
    BY <1>2, <1>3, <1>8, <2>1 DEF Progress, Backward
  <2> QED
    BY <2>3, <2>4, <2>5 DEF Progress
<1>9. CASE row.status = "rollback-pending" /\ row'.status = "rolled-back" /\ done.rollback = 1
  <2>1. row'.status \notin Unstarted /\ row'.status \in Reversing /\ done.action = 1
    BY <1>9 DEF Unstarted, Early, Reversing, Progress, Backward
  <2>2. Forward'
    BY <1>1, <1>9, <2>1 DEF Progress, Forward, InCall
  <2>3. Approved'
    BY <1>9, <2>1, Zenon DEF Progress, Approved, Settles
  <2>4. Backward'
    BY <1>2, <1>3, <1>9, <2>1 DEF Progress, Backward
  <2> QED
    BY <2>2, <2>3, <2>4 DEF Progress
<1> QED
  BY <1>4, <1>5, <1>6, <1>7, <1>8, <1>9 DEF Settles

-----------------------------------------------------------------------------
(* The steps of an executor. *)

\* The others' calls are left alone.
OnlyOne(e) == exec' \in [Executors -> Calls] /\ \A f \in Executors \ {e} : exec'[f] = exec[f]

\* stop, go, a landing, a claim and a crash change the call of one executor, or end all of them.
LEMMA CallSteps ==
    ASSUME FollowupTyped, NEW e \in Executors
    PROVE  /\ stop(e) => OnlyOne(e) /\ exec'[e].phase = "idle"
           /\ \A p \in Phases : go(e, p) => OnlyOne(e) /\ exec'[e].phase = p /\ exec'[e].landed = FALSE
           /\ exec' = [exec EXCEPT ![e].landed = TRUE] =>
                OnlyOne(e) /\ exec'[e].phase = exec[e].phase /\ exec'[e].landed = TRUE
           /\ \A p \in Phases, t \in 0..MaxClaims :
                exec' = [exec EXCEPT ![e] = [phase |-> p, tok |-> t, landed |-> FALSE]] =>
                    OnlyOne(e) /\ exec'[e].phase = p /\ exec'[e].landed = FALSE
           /\ exec' = [x \in Executors |-> Free] =>
                exec' \in [Executors -> Calls] /\ \A f \in Executors : exec'[f].phase = "idle"
<1>1. exec \in [Executors -> Calls] /\ exec[e] \in Calls
  BY DEF FollowupTyped
<1>2. Free \in Calls /\ Free.phase = "idle"
  BY FollowupBounds DEF Free, Calls, Phases
<1>3. stop(e) => OnlyOne(e) /\ exec'[e].phase = "idle"
  BY <1>1, <1>2 DEF stop, OnlyOne
<1>4. ASSUME NEW p \in Phases, go(e, p) PROVE OnlyOne(e) /\ exec'[e].phase = p /\ exec'[e].landed = FALSE
  <2>1. [exec[e] EXCEPT !.phase = p, !.landed = FALSE] \in Calls
    BY <1>1, Zenon DEF Calls
  <2>2. exec' = [exec EXCEPT ![e] = [exec[e] EXCEPT !.phase = p, !.landed = FALSE]]
    BY <1>1, <1>4, Zenon DEF go, Calls
  <2> QED
    BY <1>1, <2>1, <2>2 DEF OnlyOne, Calls
<1>5. ASSUME exec' = [exec EXCEPT ![e].landed = TRUE]
      PROVE  OnlyOne(e) /\ exec'[e].phase = exec[e].phase /\ exec'[e].landed = TRUE
  <2>1. [exec[e] EXCEPT !.landed = TRUE] \in Calls
    BY <1>1, Zenon DEF Calls
  <2> QED
    BY <1>1, <1>5, <2>1 DEF OnlyOne, Calls
<1>6. ASSUME NEW p \in Phases, NEW t \in 0..MaxClaims,
             exec' = [exec EXCEPT ![e] = [phase |-> p, tok |-> t, landed |-> FALSE]]
      PROVE  OnlyOne(e) /\ exec'[e].phase = p /\ exec'[e].landed = FALSE
  <2>1. [phase |-> p, tok |-> t, landed |-> FALSE] \in Calls
    BY DEF Calls
  <2> QED
    BY <1>1, <1>6, <2>1 DEF OnlyOne
<1>7. exec' = [x \in Executors |-> Free] =>
        exec' \in [Executors -> Calls] /\ \A f \in Executors : exec'[f].phase = "idle"
  BY <1>2
<1> QED
  BY <1>3, <1>4, <1>5, <1>6, <1>7, Zenon

\* An executor that stops, or goes on to a call that changes nothing, thins the calls out.
LEMMA Thinning ==
    ASSUME NEW e \in Executors, OnlyOne(e), exec'[e].phase \notin Acting,
           exec'[e].phase = "verifyRollback" => done.rollback = 1
    PROVE  Thins
BY DEF OnlyOne, Thins

\* A mishap takes one from a budget that has one.
LEMMA MishapTypes ==
    ASSUME FollowupTyped, mishap \/ UNCHANGED budget
    PROVE  budget' \in Budgets
BY FollowupBounds DEF FollowupTyped, Budgets, mishap

\* A guarded update leaves the row, or moves it.
LEMMA SimpleMoves ==
    ASSUME FollowupTyped, NEW S, NEW s \in Statuses \ {"paused"}, NEW t
    PROVE  \/ updateSimple(S, s, t) = row
           \/ row.status \in S /\ Moved(updateSimple(S, s, t), row, s)
<1>1. row \in ProposalRow
  BY DEF FollowupTyped
<1> QED
  BY <1>1, RowMoves, Zenon DEF updateSimple

\* The steps after which an executor has stopped.
LEMMA StoppingNext ==
    ASSUME FollowupTyped, Progress, NEW e \in Executors,
           \/ preconditionFails(e) \/ executeFails(e) \/ receiptNotRecovered(e) \/ verifyUnknown(e) \/ verified(e)
           \/ rollbackUnknown(e) \/ \E good \in BOOLEAN : finishRollback(e, good)
    PROVE  FollowupTyped' /\ Progress'
<1>0. row \in ProposalRow
  BY DEF FollowupTyped
<1>1. /\ stop(e) /\ UNCHANGED <<done, card, ctx>>
      /\ mishap \/ UNCHANGED budget
  BY DEF preconditionFails, executeFails, receiptNotRecovered, verifyUnknown, verified, rollbackUnknown,
         finishRollback
<1>2. OnlyOne(e) /\ exec'[e].phase = "idle"
  BY <1>1, CallSteps, Zenon
<1>3. Thins /\ exec'[e].phase \notin Acting
  BY <1>2, Thinning DEF Acting
<1>4. {"blocked", "reconciliation-required", "verified", "rolled-back", "rollback-failed"} \subseteq Statuses \ {"paused"}
  BY DEF Statuses, Final
<1>5. row' = row => Settles
  BY <1>0 DEF Settles
<1>6. row' = release(row) => Settles
  BY <1>0, Releasing DEF Settles
<1>7. Settles
  <2>1. CASE preconditionFails(e)
    <3>1. row' = row \/ Moved(row', row, "blocked")
      BY <1>4, <2>1, SimpleMoves DEF preconditionFails
    <3>2. exec[e].phase = "precondition"
      BY <2>1 DEF preconditionFails, at
    <3> QED
      BY <1>3, <1>5, <3>1, <3>2 DEF Settles, Moved
  <2>2. CASE executeFails(e) \/ receiptNotRecovered(e)
    <3>1. row' = row \/ Moved(row', row, "reconciliation-required")
      BY <1>4, <2>2, SimpleMoves DEF executeFails, receiptNotRecovered
    <3> QED
      BY <1>5, <3>1 DEF Settles, Moved
  <2>3. CASE verifyUnknown(e) \/ rollbackUnknown(e)
    BY <1>5, <1>6, <2>3 DEF verifyUnknown, rollbackUnknown, deferRecovery
  <2>4. CASE verified(e)
    <3>1. row' = row \/ (row.status = "verifying" /\ row' = [release(row) EXCEPT !.status = "verified"])
      BY <2>4 DEF verified
    <3>2. Moved([release(row) EXCEPT !.status = "verified"], row, "verified")
      BY <1>0, <1>4, RowMoves
    <3> QED
      BY <1>5, <3>1, <3>2, Zenon DEF Settles, Moved
  <2>5. ASSUME NEW good \in BOOLEAN, finishRollback(e, good) PROVE Settles
    <3>1. exec[e].phase = "verifyRollback"
      BY <2>5 DEF finishRollback, at
    <3>2. done.rollback = 1
      BY <3>1 DEF Progress, Backward
    <3>3. \/ row' = row
          \/ row.status = "rollback-pending" /\ row' = [release(row) EXCEPT !.status = "rolled-back"]
          \/ row.status = "rollback-pending" /\ row' = [release(row) EXCEPT !.status = "rollback-failed"]
      BY <2>5 DEF finishRollback
    <3>4. /\ Moved([release(row) EXCEPT !.status = "rolled-back"], row, "rolled-back")
          /\ Moved([release(row) EXCEPT !.status = "rollback-failed"], row, "rollback-failed")
      BY <1>0, <1>4, RowMoves
    <3> QED
      BY <1>5, <3>2, <3>3, <3>4, Zenon DEF Settles, Moved
  <2> QED
    BY <2>1, <2>2, <2>3, <2>4, <2>5
<1>8. Progress'
  BY <1>1, <1>3, <1>7, Settling
<1> QED
  BY <1>1, <1>2, <1>7, <1>8, MishapTypes DEF FollowupTyped, Settles, OnlyOne

\* The read after the precondition: stop, or call the action.
LEMMA RevalidateNext ==
    ASSUME FollowupTyped, Progress, NEW e \in Executors, revalidate(e)
    PROVE  FollowupTyped' /\ Progress'
<1>0. row \in ProposalRow
  BY DEF FollowupTyped
<1>1. exec[e].phase = "precondition" /\ UNCHANGED <<done, card, ctx, budget>>
  BY DEF revalidate, at
<1>2. CASE stop(e) /\ \/ row' = row \/ row' = quarantine(row) \/ row' = pauseClaimedApproval(row)
                      \/ row' = updateSimple({"executing"}, "expired", exec[e].tok)
  <2>1. OnlyOne(e) /\ exec'[e].phase = "idle"
    BY <1>2, CallSteps, Zenon
  <2>2. Thins /\ exec'[e].phase \notin Acting
    BY <2>1, Thinning DEF Acting
  <2>3. "expired" \in Statuses \ {"paused"}
    BY DEF Statuses, Final
  <2>4. ASSUME row' = row PROVE Settles
    BY <1>0, <2>4 DEF Settles
  <2>5. ASSUME row' = quarantine(row) PROVE Settles
    BY <1>0, <2>5, RowMoves DEF Settles, Moved
  <2>6. ASSUME row' = pauseClaimedApproval(row) PROVE Settles
    BY <1>0, <1>1, <2>2, <2>6, RowMoves DEF Settles
  <2>7. ASSUME row' = updateSimple({"executing"}, "expired", exec[e].tok) PROVE Settles
    <3>1. row' = row \/ Moved(row', row, "expired")
      BY <2>3, <2>7, SimpleMoves
    <3> QED
      BY <1>1, <2>2, <2>4, <3>1 DEF Settles, Moved
  <2>8. Settles
    BY <1>2, <2>4, <2>5, <2>6, <2>7
  <2>9. Progress'
    BY <1>1, <2>2, <2>8, Settling
  <2> QED
    BY <1>1, <2>1, <2>8, <2>9 DEF FollowupTyped, Settles, OnlyOne
<1>3. CASE row.status = "executing" /\ row' = row /\ go(e, "execute")
  <2>1. OnlyOne(e) /\ exec'[e].phase = "execute" /\ exec'[e].landed = FALSE
    BY <1>3, CallSteps, Zenon DEF Phases
  <2>2. InCall(e) /\ done.action = 0
    BY <1>1 DEF InCall, Progress, Forward
  <2>3. \A f \in Executors : InCall(f)' <=> InCall(f)
    BY <2>1, <2>2 DEF OnlyOne, InCall
  <2>4. Forward'
    BY <1>1, <1>3, <2>1, <2>2, <2>3 DEF Progress, Forward, OnlyOne
  <2>5. Approved'
    BY <1>1, <1>3, <2>3, Zenon DEF Progress, Approved
  <2>6. Backward'
    BY <1>1, <1>3, <2>1 DEF Progress, Backward, OnlyOne
  <2> QED
    BY <1>1, <1>3, <2>1, <2>4, <2>5, <2>6 DEF FollowupTyped, Progress, OnlyOne
<1> QED
  BY <1>2, <1>3 DEF revalidate

\* The action takes effect.
LEMMA LandsNext ==
    ASSUME FollowupTyped, Progress, NEW e \in Executors, lands(e)
    PROVE  FollowupTyped' /\ Progress'
<1>1. exec[e].phase = "execute" /\ ~exec[e].landed /\ UNCHANGED <<row, card, ctx, budget>>
  BY DEF lands, at
<1>2. OnlyOne(e) /\ exec'[e].phase = "execute" /\ exec'[e].landed = TRUE
  BY <1>1, CallSteps, Zenon DEF lands
<1>3. InCall(e) /\ done.action = 0 /\ row.approval
  BY <1>1 DEF InCall, Progress, Forward, Approved
<1>4. done' \in Effects /\ done'.action = 1 /\ done'.rollback = done.rollback
  BY <1>3 DEF FollowupTyped, Effects, lands
<1>5. \A f \in Executors : InCall(f)' <=> InCall(f)
  BY <1>2, <1>3 DEF OnlyOne, InCall
<1>6. \A f \in Executors : exec[f].phase # "rollback"
  BY <1>3 DEF Progress, Backward
<1>7. row.status \notin Unstarted \cup {"verifying", "verified", "rollback-pending", "rolled-back"} /\ done.rollback = 0
  BY <1>3 DEF Progress, Forward, Backward
<1>8. Forward'
  <2>1. \A f \in Executors : InCall(f)' => f = e
    BY <1>3, <1>5 DEF Progress, Forward
  <2> QED
    BY <1>1, <1>2, <1>4, <1>7, <2>1 DEF Forward, InCall
<1>9. Approved'
  BY <1>1, <1>3, <1>5, Zenon DEF Progress, Approved
<1>10. Backward'
  BY <1>1, <1>2, <1>4, <1>6, <1>7 DEF Progress, Backward, OnlyOne
<1> QED
  BY <1>1, <1>2, <1>4, <1>8, <1>9, <1>10 DEF FollowupTyped, Progress, OnlyOne

\* The receipt of the action is saved, by its own executor or by the one that recovers it.
LEMMA ReceiptNext ==
    ASSUME FollowupTyped, Progress, NEW e \in Executors, executed(e) \/ receiptRecovered(e)
    PROVE  FollowupTyped' /\ Progress'
<1>0. row \in ProposalRow
  BY DEF FollowupTyped
<1>1. saveExecutionReceipt(e) /\ UNCHANGED <<done, card, ctx, budget>>
  BY DEF executed, receiptRecovered
<1>2. done.action = 1
  BY DEF Progress, Forward, executed, receiptRecovered, at
<1>3. OnlyOne(e) /\ exec'[e].phase \in {"idle", "verify"}
  BY <1>1, CallSteps, Zenon DEF saveExecutionReceipt, Phases
<1>4. Thins
  BY <1>3, Thinning DEF Acting
<1>5. Settles
  <2>1. CASE row' = row
    BY <1>0, <2>1 DEF Settles
  <2>2. CASE row.status = "executing" /\ row' = [row EXCEPT !.status = "verifying", !.receipt = TRUE]
    <3>1. row' \in ProposalRow /\ row'.status = "verifying" /\ row'.receipt = TRUE /\ row'.approval = row.approval
      BY <1>0, <2>2, Zenon DEF ProposalRow, Statuses, Working
    <3> QED
      BY <1>2, <2>2, <3>1 DEF Settles
  <2> QED
    BY <1>1, <2>1, <2>2 DEF saveExecutionReceipt
<1>6. Progress'
  BY <1>1, <1>4, <1>5, Settling
<1> QED
  BY <1>1, <1>3, <1>5, <1>6 DEF FollowupTyped, Settles, OnlyOne

\* A failed verification: the row turns to rollback-pending, and the rollback is called unless the
\* process dies first.
LEMMA VerificationNext ==
    ASSUME FollowupTyped, Progress, NEW e \in Executors, verificationFails(e) \/ verificationFailsCut(e)
    PROVE  FollowupTyped' /\ Progress'
<1>0. row \in ProposalRow /\ done \in Effects /\ ctx \in Surroundings /\ card \in BOOLEAN
  BY DEF FollowupTyped
<1>1. /\ mishap /\ ctx' = ctx /\ card' \in BOOLEAN
      /\ done' \in Effects /\ done'.action = done.action /\ done'.rollback = done.rollback
  BY <1>0, Zenon DEF verificationFails, verificationFailsCut, Effects
<1>2. budget' \in Budgets
  BY <1>1, MishapTypes
<1>3. "rollback-pending" \in Statuses \ {"paused"}
  BY DEF Statuses, Working
<1>4. CASE verificationFailsCut(e)
  <2>1. exec' \in [Executors -> Calls] /\ \A f \in Executors : exec'[f].phase = "idle"
    BY <1>4, CallSteps, Zenon DEF verificationFailsCut
  <2>2. Thins /\ done' = done
    BY <1>4, <2>1 DEF Thins, Acting, verificationFailsCut
  <2>3. Moved(row', row, "rollback-pending") /\ row.status = "verifying"
    BY <1>0, <1>3, <1>4, RowMoves DEF verificationFailsCut
  <2>4. Settles
    BY <2>3 DEF Moved, Settles
  <2> QED
    BY <1>1, <1>2, <2>1, <2>2, <2>4, Settling DEF FollowupTyped, Settles
<1>5. CASE verificationFails(e) /\ ~(row.status = "verifying" /\ held(e))
  <2>1. stop(e) /\ row' = row
    BY <1>5 DEF verificationFails
  <2>2. OnlyOne(e) /\ exec'[e].phase = "idle"
    BY <2>1, CallSteps, Zenon
  <2>3. Thins
    BY <2>2, Thinning DEF Acting
  <2>4. done' = done
    <3>1. done' = [done EXCEPT !.called = done.called \/ FALSE]
      BY <1>0, <1>5 DEF verificationFails, Effects
    <3>2. done.called \in BOOLEAN
      BY <1>0 DEF Effects
    <3> QED
      BY <1>0, <3>1, <3>2 DEF Effects
  <2>5. Settles
    BY <1>0, <2>1 DEF Settles
  <2> QED
    BY <1>1, <1>2, <2>2, <2>3, <2>4, <2>5, Settling DEF FollowupTyped, Settles, OnlyOne
<1>6. CASE verificationFails(e) /\ row.status = "verifying" /\ held(e)
  <2>1. go(e, "rollback") /\ row' = [row EXCEPT !.status = "rollback-pending", !.until = ctx.now + ClaimMs]
    BY <1>6 DEF verificationFails
  <2>2. OnlyOne(e) /\ exec'[e].phase = "rollback" /\ exec'[e].landed = FALSE
    BY <2>1, CallSteps, Zenon DEF Phases
  <2>3. ctx.now + ClaimMs \in 0..(MaxTime + ClaimMs)
    BY <1>0, FollowupBounds DEF Surroundings
  <2>4. row' \in ProposalRow /\ row'.status = "rollback-pending" /\ row'.approval = row.approval
    BY <1>0, <1>3, <2>1, <2>3, Zenon DEF ProposalRow
  <2>5. done.action = 1 /\ done.rollback = 0 /\ row.approval
    BY <1>6, Zenon DEF Progress, Forward, Approved
  <2>6. \A f \in Executors : exec[f].phase # "rollback" /\ exec[f].phase # "verifyRollback"
    BY <1>6, <2>5, Zenon DEF Progress, Backward, Reversing
  <2>7. \A f \in Executors : InCall(f)' => InCall(f) /\ exec'[f] = exec[f]
    BY <2>2 DEF OnlyOne, InCall
  <2>8. row'.status \notin Unstarted /\ row'.status \in Reversing
    BY <2>4 DEF Unstarted, Early, Reversing
  <2>9. Forward'
    BY <1>1, <2>4, <2>5, <2>7, <2>8 DEF Progress, Forward, InCall
  <2>10. Approved'
    BY <2>4, <2>5, Zenon DEF Approved
  <2>11. Backward'
    BY <1>1, <2>2, <2>4, <2>5, <2>6, <2>8 DEF Backward, OnlyOne
  <2> QED
    BY <1>1, <1>2, <2>2, <2>4, <2>9, <2>10, <2>11 DEF FollowupTyped, Progress, OnlyOne
<1> QED
  BY <1>4, <1>5, <1>6

\* The rollback takes effect, or its receipt is there.
LEMMA RollbackNext ==
    ASSUME FollowupTyped, Progress, NEW e \in Executors, rollbackLands(e) \/ rollbackReceipt(e)
    PROVE  FollowupTyped' /\ Progress'
<1>0. row \in ProposalRow /\ done \in Effects
  BY DEF FollowupTyped
<1>1. UNCHANGED <<row, card, ctx, budget>>
  BY DEF rollbackLands, rollbackReceipt
<1>2. CASE rollbackReceipt(e)
  <2>1. OnlyOne(e) /\ exec'[e].phase = "verifyRollback" /\ done' = done
    BY <1>2, CallSteps, Zenon DEF rollbackReceipt, Phases
  <2>2. done.rollback = 1
    <3>1. /\ done.rollback \in {0, 1}
          /\ exec[e].phase = "rollback" => done.rollback = IF exec[e].landed THEN 1 ELSE 0
      BY Zenon DEF Progress, Backward
    <3>2. (exec[e].phase = "rollback" /\ exec[e].landed) \/ done.rollback > 0
      BY <1>2, Zenon DEF rollbackReceipt, at
    <3> QED
      BY <3>1, <3>2
  <2>3. Thins
    BY <2>1, <2>2, Thinning DEF Acting
  <2>4. Settles
    BY <1>0, <1>1 DEF Settles
  <2> QED
    BY <1>1, <2>1, <2>3, <2>4, Settling DEF FollowupTyped, OnlyOne
<1>3. CASE rollbackLands(e)
  <2>1. exec[e].phase = "rollback" /\ ~exec[e].landed
    BY <1>3 DEF rollbackLands, at
  <2>2. OnlyOne(e) /\ exec'[e].phase = "rollback" /\ exec'[e].landed = TRUE
    BY <1>3, <2>1, CallSteps, Zenon DEF rollbackLands
  <2>3. row.status \in Reversing /\ done.action = 1 /\ done.rollback = 0
    BY <2>1 DEF Progress, Backward
  <2>4. done' \in Effects /\ done'.action = 1 /\ done'.rollback = 1
    BY <1>0, <1>3, <2>3 DEF rollbackLands, Effects
  <2>5. \A f \in Executors : InCall(f)' => InCall(f) /\ exec'[f] = exec[f]
    BY <2>2 DEF OnlyOne, InCall
  <2>6. row.status \notin {"verifying", "verified"} \cup Unstarted
    BY <2>3 DEF Reversing, Unstarted, Early
  <2>7. Forward'
    BY <1>1, <2>3, <2>4, <2>5, <2>6 DEF Progress, Forward, InCall
  <2>8. Approved'
    BY <1>1, <2>3, <2>5, Zenon DEF Progress, Approved
  <2>9. Backward'
    BY <1>1, <2>1, <2>2, <2>3, <2>4 DEF Progress, Backward, OnlyOne
  <2> QED
    BY <1>1, <2>2, <2>4, <2>7, <2>8, <2>9 DEF FollowupTyped, Progress, OnlyOne
<1> QED
  BY <1>2, <1>3

\* A tick: the list settles the row, or the row is claimed and the first call made.
LEMMA ExecuteNext ==
    ASSUME FollowupTyped, Progress, NEW e \in Executors, execute(e)
    PROVE  FollowupTyped' /\ Progress'
<1> DEFINE r == expireEarly(row, {"approved"})
           s == IF listed(r) THEN screened(r) ELSE r
           begin == s = r /\ listed(r) /\ claimable(r)
<1>0. row \in ProposalRow /\ budget \in Budgets /\ ctx \in Surroundings
  BY DEF FollowupTyped
<1>1. /\ exec[e].phase = "idle" /\ budget.claims < MaxClaims
      /\ UNCHANGED <<done, card, ctx>>
      /\ begin => /\ row' = claim(r)
                  /\ exec' = [exec EXCEPT ![e] = [phase |-> phaseOf(r.status), tok |-> row'.tok, landed |-> FALSE]]
                  /\ budget' = [budget EXCEPT !.claims = @ + 1]
      /\ ~begin => row' = s /\ UNCHANGED <<exec, budget>>
  BY DEF execute, at
<1>2. \/ r = row
      \/ row.status = "approved" /\ Moved(r, row, "expired")
  BY <1>0, Expires
<1>3. listed(r) => r = row /\ row.status \in {"approved"} \cup Working
  BY <1>2 DEF listed, Moved, Working
<1>4. CASE ~begin
  <2>1. row' = r \/ (listed(r) /\ row' = screened(row))
    BY <1>1, <1>3, <1>4
  <2>2. CASE row' = row
    <3>1. Progress'
      BY <1>1, <1>4, <2>2 DEF Progress, Forward, Approved, Backward, InCall
    <3> QED
      BY <1>1, <1>4, <2>2, <3>1, Zenon DEF FollowupTyped
  <2>3. CASE row.status = "approved" /\ row' # row
    <3>1. row.status \in Early /\ row.status \in Unstarted
      BY <2>3 DEF Early, Unstarted
    <3>2. EarlyRow(row')
      BY <2>1, <3>1, EarlyRows
    <3>3. UNCHANGED <<exec, done, card, ctx, budget>>
      BY <1>1, <1>4
    <3>4. Progress'
      BY <3>1, <3>2, <3>3, EarlyMove DEF EarlyRow
    <3> QED
      BY <3>2, <3>3, <3>4, Zenon DEF FollowupTyped, EarlyRow
  <2>4. CASE row.status # "approved" /\ row' # row
    <3>1. listed(r) /\ row' = screened(row)
      BY <1>2, <2>1, <2>4
    <3>2. row.status \notin Early
      BY <1>3, <2>4, <3>1 DEF Early, Working
    <3>3. Moved(row', row, "quarantined") \/ Moved(row', row, "reconciliation-required")
      BY <1>0, <2>4, <3>1, <3>2, Screens
    <3>4. UNCHANGED <<exec, done, card, ctx, budget>>
      BY <1>1, <1>4
    <3>5. Progress'
      BY <3>3, <3>4, LateMove DEF Moved
    <3> QED
      BY <3>3, <3>4, <3>5, Zenon DEF FollowupTyped, Moved
  <2> QED
    BY <2>2, <2>3, <2>4
<1>5. CASE begin
  <2>1. r = row /\ row.status \in {"approved"} \cup Working
    BY <1>3, <1>5
  <2>2. /\ budget.claims + 1 \in 0..MaxClaims /\ ctx.now + ClaimMs \in 0..(MaxTime + ClaimMs)
        /\ budget' \in Budgets
    BY <1>0, <1>1, <1>5, FollowupBounds DEF Budgets, Surroundings
  <2>3. PICK t \in Statuses \ {"paused"} : t = IF row.status = "approved" THEN "executing" ELSE row.status
    BY <2>1 DEF Statuses, Working
  <2>4. row' = [row EXCEPT !.status = t, !.tok = budget.claims + 1, !.until = ctx.now + ClaimMs]
    BY <1>0, <1>1, <1>5, <2>1, <2>3, Zenon DEF claim, ProposalRow
  <2>5. /\ row' \in ProposalRow /\ row'.status = t /\ row'.from = row.from /\ row'.approval = row.approval
        /\ row'.receipt = row.receipt /\ row'.tok = budget.claims + 1
    BY <1>0, <2>2, <2>3, <2>4, Zenon DEF ProposalRow
  <2>6. phaseOf(row.status) \in Phases
    BY DEF phaseOf, Phases
  <2>7. OnlyOne(e) /\ exec'[e].phase = phaseOf(row.status) /\ exec'[e].landed = FALSE
    <3>1. PICK p \in Phases, c \in 0..MaxClaims : p = phaseOf(row.status) /\ c = row'.tok
      BY <2>2, <2>5, <2>6
    <3>2. exec' = [exec EXCEPT ![e] = [phase |-> p, tok |-> c, landed |-> FALSE]]
      BY <1>1, <1>5, <2>1, <3>1
    <3> QED
      BY <3>1, <3>2, CallSteps, Zenon
  <2>8. CASE row.status = "approved"
    <3>1. exec'[e].phase = "precondition" /\ row'.status = "executing"
      BY <2>3, <2>5, <2>7, <2>8 DEF phaseOf
    <3>2. row.approval /\ done.action = 0 /\ \A f \in Executors : ~InCall(f)
      BY <2>8 DEF Progress, Approved, Forward, Unstarted, Early
    <3>3. done.rollback = 0 /\ \A f \in Executors : exec[f].phase # "rollback"
      BY <3>2 DEF Progress, Backward
    <3>4. \A f \in Executors : InCall(f)' => f = e
      BY <2>7, <3>2 DEF OnlyOne, InCall
    <3>5. row'.status \notin Unstarted
      BY <3>1 DEF Unstarted, Early
    <3>6. Forward'
      BY <1>1, <3>1, <3>2, <3>4, <3>5 DEF Forward, InCall
    <3>7. Approved'
      BY <2>5, <3>2, Zenon DEF Approved
    <3>8. Backward'
      BY <1>1, <2>7, <3>1, <3>3 DEF Progress, Backward, OnlyOne
    <3> QED
      BY <3>6, <3>7, <3>8, <1>1, <2>2, <2>5, <2>7 DEF Progress, FollowupTyped, OnlyOne
  <2>9. CASE row.status # "approved"
    <3>1. exec'[e].phase \in {"recoverReceipt", "verify", "recoverRollback"} /\ row'.status = row.status
      BY <2>3, <2>5, <2>7, <2>9 DEF phaseOf
    <3>2. Thins
      BY <2>7, <3>1, Thinning DEF Acting
    <3>3. Settles
      BY <2>5, <3>1 DEF Settles
    <3>4. Progress'
      BY <1>1, <3>2, <3>3, Settling
    <3> QED
      BY <3>4, <1>1, <2>2, <2>5, <2>7 DEF FollowupTyped, OnlyOne
  <2> QED
    BY <2>8, <2>9
<1> QED
  BY <1>4, <1>5

-----------------------------------------------------------------------------
(* The surroundings. *)

\* The clock, the binding, the authority and a lost delivery touch neither row nor calls.
LEMMA OutsideNext ==
    ASSUME FollowupTyped, Progress, clock \/ archive \/ restore \/ drift \/ deliveryFails
    PROVE  FollowupTyped' /\ Progress'
<1>1. UNCHANGED <<row, exec, done>> /\ (mishap \/ UNCHANGED budget)
  BY DEF clock, archive, restore, drift, deliveryFails
<1>2. ctx' \in Surroundings /\ card' \in BOOLEAN
  <2>0. ctx \in Surroundings /\ card \in BOOLEAN
    BY DEF FollowupTyped
  <2>1. CASE clock
    BY <2>0, <2>1, FollowupBounds DEF Surroundings, clock
  <2>2. CASE archive \/ restore \/ drift
    BY <2>0, <2>2, Zenon DEF Surroundings, archive, restore, drift
  <2>3. CASE deliveryFails
    BY <2>0, <2>3, Zenon DEF deliveryFails
  <2> QED
    BY <2>1, <2>2, <2>3
<1>3. Progress'
  BY <1>1 DEF Progress, Forward, Approved, Backward, InCall
<1> QED
  BY <1>1, <1>2, <1>3, MishapTypes DEF FollowupTyped

\* A crash ends every call; the action of one that was in it may still land.
LEMMA CrashNext ==
    ASSUME FollowupTyped, Progress, crash
    PROVE  FollowupTyped' /\ Progress'
<1>1. mishap /\ card' = FALSE /\ UNCHANGED <<row, ctx>> /\ row \in ProposalRow /\ done \in Effects
  BY DEF crash, FollowupTyped
<1>2. exec' \in [Executors -> Calls] /\ \A f \in Executors : exec'[f].phase = "idle"
  <2>1. PICK e \in Executors : ~at(e, "idle")
    BY DEF crash
  <2> QED
    BY <2>1, CallSteps, Zenon DEF crash
<1>3. CASE done' = done
  <2>1. Thins
    BY <1>2 DEF Thins, Acting
  <2>2. Settles
    BY <1>1 DEF Settles
  <2> QED
    BY <1>1, <1>2, <1>3, <2>1, <2>2, Settling, MishapTypes, Zenon DEF FollowupTyped
<1>4. ASSUME NEW e \in Executors, exec[e].phase = "execute", ~exec[e].landed,
             done' = [done EXCEPT !.action = @ + 1]
      PROVE  FollowupTyped' /\ Progress'
  <2>1. InCall(e) /\ done.action = 0 /\ row.approval
    BY <1>4 DEF InCall, Progress, Forward, Approved
  <2>2. done' \in Effects /\ done'.action = 1 /\ done'.rollback = done.rollback
    BY <1>1, <1>4, <2>1 DEF Effects
  <2>3. row.status \notin Unstarted \cup {"verifying", "verified", "rollback-pending", "rolled-back"}
    BY <2>1 DEF Progress, Forward, Backward
  <2>4. done.rollback = 0
    BY <2>1 DEF Progress, Backward
  <2>5. Forward'
    BY <1>1, <1>2, <2>2, <2>3 DEF Forward, InCall
  <2>6. Approved'
    BY <1>1, <2>1, Zenon DEF Approved
  <2>7. Backward'
    BY <1>1, <1>2, <2>2, <2>3, <2>4 DEF Backward
  <2> QED
    BY <1>1, <1>2, <2>2, <2>5, <2>6, <2>7, MishapTypes, Zenon DEF FollowupTyped, Progress
<1> QED
  BY <1>3, <1>4 DEF crash, at

\* The inductive invariant.
FollowupInvariant == FollowupTyped /\ Progress

\* The invariant holds in every state of every run: proposal, delivery, approval, execution by any
\* number of executors with overlapping leases, recovery, rollback and crashes.
THEOREM FollowupInductive == FollowupSpec => []FollowupInvariant
<1>1. FollowupInit => FollowupInvariant
  <2> SUFFICES ASSUME FollowupInit PROVE FollowupInvariant
    OBVIOUS
  <2>1. FollowupTyped
    <3>1. NoProposal \in ProposalRow
      BY FollowupBounds DEF NoProposal, ProposalRow, Statuses
    <3>2. Free \in Calls
      BY FollowupBounds DEF Free, Calls, Phases
    <3>3. done \in Effects /\ ctx \in Surroundings /\ budget \in Budgets
      BY FollowupBounds DEF FollowupInit, Effects, Surroundings, Budgets
    <3> QED
      BY <3>1, <3>2, <3>3, Zenon DEF FollowupInit, FollowupTyped
  <2>2. row.status = "none" /\ done.action = 0 /\ done.rollback = 0 /\ \A e \in Executors : exec[e].phase = "idle"
    BY DEF FollowupInit, NoProposal, Free
  <2>3. Forward /\ Backward
    BY <2>2 DEF Forward, Backward, InCall
  <2>4. Approved
    BY <2>2 DEF Approved, InCall, Working
  <2> QED
    BY <2>1, <2>3, <2>4 DEF FollowupInvariant, Progress
<1>2. FollowupInvariant /\ [FollowupNext]_followupVars => FollowupInvariant'
  <2> SUFFICES ASSUME FollowupTyped, Progress, [FollowupNext]_followupVars PROVE FollowupTyped' /\ Progress'
    BY DEF FollowupInvariant
  <2>1. CASE \/ propose \/ listForProposalDelivery \/ recordProposalDelivery \/ approve \/ reject \/ resumePaused
    BY <2>1, EarlyNext
  <2>2. CASE clock \/ archive \/ restore \/ drift \/ deliveryFails
    BY <2>2, OutsideNext
  <2>3. CASE crash
    BY <2>3, CrashNext
  <2>4. ASSUME NEW e \in Executors, Execution(e) PROVE FollowupTyped' /\ Progress'
    <3>1. CASE execute(e)
      BY <3>1, ExecuteNext
    <3>2. CASE revalidate(e)
      BY <3>2, RevalidateNext
    <3>3. CASE lands(e)
      BY <3>3, LandsNext
    <3>4. CASE executed(e) \/ receiptRecovered(e)
      BY <3>4, ReceiptNext
    <3>5. CASE verificationFails(e) \/ verificationFailsCut(e)
      BY <3>5, VerificationNext
    <3>6. CASE rollbackLands(e) \/ rollbackReceipt(e)
      BY <3>6, RollbackNext
    <3>7. CASE \/ preconditionFails(e) \/ executeFails(e) \/ receiptNotRecovered(e) \/ verifyUnknown(e)
               \/ verified(e) \/ rollbackUnknown(e) \/ \E good \in BOOLEAN : finishRollback(e, good)
      BY <3>7, StoppingNext
    <3> QED
      BY <2>4, <3>1, <3>2, <3>3, <3>4, <3>5, <3>6, <3>7, Zenon DEF Execution
  <2>5. CASE UNCHANGED followupVars
    BY <2>5 DEF followupVars, FollowupTyped, Progress, Forward, Approved, Backward, InCall
  <2> QED
    BY <2>1, <2>2, <2>3, <2>4, <2>5, Zenon DEF FollowupNext
<1> QED
  BY <1>1, <1>2, PTL DEF FollowupSpec

\* The action and its rollback take effect at most once each, the first only after an approval and
\* the second only after the first, and a final state of the row tells what happened
\* (followups.ts: execute, recover and the guarded updates).
THEOREM FollowupSafety == FollowupSpec => []FollowupsAreSafe
<1>1. FollowupInvariant => FollowupsAreSafe
  <2> SUFFICES ASSUME FollowupTyped, Forward, Approved, Backward PROVE FollowupsAreSafe
    BY DEF FollowupInvariant, Progress
  <2>1. FollowupTypeOK
    <3>1. done.action \in Nat /\ done.rollback \in Nat
      BY DEF FollowupTyped, Effects
    <3> QED
      BY <3>1, Zenon DEF FollowupTyped, FollowupTypeOK
  <2>2. OnceEach
    BY DEF Forward, Backward, OnceEach
  <2>3. StatusIsTrue
    BY DEF Forward, Backward, StatusIsTrue, Unstarted, Early
  <2>4. ApprovedFirst
    BY DEF Forward, Approved, ApprovedFirst
  <2> QED
    BY <2>1, <2>2, <2>3, <2>4 DEF FollowupsAreSafe
<1> QED
  BY <1>1, FollowupInductive, PTL

(***************************************************************************)
(* The installers of the sidecars.                                         *)
(***************************************************************************)

\* Where a process of an installer is, and what it knows.
Staging == {"staged", "checked", "exchanged"}
Applying == {"configure", "units", "restart"}
Reverting == {"rollback", "rolled"}
Removing == {"disable", "unlink", "remove", "unconfigure"}
Places == {"idle"} \cup Staging \cup Applying \cup Reverting \cup Removing
Operations == {"none", "install", "rollback", "uninstall"}
Names == Releases \cup {"none"}
Processes == [pc : Places, op : Operations, rel : Names, back : BOOLEAN]

\* The types of the disk, and of the processes and their records.
DiskTyped ==
    /\ current \in Held /\ previous \in Held /\ stages \in [Procs -> Held]
    /\ config \in Names /\ units \in Held
    /\ checked \subseteq Releases /\ mishaps \in 0 .. MaxFailures
ProcessTyped ==
    /\ proc \in [Procs -> Processes] /\ calm \in BOOLEAN
    /\ last \in [op : Operations, rel : Names, how : Ways]

\* Each place belongs to one operation, or to the two that apply a release.
Placed(q) ==
    /\ q.pc = "idle" => q = Idle
    /\ q.pc \in Staging => q.op = "install" /\ ~q.back
    /\ q.pc \in Reverting => (q.op = "install" /\ q.back) \/ q.op = "rollback"
    /\ q.pc \in Applying => q.op \in {"install", "rollback"}
    /\ q.op = "install" => q.rel \in Releases
    /\ q.pc \in Removing => q.op = "uninstall"

\* What has a name on the disk, or is about to get one, has passed its self-check.
Vouched == checked \cup {"none", "part"}
VouchedFor ==
    /\ current \in Vouched /\ previous \in Vouched
    /\ \A p \in Procs : proc[p].pc \in {"checked", "exchanged"} => stages[p] \in Vouched

\* What a process that runs alone has done so far, compared with what it found.
Installing(p) ==
    /\ proc[p].pc \in {"staged", "checked"} =>
          current = before.current /\ previous = before.previous /\ stages[p] = proc[p].rel
    /\ proc[p].pc = "exchanged" => current = proc[p].rel /\ stages[p] = before.current
    /\ (proc[p].pc \in Applying /\ ~proc[p].back) =>
          current = proc[p].rel /\ (previous = before.current \/ before.current = "none")
    /\ (proc[p].pc = "rollback" /\ before.current \in Releases) => previous = before.current
    /\ (proc[p].pc \in Applying \cup {"rolled"} /\ proc[p].back /\ before.current \in Releases) =>
          current = before.current
Serving(p) ==
    /\ proc[p].pc \in {"units", "restart"} => config = current
    /\ proc[p].pc = "restart" => units = current
Uninstalling(p) ==
    /\ proc[p].pc \in {"unlink", "remove", "unconfigure"} => running = Off
    /\ proc[p].pc \in {"remove", "unconfigure"} => units = "none"
    /\ proc[p].pc = "unconfigure" => current = "none" /\ previous = "none"
Midway(p) ==
    /\ proc[p].op = "install" => Installing(p)
    /\ proc[p].op = "rollback" => {current, previous} = {before.current, before.previous}
    /\ Serving(p) /\ Uninstalling(p)

\* What it leaves.
Outcome ==
    /\ (last.op = "install" /\ last.how = "done") =>
          /\ {current, config, units, running.code, running.config} = {last.rel}
          /\ previous = before.current \/ before.current = "none"
    /\ (last.op = "install" /\ before.current \in Releases /\ last.how = "rolled back") =>
          {current, config, units, running.code, running.config} = {before.current}
    /\ (last.op = "install" /\ before.current \in Releases /\ last.how = "refused") =>
          current = before.current /\ previous = before.previous
    /\ last.op = "rollback" => {current, previous} = {before.current, before.previous}
    /\ (last.op = "uninstall" /\ last.how = "done") =>
          {current, previous, config, units, running.code} = {"none"}

\* While nobody was killed and no two processes met.
Calmness ==
    calm =>
       /\ \A p, q \in Procs : proc[p].pc # "idle" /\ proc[q].pc # "idle" => p = q
       /\ \A p \in Procs : stages[p] # "none" => proc[p].pc \in Staging
       /\ \A p \in Procs : Midway(p)
       /\ Alone => Outcome

ReleaseInvariant ==
    DiskTyped /\ ProcessTyped /\ (\A p \in Procs : Placed(proc[p])) /\ VouchedFor /\ Calmness

\* Only p moves, and as a process of an installer can.
Moves(p) ==
    /\ proc' \in [Procs -> Processes] /\ Placed(proc'[p])
    /\ \A q \in Procs \ {p} : proc'[q] = proc[q]

\* The names of the releases are none of the two words for a directory without one.
LEMMA ReleaseNames == "none" \notin Releases /\ "part" \notin Releases /\ Off.code = "none" /\ Idle \in Processes
BY ReleaseAssumption DEF Off, Idle, Processes, Places, Operations, Names

\* A mishap is counted, and the words of the model are values of their types.
LEMMA Spoiling ==
    ASSUME DiskTyped, mishaps' = mishaps \/ Spoilt
    PROVE  mishaps' \in 0 .. MaxFailures
BY ReleaseAssumption DEF DiskTyped, Spoilt

LEMMA Words ==
    /\ "none" \in Held /\ "part" \in Held /\ "none" \in Names
    /\ "failed" \in Ways /\ "killed" \in Ways /\ "refused" \in Ways
BY DEF Held, Ways, Names

\* A process ends.
LEMMA Ending ==
    ASSUME ProcessTyped, NEW p \in Procs, NEW how \in Ways, Ends(p, how)
    PROVE  /\ Moves(p) /\ proc'[p] = Idle
           /\ last' = [op |-> proc[p].op, rel |-> proc[p].rel, how |-> how]
           /\ last'.op = proc[p].op /\ last'.rel = proc[p].rel /\ last'.how = how
           /\ last' \in [op : Operations, rel : Names, how : Ways]
<1>1. proc' = [proc EXCEPT ![p] = Idle] /\ proc \in [Procs -> Processes]
  BY DEF Ends, ProcessTyped
<1>2. proc' \in [Procs -> Processes] /\ proc'[p] = Idle /\ \A q \in Procs \ {p} : proc'[q] = proc[q]
  BY <1>1, ReleaseNames, Zenon
<1>3. Placed(Idle)
  BY DEF Placed, Idle, Staging, Reverting, Applying, Removing
<1>4. last' = [op |-> proc[p].op, rel |-> proc[p].rel, how |-> how]
  BY DEF Ends
<1>5. proc[p].op \in Operations /\ proc[p].rel \in Names
  BY <1>1 DEF Processes
<1>6. last' \in [op : Operations, rel : Names, how : Ways]
  BY <1>4, <1>5
<1>7. last'.op = proc[p].op /\ last'.rel = proc[p].rel /\ last'.how = how
  BY <1>4
<1> QED
  BY <1>2, <1>3, <1>4, <1>6, <1>7, Zenon DEF Moves

\* A process goes on with its operation.
LEMMA Going ==
    ASSUME ProcessTyped, NEW p \in Procs, NEW pc \in Places, Goes(p, pc)
    PROVE  /\ proc' \in [Procs -> Processes] /\ \A q \in Procs \ {p} : proc'[q] = proc[q]
           /\ proc'[p] = [pc |-> pc, op |-> proc[p].op, rel |-> proc[p].rel, back |-> proc[p].back]
           /\ proc'[p].pc = pc /\ proc'[p].op = proc[p].op /\ proc'[p].rel = proc[p].rel
           /\ proc'[p].back = proc[p].back
           /\ last' = last
<1>1. proc' = [proc EXCEPT ![p].pc = pc] /\ last' = last /\ proc \in [Procs -> Processes]
  BY DEF Goes, ProcessTyped
<1>2. proc[p] \in Processes
  BY <1>1
<1>3. [proc[p] EXCEPT !.pc = pc] = [pc |-> pc, op |-> proc[p].op, rel |-> proc[p].rel, back |-> proc[p].back]
  BY <1>2 DEF Processes
<1>4. [proc[p] EXCEPT !.pc = pc] \in Processes
  BY <1>2, <1>3 DEF Processes
<1>5. proc' = [proc EXCEPT ![p] = [proc[p] EXCEPT !.pc = pc]]
  BY <1>1
<1>6. proc'[p] = [pc |-> pc, op |-> proc[p].op, rel |-> proc[p].rel, back |-> proc[p].back]
  BY <1>1, <1>3, <1>5, Zenon
<1>7. /\ proc'[p].pc = pc /\ proc'[p].op = proc[p].op /\ proc'[p].rel = proc[p].rel
      /\ proc'[p].back = proc[p].back
  BY <1>6
<1> QED
  BY <1>1, <1>4, <1>5, <1>6, <1>7, Zenon

\* A process that was alone and goes on, or ends, keeps Calmness when it keeps its own part of it.
LEMMA CalmStep ==
    ASSUME ReleaseInvariant, NEW p \in Procs, proc[p].pc # "idle", Moves(p),
           calm' => calm, before' = before,
           \A q \in Procs \ {p} : stages'[q] \in {stages[q], "none"},
           calm' /\ stages'[p] # "none" => proc'[p].pc \in Staging,
           calm' => Midway(p)',
           calm' /\ proc'[p] = Idle => Outcome'
    PROVE  Calmness'
<1> SUFFICES ASSUME calm'
             PROVE  /\ \A q, r \in Procs : proc'[q].pc # "idle" /\ proc'[r].pc # "idle" => q = r
                    /\ \A q \in Procs : stages'[q] # "none" => proc'[q].pc \in Staging
                    /\ \A q \in Procs : Midway(q)'
                    /\ Alone' => Outcome'
  BY Zenon DEF Calmness
<1>1. \A q \in Procs \ {p} : proc[q].pc = "idle" /\ stages[q] = "none"
  BY Zenon DEF ReleaseInvariant, Calmness, Staging
<1>2. \A q \in Procs \ {p} : proc'[q] = Idle
  BY <1>1, Zenon DEF ReleaseInvariant, Placed, Moves
<1>3. \A q \in Procs \ {p} : stages'[q] = "none"
  BY <1>1, Zenon
<1>4. Idle.pc = "idle" /\ Idle.op = "none"
  BY DEF Idle
<1>5. \A q, r \in Procs : proc'[q].pc # "idle" /\ proc'[r].pc # "idle" => q = r
  BY <1>2, <1>4, Zenon
<1>6. \A q \in Procs : stages'[q] # "none" => proc'[q].pc \in Staging
  BY <1>3, Zenon
<1>7. ASSUME NEW q \in Procs PROVE Midway(q)'
  <2>1. CASE q = p
    BY <2>1, Zenon
  <2>2. CASE q # p
    <3>1. proc'[q].pc = "idle" /\ proc'[q].op = "none"
      BY <1>2, <1>4, <2>2, Zenon
    <3> QED
      BY <3>1, Zenon DEF Midway, Serving, Uninstalling
  <2> QED
    BY <2>1, <2>2
<1>8. Alone' => Outcome'
  BY Zenon DEF Alone
<1> QED
  BY <1>5, <1>6, <1>7, <1>8, Zenon

\* A step of a running process, by what it has to show.
LEMMA ProcessStep ==
    ASSUME ReleaseInvariant, NEW p \in Procs, proc[p].pc # "idle", Moves(p),
           calm' \in BOOLEAN, calm' => calm, before' = before, DiskTyped',
           last' \in [op : Operations, rel : Names, how : Ways],
           checked \subseteq checked', current' \in Vouched', previous' \in Vouched',
           proc'[p].pc \in {"checked", "exchanged"} => stages'[p] \in Vouched',
           \A q \in Procs \ {p} : stages'[q] \in {stages[q], "none"},
           calm' /\ stages'[p] # "none" => proc'[p].pc \in Staging,
           calm' => Midway(p)',
           calm' /\ proc'[p] = Idle => Outcome'
    PROVE  ReleaseInvariant'
<1>1. Calmness'
  BY CalmStep, Zenon
<1>2. ProcessTyped'
  BY Zenon DEF Moves, ProcessTyped
<1>3. \A q \in Procs : Placed(proc'[q])
  BY Zenon DEF ReleaseInvariant, Moves
<1>4. VouchedFor'
  <2>1. Vouched \subseteq Vouched' /\ "none" \in Vouched'
    BY DEF Vouched
  <2>2. ASSUME NEW q \in Procs, proc'[q].pc \in {"checked", "exchanged"} PROVE stages'[q] \in Vouched'
    <3>1. CASE q = p
      BY <2>2, <3>1, Zenon
    <3>2. CASE q # p
      <4>1. proc'[q] = proc[q] /\ stages'[q] \in {stages[q], "none"}
        BY <3>2, Zenon DEF Moves
      <4>2. stages[q] \in Vouched
        BY <2>2, <4>1, Zenon DEF ReleaseInvariant, VouchedFor
      <4> QED
        BY <2>1, <4>1, <4>2, Zenon
    <3> QED
      BY <3>1, <3>2
  <2> QED
    BY <2>2, Zenon DEF VouchedFor
<1> QED
  BY <1>1, <1>2, <1>3, <1>4, Zenon DEF ReleaseInvariant

\* The end of a process: only its outcome is left to show.
LEMMA EndStep ==
    ASSUME ReleaseInvariant, NEW p \in Procs, proc[p].pc # "idle", NEW how \in Ways, Ends(p, how),
           calm' \in BOOLEAN, calm' => calm, before' = before, checked' = checked, DiskTyped',
           current' \in Vouched, previous' \in Vouched,
           \A q \in Procs : stages'[q] \in {stages[q], "none"},
           calm' => stages'[p] = "none",
           calm' => Outcome'
    PROVE  ReleaseInvariant'
<1>0. ProcessTyped
  BY Zenon DEF ReleaseInvariant
<1>1. /\ Moves(p) /\ proc'[p] = Idle
      /\ last' \in [op : Operations, rel : Names, how : Ways]
  BY <1>0, Ending, Zenon
<1>2. proc'[p].pc = "idle" /\ proc'[p].op = "none"
  BY <1>1 DEF Idle
<1>3. Midway(p)'
  BY <1>2, Zenon DEF Midway, Serving, Uninstalling
<1>4. Vouched' = Vouched
  BY DEF Vouched
<1> QED
  BY <1>1, <1>2, <1>3, <1>4, ProcessStep, Zenon

\* A process that goes on.
LEMMA GoStep ==
    ASSUME ReleaseInvariant, NEW p \in Procs, proc[p].pc # "idle", NEW pc \in Places \ {"idle"}, Goes(p, pc),
           Placed([pc |-> pc, op |-> proc[p].op, rel |-> proc[p].rel, back |-> proc[p].back]),
           calm' = calm, before' = before, DiskTyped',
           checked \subseteq checked', current' \in Vouched', previous' \in Vouched',
           pc \in {"checked", "exchanged"} => stages'[p] \in Vouched',
           \A q \in Procs \ {p} : stages'[q] \in {stages[q], "none"},
           calm /\ stages'[p] # "none" => pc \in Staging,
           calm => Midway(p)'
    PROVE  ReleaseInvariant'
<1>1. /\ proc' \in [Procs -> Processes] /\ \A q \in Procs \ {p} : proc'[q] = proc[q]
      /\ proc'[p] = [pc |-> pc, op |-> proc[p].op, rel |-> proc[p].rel, back |-> proc[p].back]
      /\ last' = last
  BY Going, Zenon DEF ReleaseInvariant
<1>2. Moves(p)
  BY <1>1, Zenon DEF Moves
<1>3. proc'[p].pc = pc
  BY Going, Zenon DEF ReleaseInvariant
<1>4. proc'[p] # Idle
  <2>1. Idle.pc = "idle"
    BY DEF Idle
  <2> QED
    BY <1>3, <2>1, Zenon
<1>5. calm \in BOOLEAN /\ last \in [op : Operations, rel : Names, how : Ways]
  BY Zenon DEF ReleaseInvariant, ProcessTyped
<1> QED
  BY <1>1, <1>2, <1>3, <1>4, <1>5, ProcessStep, Zenon

\* A killed process leaves the disk as it is, and the calm is over.
LEMMA kill_Keeps ==
    ASSUME ReleaseInvariant, NEW p \in Procs, kill(p)
    PROVE  ReleaseInvariant'
<1>1. Ends(p, "killed") /\ calm' = FALSE /\ UNCHANGED <<disk, checked, before>> /\ Spoilt /\ proc[p] # Idle
  BY Zenon DEF kill
<1>2. proc[p].pc # "idle"
  BY <1>1, Zenon DEF ReleaseInvariant, Placed
<1>3. DiskTyped'
  BY <1>1, ReleaseAssumption DEF ReleaseInvariant, DiskTyped, Spoilt, disk
<1>4. current' \in Vouched /\ previous' \in Vouched /\ stages' = stages
  BY <1>1, Zenon DEF ReleaseInvariant, VouchedFor, disk
<1>5. "killed" \in Ways
  BY DEF Ways
<1> QED
  BY <1>1, <1>2, <1>3, <1>4, <1>5, EndStep, Zenon

\* A process starts: the calm holds if it is alone, and what it compares with is what is there.
LEMMA StartStep ==
    ASSUME ReleaseInvariant, NEW p \in Procs, NEW op \in Operations \ {"none"}, NEW rel \in Names,
           NEW pc \in {"staged", "rollback", "disable"}, Starts(p, op, rel, pc),
           Placed([pc |-> pc, op |-> op, rel |-> rel, back |-> FALSE]),
           UNCHANGED <<current, previous, config, units, running, checked, mishaps>>,
           stages' \in [Procs -> Held], \A q \in Procs \ {p} : stages'[q] = stages[q],
           calm /\ Alone /\ stages'[p] # "none" => pc = "staged" /\ stages'[p] = rel,
           pc = "staged" => stages'[p] = rel
    PROVE  ReleaseInvariant'
<1> DEFINE new == [pc |-> pc, op |-> op, rel |-> rel, back |-> FALSE]
<1>1. /\ proc' = [proc EXCEPT ![p] = new] /\ calm' = (calm /\ Alone)
      /\ before' = [current |-> current, previous |-> previous, config |-> config]
      /\ last' = [op |-> "none", rel |-> "none", how |-> "running"]
      /\ proc \in [Procs -> Processes]
  BY Zenon DEF Starts, ReleaseInvariant, ProcessTyped
<1>2. new \in Processes /\ new.pc = pc /\ new.op = op /\ new.rel = rel /\ new.pc # "idle"
  BY DEF Processes, Places, Staging, Reverting, Removing
<1> HIDE DEF new
<1>3. proc' \in [Procs -> Processes] /\ proc'[p] = new /\ \A q \in Procs \ {p} : proc'[q] = proc[q]
  BY <1>1, <1>2, Zenon
<1>4. DiskTyped'
  BY DEF ReleaseInvariant, DiskTyped
<1>5. ProcessTyped'
  <2>1. last' \in [op : Operations, rel : Names, how : Ways]
    BY <1>1 DEF Operations, Names, Ways
  <2>2. calm' \in BOOLEAN
    BY <1>1, Zenon DEF ReleaseInvariant, ProcessTyped
  <2> QED
    BY <1>3, <2>1, <2>2, Zenon DEF ProcessTyped
<1>6. \A q \in Procs : Placed(proc'[q])
  BY <1>3, Zenon DEF ReleaseInvariant, new
<1>7. VouchedFor'
  <2>1. Vouched' = Vouched
    BY DEF Vouched
  <2>2. new.pc \notin {"checked", "exchanged"}
    BY <1>2
  <2> QED
    BY <1>3, <2>1, <2>2, Zenon DEF ReleaseInvariant, VouchedFor
<1>8. Calmness'
  <2> SUFFICES ASSUME calm, Alone
               PROVE  /\ \A q, r \in Procs : proc'[q].pc # "idle" /\ proc'[r].pc # "idle" => q = r
                      /\ \A q \in Procs : stages'[q] # "none" => proc'[q].pc \in Staging
                      /\ \A q \in Procs : Midway(q)'
                      /\ Alone' => Outcome'
    BY <1>1, Zenon DEF Calmness
  <2>1. Idle.pc = "idle" /\ Idle.op = "none"
    BY DEF Idle
  <2>2. \A q \in Procs \ {p} : proc'[q] = Idle
    BY <1>3, Zenon DEF Alone
  <2>3. \A q \in Procs : stages[q] = "none"
    BY <2>1, Zenon DEF Alone, ReleaseInvariant, Calmness, Staging
  <2>4. \A q, r \in Procs : proc'[q].pc # "idle" /\ proc'[r].pc # "idle" => q = r
    BY <2>1, <2>2, Zenon
  <2>5. \A q \in Procs : stages'[q] # "none" => proc'[q].pc \in Staging
    BY <1>2, <1>3, <2>3, Zenon DEF Staging
  <2>6. Midway(p)'
    <3>1. before'.current = current' /\ before'.previous = previous'
      BY <1>1
    <3>2. proc'[p].pc = pc /\ proc'[p].op = op /\ proc'[p].rel = rel
      BY <1>2, <1>3, Zenon
    <3>3. op = "install" => pc = "staged"
      BY SMT DEF Placed, Reverting, Removing
    <3>4. Installing(p)' \/ op # "install"
      BY <3>1, <3>2, <3>3 DEF Installing, Applying
    <3>5. Serving(p)' /\ Uninstalling(p)'
      BY <3>2, Zenon DEF Serving, Uninstalling
    <3> QED
      BY <3>1, <3>2, <3>4, <3>5, Zenon DEF Midway
  <2>7. \A q \in Procs : Midway(q)'
    BY <2>1, <2>2, <2>6, Zenon DEF Midway, Serving, Uninstalling
  <2>8. ~Alone'
    BY <1>2, <1>3, <2>1, Zenon DEF Alone
  <2> QED
    BY <2>4, <2>5, <2>7, <2>8, Zenon
<1> QED
  BY <1>4, <1>5, <1>6, <1>7, <1>8, Zenon DEF ReleaseInvariant

\* The four ways to start.
LEMMA Starts_Keep ==
    ASSUME ReleaseInvariant, NEW p \in Procs,
           \/ \E rel \in Releases : stage_bundle(p, rel)
           \/ rollback_release(p) \/ uninstall_preserving_state(p) \/ uninstall_preserving_encrypted_state(p)
    PROVE  ReleaseInvariant'
<1>0. stages \in [Procs -> Held] /\ \A q \in Procs : stages[q] # "none" /\ calm => proc[q] # Idle
  <2>1. Idle.pc \notin Staging
    BY DEF Idle, Staging
  <2> QED
    BY <2>1, Zenon DEF ReleaseInvariant, DiskTyped, Calmness
<1>1. ASSUME NEW rel \in Releases, stage_bundle(p, rel) PROVE ReleaseInvariant'
  <2>1. /\ Starts(p, "install", rel, "staged") /\ stages' = [stages EXCEPT ![p] = rel]
        /\ UNCHANGED <<current, previous, config, units, running, checked, mishaps>>
    BY <1>1, Zenon DEF stage_bundle
  <2>2. rel \in Names /\ rel \in Held
    BY DEF Names, Held
  <2>3. stages' \in [Procs -> Held] /\ stages'[p] = rel /\ \A q \in Procs \ {p} : stages'[q] = stages[q]
    BY <1>0, <2>1, <2>2, Zenon
  <2>4. Placed([pc |-> "staged", op |-> "install", rel |-> rel, back |-> FALSE])
    BY DEF Placed, Staging, Applying, Reverting, Removing
  <2>5. "install" \in Operations \ {"none"}
    BY DEF Operations
  <2> QED
    BY <2>1, <2>2, <2>3, <2>4, <2>5, StartStep, Zenon
<1>2. ASSUME NEW op \in {"rollback", "uninstall"}, NEW pc \in {"rollback", "disable"}, 
             op = "rollback" <=> pc = "rollback",
             Starts(p, op, "none", pc), UNCHANGED <<disk, checked, mishaps>>
      PROVE  ReleaseInvariant'
  <2>1. Placed([pc |-> pc, op |-> op, rel |-> "none", back |-> FALSE])
    BY <1>2 DEF Placed, Staging, Applying, Reverting, Removing
  <2>2. op \in Operations \ {"none"} /\ "none" \in Names /\ pc # "staged"
    BY DEF Operations, Names
  <2>3. UNCHANGED <<current, previous, config, units, running, stages>>
    BY <1>2 DEF disk
  <2>4. calm /\ Alone => stages[p] = "none"
    BY <1>0, Zenon DEF Alone
  <2> QED
    BY <1>0, <1>2, <2>1, <2>2, <2>3, <2>4, StartStep, Zenon
<1>3. rollback_release(p) => Starts(p, "rollback", "none", "rollback") /\ UNCHANGED <<disk, checked, mishaps>>
  BY Zenon DEF rollback_release
<1>4. uninstall_preserving_state(p) \/ uninstall_preserving_encrypted_state(p) =>
          Starts(p, "uninstall", "none", "disable") /\ UNCHANGED <<disk, checked, mishaps>>
  BY Zenon DEF uninstall_preserving_state, uninstall_preserving_encrypted_state
<1> QED
  BY <1>1, <1>2, <1>3, <1>4, Zenon

\* What the invariant says of one process.
LEMMA Known ==
    ASSUME ReleaseInvariant, NEW p \in Procs
    PROVE  /\ DiskTyped /\ ProcessTyped /\ proc[p] \in Processes /\ Placed(proc[p])
           /\ current \in Vouched /\ previous \in Vouched
           /\ proc[p].pc \in {"checked", "exchanged"} => stages[p] \in Vouched
           /\ calm \in BOOLEAN /\ stages \in [Procs -> Held]
           /\ calm => Midway(p)
           /\ calm /\ stages[p] # "none" => proc[p].pc \in Staging
BY Zenon DEF ReleaseInvariant, ProcessTyped, DiskTyped, VouchedFor, Calmness

\* The self-check vouches for the staged release; a refusal leaves what was there.
LEMMA handshakeStaged_Keeps ==
    ASSUME ReleaseInvariant, NEW p \in Procs, NEW ok \in BOOLEAN, handshakeStaged(p, ok)
    PROVE  ReleaseInvariant'
<1> USE Known
<1>0. /\ proc[p].pc = "staged" /\ proc[p].op = "install" /\ ~proc[p].back
      /\ UNCHANGED <<current, previous, config, units, running, calm, before>>
  BY Zenon DEF handshakeStaged, Placed, Staging
<1>1. CASE ok /\ release_handshake(stages[p])
  <2>1. checked' = checked \cup {stages[p]} /\ Goes(p, "checked") /\ UNCHANGED <<stages, mishaps>>
    BY <1>1, Zenon DEF handshakeStaged
  <2>2. stages[p] \in Releases
    BY <1>1 DEF release_handshake, installed_metadata
  <2>3. DiskTyped'
    BY <1>0, <2>1, <2>2, Zenon DEF DiskTyped
  <2>4. checked \subseteq checked' /\ current' \in Vouched' /\ previous' \in Vouched' /\ stages'[p] \in Vouched'
    BY <1>0, <2>1, Zenon DEF Vouched
  <2>5. Placed([pc |-> "checked", op |-> proc[p].op, rel |-> proc[p].rel, back |-> proc[p].back])
    BY <1>0, Zenon DEF Placed, Staging, Applying, Reverting, Removing
  <2>6. "checked" \in Places \ {"idle"} /\ "checked" \in Staging
    BY Zenon DEF Places, Staging
  <2>7. calm => Midway(p)'
    <3>2. proc'[p].pc = "checked" /\ proc'[p].op = "install" /\ proc'[p].rel = proc[p].rel
      BY <1>0, <2>1, <2>6, Going, Zenon
    <3> QED
      BY <1>0, <2>1, <3>2, Zenon DEF Midway, Installing, Serving, Uninstalling, Applying
  <2> QED
    BY <1>0, <2>1, <2>3, <2>4, <2>5, <2>6, <2>7, GoStep, Zenon
<1>2. CASE ~(ok /\ release_handshake(stages[p]))
  <2>1. /\ stages' = [stages EXCEPT ![p] = "none"] /\ Ends(p, "refused") /\ UNCHANGED checked
        /\ mishaps' = mishaps \/ Spoilt
    BY <1>2, Zenon DEF handshakeStaged
  <2>2. "none" \in Held /\ "refused" \in Ways
    BY Zenon DEF Held, Ways
  <2>3. stages' \in [Procs -> Held] /\ stages'[p] = "none" /\ \A q \in Procs : stages'[q] \in {stages[q], "none"}
    BY <2>1, <2>2, Zenon
  <2>4. DiskTyped'
    BY <1>0, <2>1, <2>3, Spoiling, Words, Zenon DEF DiskTyped
  <2>5. calm => Outcome'
    <3>1. last'.op = "install" /\ last'.how = "refused"
      BY <1>0, <2>1, <2>2, Ending, Zenon
    <3> QED
      BY <1>0, <3>1, Zenon DEF Midway, Installing, Outcome
  <2> QED
    BY <1>0, <2>1, <2>2, <2>3, <2>4, <2>5, EndStep, Zenon
<1> QED
  BY <1>1, <1>2

\* The staged release becomes current.
LEMMA activateCurrent_Keeps ==
    ASSUME ReleaseInvariant, NEW p \in Procs, activateCurrent(p)
    PROVE  ReleaseInvariant'
<1> USE Known
<1> DEFINE next == IF current = "none" THEN "configure" ELSE "exchanged"
<1>0. /\ proc[p].pc = "checked" /\ proc[p].op = "install" /\ ~proc[p].back /\ proc[p].rel \in Releases
      /\ current' = stages[p] /\ stages' = [stages EXCEPT ![p] = current] /\ Goes(p, next)
      /\ UNCHANGED <<previous, config, units, running, checked, calm, before, mishaps>>
  BY Zenon DEF activateCurrent, Placed, Staging
<1>1. current \in Held /\ stages[p] \in Held /\ stages[p] \in Vouched
  BY <1>0, Zenon DEF DiskTyped
<1>2. stages' \in [Procs -> Held] /\ stages'[p] = current /\ \A q \in Procs \ {p} : stages'[q] = stages[q]
  BY <1>0, <1>1, Zenon
<1>3. DiskTyped'
  BY <1>0, <1>1, <1>2, Zenon DEF DiskTyped
<1>4. Vouched' = Vouched
  BY <1>0, Zenon DEF Vouched
<1>5. next \in Places \ {"idle"} /\ (current # "none" => next = "exchanged" /\ next \in Staging)
      /\ (current = "none" => next = "configure")
  BY DEF Places, Staging, Applying
<1> HIDE DEF next
<1>6. Placed([pc |-> next, op |-> proc[p].op, rel |-> proc[p].rel, back |-> proc[p].back])
  BY <1>0, <1>5, Zenon DEF Placed, Staging, Applying, Reverting, Removing
<1>7. calm => Midway(p)'
  <2>2. proc'[p].pc = next /\ proc'[p].op = "install" /\ proc'[p].rel = proc[p].rel /\ ~proc'[p].back
    BY <1>0, <1>5, Going, Zenon
  <2>3. calm => current = before.current /\ stages[p] = proc[p].rel
    BY <1>0, Zenon DEF Midway, Installing
  <2> QED
    BY <1>0, <1>2, <1>5, <2>2, <2>3, Zenon DEF Midway, Installing, Serving, Uninstalling, Applying
<1> QED
  BY <1>0, <1>1, <1>2, <1>3, <1>4, <1>5, <1>6, <1>7, GoStep, Zenon

\* What was current becomes previous.
LEMMA activatePrevious_Keeps ==
    ASSUME ReleaseInvariant, NEW p \in Procs, activatePrevious(p)
    PROVE  ReleaseInvariant'
<1> USE Known
<1>0. /\ proc[p].pc = "exchanged" /\ proc[p].op = "install" /\ ~proc[p].back /\ proc[p].rel \in Releases
      /\ previous' = stages[p] /\ stages' = [stages EXCEPT ![p] = "none"] /\ Goes(p, "configure")
      /\ UNCHANGED <<current, config, units, running, checked, calm, before, mishaps>>
  BY Zenon DEF activatePrevious, Placed, Staging
<1>1. "none" \in Held /\ stages[p] \in Held /\ stages[p] \in Vouched
  BY <1>0, Zenon DEF DiskTyped, Held
<1>2. stages' \in [Procs -> Held] /\ stages'[p] = "none" /\ \A q \in Procs \ {p} : stages'[q] = stages[q]
  BY <1>0, <1>1, Zenon
<1>3. DiskTyped'
  BY <1>0, <1>1, <1>2, Zenon DEF DiskTyped
<1>4. Vouched' = Vouched
  BY <1>0, Zenon DEF Vouched
<1>5. "configure" \in Places \ {"idle"}
  BY DEF Places, Applying
<1>6. Placed([pc |-> "configure", op |-> proc[p].op, rel |-> proc[p].rel, back |-> proc[p].back])
  BY <1>0, Zenon DEF Placed, Staging, Applying, Reverting, Removing
<1>7. calm => Midway(p)'
  <2>2. proc'[p].pc = "configure" /\ proc'[p].op = "install" /\ proc'[p].rel = proc[p].rel /\ ~proc'[p].back
    BY <1>0, <1>5, Going, Zenon
  <2>3. calm => current = proc[p].rel /\ stages[p] = before.current
    BY <1>0, Zenon DEF Midway, Installing
  <2> QED
    BY <1>0, <2>2, <2>3, Zenon DEF Midway, Installing, Serving, Uninstalling, Applying
<1> QED
  BY <1>0, <1>1, <1>2, <1>3, <1>4, <1>5, <1>6, <1>7, GoStep, Zenon

\* A process that finds its staging directory removed was not alone.
LEMMA activateFails_Keeps ==
    ASSUME ReleaseInvariant, NEW p \in Procs, activateFails(p)
    PROVE  ReleaseInvariant'
<1> USE Known
<1>0. /\ proc[p].pc \in {"checked", "exchanged"} /\ stages[p] = "none" /\ Ends(p, "failed")
      /\ UNCHANGED <<current, previous, stages, config, units, running, checked, calm, before, mishaps>>
      /\ proc[p].op = "install"
  BY Zenon DEF activateFails, disk, Placed, Staging
<1>1. DiskTyped' /\ "failed" \in Ways
  BY <1>0 DEF DiskTyped, Ways
<1>2. Outcome'
  <2>1. last'.op = "install" /\ last'.how = "failed"
    BY <1>0, <1>1, Ending, Zenon
  <2> QED
    BY <2>1 DEF Outcome
<1> QED
  BY <1>0, <1>1, <1>2, EndStep, Zenon

\* The configuration is written for the release that is current.
LEMMA atomicConfig_Keeps ==
    ASSUME ReleaseInvariant, NEW p \in Procs, atomicConfig(p)
    PROVE  ReleaseInvariant'
<1> USE Known
<1>0. /\ proc[p].pc = "configure" /\ installed_metadata(config_bytes(p))
      /\ config' = config_bytes(p) /\ Goes(p, "units")
      /\ UNCHANGED <<current, previous, stages, units, running, checked, calm, before, mishaps>>
  BY Zenon DEF atomicConfig
<1>1. DiskTyped'
  BY <1>0, Zenon DEF DiskTyped, installed_metadata, Names
<1>2. Vouched' = Vouched
  BY <1>0, Zenon DEF Vouched
<1>3. "units" \in Places \ {"idle"} /\ "configure" \notin Staging
  BY DEF Places, Applying, Staging
<1>4. proc[p].op \in {"install", "rollback"}
  BY <1>0, Zenon DEF Placed, Applying
<1>5. Placed([pc |-> "units", op |-> proc[p].op, rel |-> proc[p].rel, back |-> proc[p].back])
  BY <1>0, <1>4, Zenon DEF Placed, Staging, Applying, Reverting, Removing
<1>6. calm => Midway(p)'
  <2>2. proc'[p].pc = "units" /\ proc'[p].op = proc[p].op /\ proc'[p].rel = proc[p].rel /\ proc'[p].back = proc[p].back
    BY <1>0, <1>3, Going, Zenon
  <2>3. calm => config_bytes(p) = current
    BY <1>0, Zenon DEF Midway, Installing, Applying, config_bytes
  <2>4. ASSUME calm, proc[p].op = "install" PROVE Installing(p)'
    BY <1>0, <2>2, <2>4, Zenon DEF Midway, Installing, Applying
  <2>5. calm => Serving(p)' /\ Uninstalling(p)'
    BY <1>0, <2>2, <2>3, Zenon DEF Serving, Uninstalling
  <2>6. calm /\ proc[p].op = "rollback" => ({current, previous} = {before.current, before.previous})'
    BY <1>0, Zenon DEF Midway
  <2> QED
    BY <2>2, <2>4, <2>5, <2>6, Zenon DEF Midway
<1> QED
  BY <1>0, <1>1, <1>2, <1>3, <1>5, <1>6, GoStep, Zenon

\* The units are those of current; cut in the middle they are nobody's.
LEMMA install_units_Keeps ==
    ASSUME ReleaseInvariant, NEW p \in Procs, NEW part \in BOOLEAN, install_units(p, part)
    PROVE  ReleaseInvariant'
<1> USE Known
<1>0. /\ proc[p].pc = "units" /\ UNCHANGED <<current, previous, stages, config, running, checked, before>>
  BY Zenon DEF install_units
<1>1. Vouched' = Vouched /\ "units" \notin Staging
  BY <1>0, Zenon DEF Vouched, Staging
<1>2. CASE part
  <2>1. Spoilt /\ calm' = FALSE /\ Ends(p, "killed") /\ units' = "part"
    BY <1>2, Zenon DEF install_units
  <2>2. DiskTyped' /\ "killed" \in Ways
    BY <1>0, <2>1, Spoiling, Words, Zenon DEF DiskTyped
  <2> QED
    BY <1>0, <2>1, <2>2, EndStep, Zenon
<1>3. CASE ~part
  <2>1. units' = current /\ Goes(p, "restart") /\ UNCHANGED <<mishaps, calm>>
    BY <1>3, Zenon DEF install_units
  <2>2. DiskTyped'
    BY <1>0, <2>1, Zenon DEF DiskTyped
  <2>3. "restart" \in Places \ {"idle"} /\ proc[p].op \in {"install", "rollback"}
    BY <1>0, Zenon DEF Places, Applying, Placed
  <2>4. Placed([pc |-> "restart", op |-> proc[p].op, rel |-> proc[p].rel, back |-> proc[p].back])
    BY <1>0, <2>3, Zenon DEF Placed, Staging, Applying, Reverting, Removing
  <2>5. calm => Midway(p)'
    <3>2. proc'[p].pc = "restart" /\ proc'[p].op = proc[p].op /\ proc'[p].rel = proc[p].rel /\ proc'[p].back = proc[p].back
      BY <2>1, <2>3, Going, Zenon
    <3>3. ASSUME calm, proc[p].op = "install" PROVE Installing(p)'
      BY <1>0, <3>2, <3>3, Zenon DEF Midway, Installing, Applying
    <3>4. calm => Serving(p)' /\ Uninstalling(p)'
      BY <1>0, <2>1, <3>2, Zenon DEF Midway, Serving, Uninstalling
    <3>5. calm /\ proc[p].op = "rollback" => ({current, previous} = {before.current, before.previous})'
      BY <1>0, Zenon DEF Midway
    <3> QED
      BY <3>2, <3>3, <3>4, <3>5, Zenon DEF Midway
  <2> QED
    BY <1>0, <1>1, <2>1, <2>2, <2>3, <2>4, <2>5, GoStep, Zenon
<1> QED
  BY <1>2, <1>3

\* The restart ends an install, a rollback, or an install that went back.
LEMMA restart_services_Keeps ==
    ASSUME ReleaseInvariant, NEW p \in Procs, restart_services(p)
    PROVE  ReleaseInvariant'
<1> USE Known
<1> DEFINE how == IF proc[p].back THEN "rolled back" ELSE "done"
<1>0. /\ proc[p].pc = "restart" /\ running' = [code |-> current, config |-> config] /\ Ends(p, how)
      /\ UNCHANGED <<current, previous, stages, config, units, checked, calm, before, mishaps>>
  BY Zenon DEF restart_services
<1>1. DiskTyped'
  BY <1>0, Zenon DEF DiskTyped
<1>2. how \in Ways /\ (how = "done" <=> ~proc[p].back) /\ how \in {"done", "rolled back"}
  BY DEF Ways
<1> HIDE DEF how
<1>3. proc[p].op \in {"install", "rollback"} /\ "restart" \in Applying /\ "restart" \notin Staging
  BY <1>0, Zenon DEF Placed, Applying, Staging
<1>4. calm => Outcome'
  <2> SUFFICES ASSUME calm PROVE Outcome'
    BY Zenon
  <2>2. last'.op = proc[p].op /\ last'.rel = proc[p].rel /\ last'.how = how
    BY <1>0, <1>2, Ending, Zenon
  <2>3. config = current /\ units = current
    BY <1>0, Zenon DEF Midway, Serving
  <2>4. running'.code = current /\ running'.config = current
    BY <1>0, <2>3, Zenon
  <2>5. {current, config, units, running.code, running.config}' = {current}
    BY <1>0, <2>3, <2>4, Zenon
  <2>6. CASE proc[p].op = "rollback"
    BY <1>0, <2>2, <2>6, Zenon DEF Outcome, Midway
  <2>7. CASE proc[p].op = "install" /\ ~proc[p].back
    <3>1. current = proc[p].rel /\ (previous = before.current \/ before.current = "none")
      BY <1>0, <1>3, <2>7, Zenon DEF Midway, Installing
    <3> QED
      BY <1>0, <1>2, <2>2, <2>5, <2>7, <3>1, Zenon DEF Outcome
  <2>8. CASE proc[p].op = "install" /\ proc[p].back
    <3>1. before.current \in Releases => current = before.current
      BY <1>0, <1>3, <2>8, Zenon DEF Midway, Installing
    <3> QED
      BY <1>0, <1>2, <2>2, <2>5, <2>8, <3>1, Zenon DEF Outcome
  <2> QED
    BY <1>3, <2>6, <2>7, <2>8, Zenon
<1> QED
  BY <1>0, <1>1, <1>2, <1>3, <1>4, EndStep, Zenon

\* A failed step: an install goes back if it can, everything else ends.
LEMMA stepFails_Keeps ==
    ASSUME ReleaseInvariant, NEW p \in Procs, stepFails(p)
    PROVE  ReleaseInvariant'
<1> USE Known
<1>0. /\ proc[p].pc \in Applying
      /\ UNCHANGED <<current, previous, stages, config, units, checked, calm, before>>
      /\ mishaps' = mishaps \/ Spoilt
  BY Zenon DEF stepFails, Applying
<1>1. DiskTyped'
  BY <1>0, Spoiling, Words, Zenon DEF DiskTyped
<1>2. proc[p].op \in {"install", "rollback"} /\ proc[p].pc \notin Staging /\ proc[p].pc # "idle"
  BY <1>0, Zenon DEF Placed, Applying, Staging
<1>3. CASE proc[p].op = "install" /\ ~proc[p].back /\ previous # "none"
  <2> DEFINE new == [pc |-> "rollback", op |-> "install", rel |-> proc[p].rel, back |-> TRUE]
  <2>1. proc' = [proc EXCEPT ![p].pc = "rollback", ![p].back = TRUE] /\ last' = last
    BY <1>3, Zenon DEF stepFails
  <2>2. proc \in [Procs -> Processes] /\ last \in [op : Operations, rel : Names, how : Ways]
    BY Zenon DEF ProcessTyped
  <2>3. proc' = [proc EXCEPT ![p] = new]
    BY <1>3, <2>1, <2>2 DEF Processes
  <2>0. proc[p].rel \in Releases
    BY <1>3, Zenon DEF Placed
  <2>4. new \in Processes /\ Placed(new) /\ new.pc = "rollback" /\ new.op = "install" /\ new # Idle
    BY <2>0, Zenon DEF Processes, Places, Reverting, Operations, Placed, Staging, Applying, Removing, Idle, Names
  <2> HIDE DEF new
  <2>5. Moves(p) /\ proc'[p] = new
    BY <2>2, <2>3, <2>4, Zenon DEF Moves
  <2>6. calm => Midway(p)'
    <3>1. calm /\ before.current \in Releases => previous = before.current
      BY <1>0, <1>3, ReleaseNames, Zenon DEF Midway, Installing
    <3> QED
      BY <1>0, <2>4, <2>5, <3>1, Zenon DEF Midway, Installing, Serving, Uninstalling, Applying
  <2>7. Vouched' = Vouched /\ checked' = checked
    BY <1>0, Zenon DEF Vouched
  <2>8. proc'[p].pc \notin {"checked", "exchanged"}
    BY <2>4, <2>5, Zenon
  <2> QED
    BY <1>0, <1>1, <1>2, <2>1, <2>2, <2>4, <2>5, <2>6, <2>7, <2>8, ProcessStep, Zenon
<1>4. CASE ~(proc[p].op = "install" /\ ~proc[p].back /\ previous # "none")
  <2>1. Ends(p, "failed") /\ "failed" \in Ways
    BY <1>4, Zenon DEF stepFails, Ways
  <2>2. calm => Outcome'
    <3>1. last'.op = proc[p].op /\ last'.how = "failed"
      BY <2>1, Ending, Zenon
    <3>2. calm /\ proc[p].op = "rollback" => ({current, previous} = {before.current, before.previous})'
      BY <1>0, Zenon DEF Midway
    <3> QED
      BY <1>2, <3>1, <3>2, Zenon DEF Outcome
  <2> QED
    BY <1>0, <1>1, <1>2, <2>1, <2>2, EndStep, Zenon
<1> QED
  BY <1>3, <1>4

\* The exchange of the two releases.
LEMMA rollback_Keeps ==
    ASSUME ReleaseInvariant, NEW p \in Procs, NEW ok \in BOOLEAN, rollback(p, ok)
    PROVE  ReleaseInvariant'
<1> USE Known
<1>0. /\ proc[p].pc = "rollback" /\ "rollback" \notin Staging
      /\ UNCHANGED <<stages, config, units, running, checked, calm, before>>
      /\ (proc[p].op = "install" /\ proc[p].back) \/ proc[p].op = "rollback"
  BY Zenon DEF rollback, Staging, Placed, Reverting
<1>1. CASE Goes(p, "rolled") /\ current' = previous /\ previous' = current /\ mishaps' = mishaps
  <2>1. DiskTyped'
    BY <1>0, <1>1, Zenon DEF DiskTyped
  <2>2. "rolled" \in Places \ {"idle"}
    BY DEF Places, Reverting
  <2>3. Placed([pc |-> "rolled", op |-> proc[p].op, rel |-> proc[p].rel, back |-> proc[p].back])
    BY <1>0, Zenon DEF Placed, Staging, Applying, Reverting, Removing
  <2>4. calm => Midway(p)'
    <3>2. proc'[p].pc = "rolled" /\ proc'[p].op = proc[p].op
      BY <1>1, <2>2, Going, Zenon
    <3>3. ASSUME calm, proc[p].op = "install" PROVE Installing(p)'
      BY <1>0, <1>1, <3>2, <3>3, Zenon DEF Midway, Installing, Applying
    <3>4. Serving(p)' /\ Uninstalling(p)'
      BY <3>2, Zenon DEF Serving, Uninstalling
    <3>5. calm /\ proc[p].op = "rollback" => ({current, previous} = {before.current, before.previous})'
      BY <1>0, <1>1, Zenon DEF Midway
    <3> QED
      BY <3>2, <3>3, <3>4, <3>5, Zenon DEF Midway
  <2>5. Vouched' = Vouched /\ checked' = checked
    BY <1>0 DEF Vouched
  <2> QED
    BY <1>0, <1>1, <2>1, <2>2, <2>3, <2>4, <2>5, GoStep, Zenon
<1>2. CASE Ends(p, "failed") /\ current' = current /\ previous' = previous /\ (mishaps' = mishaps \/ Spoilt)
  <2>1. DiskTyped' /\ "failed" \in Ways
    BY <1>0, <1>2, Spoiling, Words, Zenon DEF DiskTyped
  <2>2. calm => Outcome'
    <3>1. last'.op = proc[p].op /\ last'.how = "failed"
      BY <1>2, <2>1, Ending, Zenon
    <3>2. calm /\ proc[p].op = "rollback" => ({current, previous} = {before.current, before.previous})'
      BY <1>0, <1>2, Zenon DEF Midway
    <3> QED
      BY <1>0, <3>1, <3>2 DEF Outcome
  <2> QED
    BY <1>0, <1>2, <2>1, <2>2, EndStep, Zenon
<1> QED
  BY <1>1, <1>2, Zenon DEF rollback

\* The second self-check, after which the two stay exchanged or are exchanged back.
LEMMA rollbackHandshake_Keeps ==
    ASSUME ReleaseInvariant, NEW p \in Procs, NEW ok \in BOOLEAN, rollbackHandshake(p, ok)
    PROVE  ReleaseInvariant'
<1> USE Known
<1>0. /\ proc[p].pc = "rolled" /\ "rolled" \notin Staging
      /\ UNCHANGED <<stages, config, units, running, checked, calm, before>>
      /\ (proc[p].op = "install" /\ proc[p].back) \/ proc[p].op = "rollback"
  BY Zenon DEF rollbackHandshake, Staging, Placed, Reverting
<1>1. CASE Goes(p, "configure") /\ current' = current /\ previous' = previous /\ mishaps' = mishaps
  <2>1. DiskTyped'
    BY <1>0, <1>1, Zenon DEF DiskTyped
  <2>2. "configure" \in Places \ {"idle"}
    BY Zenon DEF Places, Applying
  <2>3. Placed([pc |-> "configure", op |-> proc[p].op, rel |-> proc[p].rel, back |-> proc[p].back])
    BY <1>0, Zenon DEF Placed, Staging, Applying, Reverting, Removing
  <2>4. calm => Midway(p)'
    <3>2. proc'[p].pc = "configure" /\ proc'[p].op = proc[p].op /\ proc'[p].back = proc[p].back
      BY <1>1, <2>2, Going, Zenon
    <3>3. ASSUME calm, proc[p].op = "install" PROVE Installing(p)'
      BY <1>0, <1>1, <3>2, <3>3, Zenon DEF Midway, Installing, Applying
    <3>4. Serving(p)' /\ Uninstalling(p)'
      BY <3>2, Zenon DEF Serving, Uninstalling
    <3>5. calm /\ proc[p].op = "rollback" => ({current, previous} = {before.current, before.previous})'
      BY <1>0, <1>1, Zenon DEF Midway
    <3> QED
      BY <3>2, <3>3, <3>4, <3>5, Zenon DEF Midway
  <2>5. Vouched' = Vouched /\ checked' = checked
    BY <1>0 DEF Vouched
  <2> QED
    BY <1>0, <1>1, <2>1, <2>2, <2>3, <2>4, <2>5, GoStep, Zenon
<1>2. CASE Ends(p, "failed") /\ current' = previous /\ previous' = current /\ (mishaps' = mishaps \/ Spoilt)
  <2>1. DiskTyped' /\ "failed" \in Ways
    BY <1>0, <1>2, Spoiling, Words, Zenon DEF DiskTyped
  <2>2. calm => Outcome'
    <3>1. last'.op = proc[p].op /\ last'.how = "failed"
      BY <1>2, <2>1, Ending, Zenon
    <3>2. calm /\ proc[p].op = "rollback" => ({current, previous} = {before.current, before.previous})'
      BY <1>0, <1>2, Zenon DEF Midway
    <3> QED
      BY <1>0, <3>1, <3>2, Zenon DEF Outcome
  <2> QED
    BY <1>0, <1>2, <2>1, <2>2, EndStep, Zenon
<1> QED
  BY <1>1, <1>2, Zenon DEF rollbackHandshake

\* An uninstall removes one thing after the other.
LEMMA Uninstall_Keeps ==
    ASSUME ReleaseInvariant, NEW p \in Procs, disable(p) \/ unlinkUnits(p) \/ removeConfig(p)
    PROVE  ReleaseInvariant'
<1> USE Known
<1>1. ASSUME NEW pc \in {"unlink", "remove"}, Goes(p, pc), proc[p].pc \in Removing,
             UNCHANGED <<current, previous, stages, config, checked, calm, before, mishaps>>, units' \in Held,
             running' = Off, calm /\ pc = "remove" => units' = "none"
      PROVE  ReleaseInvariant'
  <2>1. DiskTyped'
    BY <1>1, Zenon DEF DiskTyped
  <2>2. pc \in Places \ {"idle"} /\ proc[p].pc \notin Staging /\ proc[p].pc # "idle" /\ proc[p].op = "uninstall"
    BY <1>1, Zenon DEF Places, Removing, Staging, Placed
  <2>3. Placed([pc |-> pc, op |-> proc[p].op, rel |-> proc[p].rel, back |-> proc[p].back])
    BY <2>2, Zenon DEF Placed, Staging, Applying, Reverting, Removing
  <2>4. calm => Midway(p)'
    <3>2. proc'[p].pc = pc /\ proc'[p].op = "uninstall"
      BY <1>1, <2>2, Going, Zenon
    <3>3. calm => Uninstalling(p)'
      BY <1>1, <3>2, Zenon DEF Uninstalling
    <3> QED
      BY <3>2, <3>3, Zenon DEF Midway, Serving
  <2>5. Vouched' = Vouched /\ checked' = checked /\ pc \notin {"checked", "exchanged"}
    BY <1>1, Zenon DEF Vouched
  <2> QED
    BY <1>1, <2>1, <2>2, <2>3, <2>4, <2>5, GoStep, Zenon
<1>2. CASE disable(p)
  <2>1. /\ proc[p].pc = "disable" /\ proc[p].pc \in Removing /\ proc[p].pc \notin Staging
        /\ UNCHANGED <<current, previous, stages, config, units, checked, calm, before>>
    BY <1>2, Zenon DEF disable, Removing, Staging
  <2>2. CASE running' = Off /\ Goes(p, "unlink") /\ UNCHANGED mishaps
    <3>1. units' \in Held
      BY <2>1, Zenon DEF DiskTyped
    <3> QED
      BY <1>1, <2>1, <2>2, <3>1, Zenon
  <2>3. CASE Spoilt /\ Ends(p, "failed") /\ UNCHANGED running
    <3>0. mishaps' \in 0 .. MaxFailures /\ "failed" \in Ways
      BY <2>3, Spoiling, Words, Zenon DEF DiskTyped
    <3>1. DiskTyped' /\ "failed" \in Ways
      BY <2>1, <3>0, Zenon DEF DiskTyped
    <3>2. Outcome'
      <4>1. last'.op = "uninstall" /\ last'.how = "failed"
        BY <2>1, <2>3, <3>1, Ending, Zenon DEF Placed
      <4> QED
        BY <4>1, Zenon DEF Outcome
    <3> QED
      BY <2>1, <2>3, <3>1, <3>2, EndStep, Zenon
  <2> QED
    BY <1>2, <2>2, <2>3, Zenon DEF disable
<1>3. CASE unlinkUnits(p)
  <2>1. /\ proc[p].pc = "unlink" /\ proc[p].pc \in Removing /\ units' = "none" /\ Goes(p, "remove")
        /\ UNCHANGED <<current, previous, stages, config, running, checked, calm, before, mishaps>>
    BY <1>3, Zenon DEF unlinkUnits, Removing
  <2>2. DiskTyped'
    BY <2>1, Zenon DEF DiskTyped, Held
  <2>3. "remove" \in Places \ {"idle"} /\ proc[p].pc \notin Staging /\ proc[p].op = "uninstall"
    BY <2>1, Zenon DEF Places, Removing, Staging, Placed
  <2>4. Placed([pc |-> "remove", op |-> proc[p].op, rel |-> proc[p].rel, back |-> proc[p].back])
    BY <2>3, Zenon DEF Placed, Staging, Applying, Reverting, Removing
  <2>5. calm => Midway(p)'
    <3>2. proc'[p].pc = "remove" /\ proc'[p].op = "uninstall"
      BY <2>1, <2>3, Going, Zenon
    <3>3. calm => Uninstalling(p)'
      BY <2>1, <3>2, Zenon DEF Midway, Uninstalling
    <3> QED
      BY <3>2, <3>3, Zenon DEF Midway, Serving
  <2>6. Vouched' = Vouched /\ checked' = checked
    BY <2>1, Zenon DEF Vouched
  <2> QED
    BY <2>1, <2>2, <2>3, <2>4, <2>5, <2>6, GoStep, Zenon
<1>4. CASE removeConfig(p)
  <2>1. /\ proc[p].pc = "unconfigure" /\ config' = "none" /\ Ends(p, "done") /\ proc[p].pc \notin Staging
        /\ UNCHANGED <<current, previous, stages, units, running, checked, calm, before, mishaps>>
    BY <1>4, Zenon DEF removeConfig, Staging
  <2>2. DiskTyped' /\ "done" \in Ways
    BY <2>1, Zenon DEF DiskTyped, Names, Ways
  <2>3. calm => Outcome'
    <3>0. proc[p].op = "uninstall"
      BY <2>1, Zenon DEF Placed, Removing
    <3>1. last'.op = "uninstall"
      BY <2>1, <2>2, <3>0, Ending, Zenon
    <3>2. calm => running.code = "none" /\ units = "none" /\ current = "none" /\ previous = "none"
      BY <2>1, ReleaseNames, Zenon DEF Midway, Uninstalling
    <3> QED
      BY <2>1, <3>1, <3>2, Zenon DEF Outcome
  <2> QED
    BY <2>1, <2>2, <2>3, EndStep, Zenon
<1> QED
  BY <1>2, <1>3, <1>4, Zenon

\* The tree goes with all it holds, or is cut half way.
LEMMA removeTree_Keeps ==
    ASSUME ReleaseInvariant, NEW p \in Procs, NEW part \in BOOLEAN, removeTree(p, part)
    PROVE  ReleaseInvariant'
<1> USE Known
<1>0. proc[p].pc = "remove" /\ proc[p].op = "uninstall" /\ UNCHANGED <<config, units, running, checked, before>>
  BY Zenon DEF removeTree, Placed, Removing
<1>1. "none" \in Vouched /\ "part" \in Vouched /\ "none" \in Held /\ "part" \in Held
  BY DEF Vouched, Held
<1>2. CASE part
  <2>1. /\ Spoilt /\ calm' = FALSE /\ Ends(p, "killed") /\ current' \in {"none", "part"}
        /\ UNCHANGED <<previous, stages>>
    BY <1>2, Zenon DEF removeTree
  <2>2. DiskTyped' /\ "killed" \in Ways
    BY <1>0, <1>1, <2>1, Spoiling, Words, Zenon DEF DiskTyped
  <2> QED
    BY <1>0, <1>1, <2>1, <2>2, EndStep, Zenon
<1>3. CASE ~part
  <2>1. /\ current' = "none" /\ previous' = "none" /\ stages' = [q \in Procs |-> "none"]
        /\ Goes(p, "unconfigure") /\ UNCHANGED <<calm, mishaps>>
    BY <1>3, Zenon DEF removeTree
  <2>2. DiskTyped'
    BY <1>0, <1>1, <2>1, Zenon DEF DiskTyped
  <2>3. "unconfigure" \in Places \ {"idle"} /\ \A q \in Procs : stages'[q] = "none"
    BY <2>1, Zenon DEF Places, Removing
  <2>4. Placed([pc |-> "unconfigure", op |-> proc[p].op, rel |-> proc[p].rel, back |-> proc[p].back])
    BY <1>0, Zenon DEF Placed, Staging, Applying, Reverting, Removing
  <2>5. calm => Midway(p)'
    <3>2. proc'[p].pc = "unconfigure" /\ proc'[p].op = "uninstall"
      BY <1>0, <2>1, <2>3, Going, Zenon
    <3>3. calm => Uninstalling(p)'
      BY <1>0, <2>1, <3>2, Zenon DEF Midway, Uninstalling
    <3> QED
      BY <3>2, <3>3, Zenon DEF Midway, Serving
  <2>6. Vouched' = Vouched /\ checked' = checked
    BY <1>0 DEF Vouched
  <2> QED
    BY <1>0, <1>1, <2>1, <2>2, <2>3, <2>4, <2>5, <2>6, GoStep, Zenon
<1> QED
  BY <1>2, <1>3

\* The services load what is on the disk, which tells the same.
LEMMA reboot_Keeps == ASSUME ReleaseInvariant, reboot PROVE ReleaseInvariant'
<1>0. /\ units \in Releases /\ running' = [code |-> current, config |-> config] /\ Alone
      /\ UNCHANGED <<current, previous, stages, config, units, proc, checked, calm, before, last, mishaps>>
  BY Zenon DEF reboot
<1>1. DiskTyped' /\ ProcessTyped' /\ VouchedFor'
  BY <1>0 DEF ReleaseInvariant, DiskTyped, ProcessTyped, VouchedFor, Vouched
<1>2. \A p \in Procs : Placed(proc'[p])
  BY <1>0, Zenon DEF ReleaseInvariant
<1>3. Calmness'
  <2> SUFFICES ASSUME calm PROVE (\A p \in Procs : Midway(p)') /\ Outcome'
    BY <1>0, Zenon DEF ReleaseInvariant, Calmness
  <2>1. Idle.pc = "idle" /\ Idle.op = "none"
    BY DEF Idle
  <2>2. \A p \in Procs : Midway(p)'
    BY <1>0, <2>1, Zenon DEF Alone, Midway, Serving, Uninstalling
  <2>3. Outcome
    BY <1>0, Zenon DEF ReleaseInvariant, Calmness
  <2>4. running'.code = current /\ running'.config = config
    BY <1>0
  <2>5. ~(last.op = "uninstall" /\ last.how = "done")
    BY <1>0, <2>3, ReleaseNames, Zenon DEF Outcome
  <2>6. ASSUME NEW r, {current, config, units, running.code, running.config} = {r}
        PROVE  {current, config, units, running.code, running.config}' = {r}
    <3>1. current = r /\ config = r /\ units = r
      BY <2>6, Zenon
    <3> QED
      BY <1>0, <2>4, <3>1
  <2>7. Outcome'
    BY <1>0, <2>3, <2>5, <2>6, Zenon DEF Outcome
  <2> QED
    BY <2>2, <2>7
<1> QED
  BY <1>1, <1>2, <1>3, Zenon DEF ReleaseInvariant

\* A host with its first release, or none, and no installer running.
LEMMA ReleaseBegins == ReleaseInit => ReleaseInvariant
<1> SUFFICES ASSUME ReleaseInit PROVE ReleaseInvariant
  OBVIOUS
<1>1. /\ current = First /\ previous = "none" /\ stages = [p \in Procs |-> "none"]
      /\ config = First /\ units = First /\ proc = [p \in Procs |-> Idle] /\ checked = {First} \cap Releases
      /\ calm = TRUE /\ last = [op |-> "none", rel |-> "none", how |-> "running"] /\ mishaps = 0
  BY Zenon DEF ReleaseInit
<1>2. First \in Releases \cup {"none"} /\ MaxFailures \in Nat
  BY ReleaseAssumption
<1>3. \A p \in Procs : stages[p] = "none" /\ proc[p] = Idle
  BY <1>1, Zenon
<1>4. Idle.pc = "idle" /\ Idle.op = "none" /\ Placed(Idle) /\ last.op = "none"
  BY <1>1 DEF Idle, Placed, Staging, Applying, Reverting, Removing
<1>5. DiskTyped
  BY <1>1, <1>2 DEF DiskTyped, Held, Names
<1>6. ProcessTyped
  <2>1. last \in [op : Operations, rel : Names, how : Ways]
    BY <1>1 DEF Operations, Names, Ways
  <2> QED
    BY <1>1, <2>1, ReleaseNames, Zenon DEF ProcessTyped
<1>7. VouchedFor
  <2>1. current \in Vouched /\ previous \in Vouched
    BY <1>1, <1>2 DEF Vouched
  <2> QED
    BY <1>3, <1>4, <2>1 DEF VouchedFor
<1>8. Calmness
  BY <1>3, <1>4 DEF Calmness, Midway, Serving, Uninstalling, Outcome, Staging
<1> QED
  BY <1>3, <1>4, <1>5, <1>6, <1>7, <1>8, Zenon DEF ReleaseInvariant

\* Every step of every process keeps the invariant.
LEMMA ReleaseKeeps == ReleaseInvariant /\ [ReleaseNext]_releaseVars => ReleaseInvariant'
<1> SUFFICES ASSUME ReleaseInvariant, [ReleaseNext]_releaseVars PROVE ReleaseInvariant'
  OBVIOUS
<1>1. CASE UNCHANGED releaseVars
  <2>1. UNCHANGED <<current, previous, stages, config, units, running, proc, checked, calm, before, last, mishaps>>
    BY <1>1, Zenon DEF releaseVars
  <2>2. DiskTyped' /\ ProcessTyped'
    BY <2>1, Zenon DEF ReleaseInvariant, DiskTyped, ProcessTyped
  <2>3. (\A p \in Procs : Placed(proc[p]))' /\ VouchedFor'
    BY <2>1, Zenon DEF ReleaseInvariant, VouchedFor, Vouched
  <2>4. (Alone' <=> Alone) /\ (Outcome' <=> Outcome)
    <3>1. Alone' = Alone
      BY <2>1 DEF Alone
    <3>2. Outcome' = Outcome
      BY <2>1, ZenonT(30) DEF Outcome
    <3> QED
      BY <3>1, <3>2, Zenon
  <2>5. ASSUME NEW p \in Procs PROVE Midway(p)' <=> Midway(p)
    BY <2>1, Zenon DEF Midway, Installing, Serving, Uninstalling
  <2>6. Calmness'
    BY <2>1, <2>4, <2>5, Zenon DEF ReleaseInvariant, Calmness
  <2> QED
    BY <2>2, <2>3, <2>6, Zenon DEF ReleaseInvariant
<1>2. ASSUME NEW p \in Procs, install_release(p) PROVE ReleaseInvariant'
  BY <1>2, Starts_Keep, handshakeStaged_Keeps, activateCurrent_Keeps, activatePrevious_Keeps, activateFails_Keeps,
     atomicConfig_Keeps, install_units_Keeps, restart_services_Keeps, stepFails_Keeps, Zenon DEF install_release
<1>3. ASSUME NEW p \in Procs,
             \/ rollback_release(p)
             \/ \E ok \in BOOLEAN : rollback(p, ok) \/ rollbackHandshake(p, ok)
             \/ \E part \in BOOLEAN : removeTree(p, part)
             \/ uninstall_preserving_state(p) \/ uninstall_preserving_encrypted_state(p)
             \/ disable(p) \/ unlinkUnits(p) \/ removeConfig(p)
             \/ kill(p)
      PROVE  ReleaseInvariant'
  BY <1>3, Starts_Keep, rollback_Keeps, rollbackHandshake_Keeps, removeTree_Keeps, Uninstall_Keeps, kill_Keeps, Zenon
<1> QED
  BY <1>1, <1>2, <1>3, reboot_Keeps, Zenon DEF ReleaseNext

\* For every set of processes and releases, however they interleave and wherever they are killed:
\* only a tree that passed its self-check is ever current, and a process that ran alone to its end
\* leaves directories, configuration, units and services of one release (install_release,
\* rollback_release and uninstall of provider_proxy_install.py and voice_proxy_install.py).
THEOREM ReleaseSafety == ReleaseSpec => []ReleaseIsSound
<1>1. ReleaseInvariant => ReleaseIsSound
  <2> SUFFICES ASSUME ReleaseInvariant PROVE ReleaseIsSound
    OBVIOUS
  <2>1. ReleaseTypeOK
    BY DEF ReleaseInvariant, DiskTyped, ProcessTyped, ReleaseTypeOK, Names
  <2>2. OnlyCheckedIsCurrent
    BY Zenon DEF ReleaseInvariant, VouchedFor, Vouched, OnlyCheckedIsCurrent
  <2>3. calm /\ Alone => Outcome
    BY Zenon DEF ReleaseInvariant, Calmness
  <2>4. InstalledIsServed /\ FailedIsUndone /\ RolledBackIsExchanged /\ UninstalledIsGone
    BY <2>3, Zenon DEF Outcome, InstalledIsServed, FailedIsUndone, RolledBackIsExchanged, UninstalledIsGone
  <2>5. StagesAreTemporary
    <3>1. Idle.pc \notin Staging
      BY DEF Idle, Staging
    <3> QED
      BY <3>1, Zenon DEF ReleaseInvariant, Calmness, Alone, StagesAreTemporary
  <2> QED
    BY <2>1, <2>2, <2>4, <2>5, Zenon DEF ReleaseIsSound
<1> QED
  BY <1>1, ReleaseBegins, ReleaseKeeps, PTL DEF ReleaseSpec
=============================================================================
