------------------------ MODULE MonitoringFollowups ------------------------
(***************************************************************************)
(* Follow-up actions proposed from a digest (core-ts/src/monitoring/       *)
(* followups.ts and the two tick coordinators of                           *)
(* app/src/monitoring-followup-runtime.ts): one row of                     *)
(* monitoring_followups through delivery, approval, execution,             *)
(* verification and rollback.                                              *)
(*                                                                         *)
(* Several executors, in one process or in two, may run `execute` on the   *)
(* row.  Each takes a claim with a lease and then awaits the action        *)
(* family; the lease may run out while it waits, so that another executor  *)
(* recovers what the first one is still doing.  The family's effects land  *)
(* at some moment of the call, or not at all.                              *)
(***************************************************************************)
EXTENDS Integers, FiniteSets

CONSTANTS
    Executors,   \* ticks that can execute at the same time
    ClaimMs,     \* claimMs, in clock steps
    Expiry,      \* expiresAt of the proposal
    MaxTime,     \* bound: clock steps
    MaxClaims,   \* bound: claims taken
    MaxMishaps   \* bound: failures, lost bindings and crashes

ASSUME FollowupBounds ==
    ClaimMs \in Nat /\ Expiry \in Nat /\ MaxTime \in Nat /\ MaxClaims \in Nat /\ MaxMishaps \in Nat

VARIABLES
    row,         \* the row of monitoring_followups
    exec,        \* the call of `execute` each executor is in
    done,        \* external: times the action and its rollback took effect
    card,        \* the delivery of the proposal that is out
    ctx,         \* clock, availability of the binding, validity of authority
    budget

followupVars == <<row, exec, done, card, ctx, budget>>

Early == {"proposed", "awaiting-approval", "approved"}
Working == {"executing", "verifying", "rollback-pending"}
Final == {"verified", "rejected", "expired", "blocked", "rolled-back",
          "reconciliation-required", "rollback-failed", "quarantined"}

Statuses == {"none", "paused"} \cup Early \cup Working \cup Final

\* What proposalFromRow accepts: a paused row, and only one, says from where.
ProposalRow == {r \in [status: Statuses,
                       from: {"none"} \cup Early, approval: BOOLEAN, receipt: BOOLEAN,
                       tok: 0..MaxClaims, until: 0..(MaxTime + ClaimMs)] :
                  r.status = "paused" => r.from # "none"}

NoProposal == [status |-> "none", from |-> "none", approval |-> FALSE,
               receipt |-> FALSE, tok |-> 0, until |-> 0]

Free == [phase |-> "idle", tok |-> 0, landed |-> FALSE]

FollowupInit ==
    /\ row = NoProposal
    /\ exec = [e \in Executors |-> Free]
    /\ done = [action |-> 0, rollback |-> 0, called |-> FALSE]
    /\ card = FALSE
    /\ ctx = [now |-> 0, up |-> TRUE, auth |-> TRUE]
    /\ budget = [claims |-> 0, mishaps |-> MaxMishaps]

mishap == budget.mishaps > 0 /\ budget' = [budget EXCEPT !.mishaps = @ - 1]

bindingAvailable == ctx.up
\* The hashes, the digest's items and the family's tier still agree.
authorityValid == ctx.auth
expiredNow == Expiry <= ctx.now
approvalValid == row.approval

-----------------------------------------------------------------------------
(* Updates of the row. *)

release(r) == [r EXCEPT !.tok = 0, !.until = 0]

quarantine(r) == [release(r) EXCEPT !.status = "quarantined"]

\* updateSimple: from one of the given states, and with the claim when one
\* is named.
updateSimple(from, to, tok) ==
    IF row.status \in from /\ (tok = 0 \/ row.tok = tok)
    THEN [release(row) EXCEPT !.status = to] ELSE row

pause(r) ==
    IF r.status \in Early
    THEN [release(r) EXCEPT !.status = "paused", !.from = r.status]
    ELSE [release(r) EXCEPT !.status = "reconciliation-required"]

pauseClaimedApproval(r) == [release(r) EXCEPT !.status = "paused", !.from = "approved"]

expireEarly(r, states) ==
    IF r.status \in states /\ expiredNow THEN [release(r) EXCEPT !.status = "expired"] ELSE r

\* What both lists do with a row they would return.
screened(r) ==
    IF ~authorityValid THEN quarantine(r) ELSE IF ~bindingAvailable THEN pause(r) ELSE r

-----------------------------------------------------------------------------
(* Proposal, delivery, approval. *)

propose ==
    /\ row.status = "none" /\ bindingAvailable /\ ~expiredNow
    /\ row' = [NoProposal EXCEPT !.status = "proposed"]
    /\ UNCHANGED <<exec, done, card, ctx, budget>>

listForProposalDelivery ==
    /\ ~card /\ row.status \in Early
    /\ LET r == expireEarly(row, Early) IN
       /\ row' = IF r.status = "proposed" THEN screened(r) ELSE r
       /\ card' = (row'.status = "proposed")
       /\ row' # row \/ card'
    /\ UNCHANGED <<exec, done, ctx, budget>>

\* A receipt moves a row that is still proposed, after the same screening.
recordProposalDelivery ==
    /\ card /\ card' = FALSE
    /\ row' = IF row.status # "proposed" THEN row
              ELSE IF screened(row) # row THEN screened(row)
              ELSE [row EXCEPT !.status = "awaiting-approval"]
    /\ UNCHANGED <<exec, done, ctx, budget>>

deliveryFails ==
    /\ card /\ card' = FALSE /\ mishap
    /\ UNCHANGED <<row, exec, done, ctx>>

approve ==
    /\ row.status = "awaiting-approval" /\ ~expiredNow
    /\ row' = IF screened(row) # row THEN screened(row)
              ELSE [row EXCEPT !.status = "approved", !.approval = TRUE]
    /\ UNCHANGED <<exec, done, card, ctx, budget>>

reject ==
    /\ row.status = "awaiting-approval"
    /\ row' = updateSimple({"awaiting-approval"}, "rejected", 0)
    /\ UNCHANGED <<exec, done, card, ctx, budget>>

\* A paused row goes back where it came from; a quarantine leaves paused_from
\* behind, which the next read quarantines again.
resumePaused ==
    /\ row.status = "paused"
    /\ \/ ~authorityValid /\ row' = quarantine(row)
       \/ authorityValid /\ expiredNow /\ row' = [row EXCEPT !.status = "expired", !.from = "none"]
       \/ /\ authorityValid /\ ~expiredNow /\ bindingAvailable
          /\ row' = [row EXCEPT !.status = row.from, !.from = "none"]
    /\ UNCHANGED <<exec, done, card, ctx, budget>>

-----------------------------------------------------------------------------
(* Execution. *)

listed(r) ==
    \/ r.status \in {"approved", "verifying", "rollback-pending"}
    \/ r.status = "executing" /\ r.until <= ctx.now

leased(r) == r.status # "approved" /\ r.tok # 0 /\ r.until > ctx.now

claimable(r) == r.status \in {"approved"} \cup Working /\ ~leased(r)

claim(r) ==
    [r EXCEPT !.status = IF @ = "approved" THEN "executing" ELSE @,
              !.tok = budget.claims + 1, !.until = ctx.now + ClaimMs]

\* Mutant: an execution whose lease ran out is started again.
phaseOfRetry(prior) ==
    IF prior \in {"approved", "executing"} THEN "precondition"
    ELSE IF prior = "verifying" THEN "verify" ELSE "recoverRollback"

phaseOf(prior) ==
    IF prior = "approved" THEN "precondition" ELSE IF prior = "executing" THEN "recoverReceipt"
    ELSE IF prior = "verifying" THEN "verify" ELSE "recoverRollback"

at(e, phase) == exec[e].phase = phase
go(e, phase) == exec' = [exec EXCEPT ![e].phase = phase, ![e].landed = FALSE]
stop(e) == exec' = [exec EXCEPT ![e] = Free]
held(e) == row.tok = exec[e].tok

\* One execution tick: the list, then execute up to its first await.
execute(e) ==
    LET r == expireEarly(row, {"approved"})
        s == IF listed(r) THEN screened(r) ELSE r
        begin == s = r /\ listed(r) /\ claimable(r)
    IN
    /\ at(e, "idle") /\ budget.claims < MaxClaims
    /\ s # row \/ begin
    /\ IF begin
       THEN /\ row' = claim(r)
            /\ exec' = [exec EXCEPT ![e] = [phase |-> phaseOf(r.status), tok |-> row'.tok, landed |-> FALSE]]
            /\ budget' = [budget EXCEPT !.claims = @ + 1]
       ELSE row' = s /\ UNCHANGED <<exec, budget>>
    /\ UNCHANGED <<done, card, ctx>>

preconditionFails(e) ==
    /\ at(e, "precondition") /\ mishap
    /\ row' = updateSimple({"executing"}, "blocked", exec[e].tok)
    /\ stop(e)
    /\ UNCHANGED <<done, card, ctx>>

\* After the precondition the row is read again and everything that may have
\* changed is checked again.
revalidate(e) ==
    /\ at(e, "precondition")
    /\ \/ ~(row.status = "executing" /\ held(e)) /\ row' = row /\ stop(e)
       \/ /\ row.status = "executing" /\ held(e)
          /\ IF ~authorityValid \/ ~approvalValid THEN row' = quarantine(row) /\ stop(e)
             ELSE IF expiredNow THEN row' = updateSimple({"executing"}, "expired", exec[e].tok) /\ stop(e)
             ELSE IF ~bindingAvailable THEN row' = pauseClaimedApproval(row) /\ stop(e)
             ELSE row' = row /\ go(e, "execute")
    /\ UNCHANGED <<done, card, ctx, budget>>

\* The action takes effect some time during the call.
lands(e) ==
    /\ at(e, "execute") /\ ~exec[e].landed
    /\ exec' = [exec EXCEPT ![e].landed = TRUE]
    /\ done' = [done EXCEPT !.action = @ + 1]
    /\ UNCHANGED <<row, card, ctx, budget>>

saveExecutionReceipt(e) ==
    IF row.status = "executing" /\ held(e)
    THEN row' = [row EXCEPT !.status = "verifying", !.receipt = TRUE] /\ go(e, "verify")
    ELSE row' = row /\ stop(e)

executed(e) ==
    /\ at(e, "execute") /\ exec[e].landed
    /\ saveExecutionReceipt(e)
    /\ UNCHANGED <<done, card, ctx, budget>>

\* An exception or a receipt that does not fit: reconciliation.
executeFails(e) ==
    /\ at(e, "execute") /\ mishap
    /\ row' = updateSimple({"executing"}, "reconciliation-required", exec[e].tok)
    /\ stop(e)
    /\ UNCHANGED <<done, card, ctx>>

\* The family knows a receipt only of an action that took effect.
receiptRecovered(e) ==
    /\ at(e, "recoverReceipt") /\ done.action > 0
    /\ saveExecutionReceipt(e)
    /\ UNCHANGED <<done, card, ctx, budget>>

receiptNotRecovered(e) ==
    /\ at(e, "recoverReceipt")
    /\ IF done.action > 0 THEN mishap ELSE UNCHANGED budget
    /\ row' = updateSimple({"executing"}, "reconciliation-required", exec[e].tok)
    /\ stop(e)
    /\ UNCHANGED <<done, card, ctx>>

\* A verification without an answer gives the claim back.
verifyUnknown(e) ==
    /\ at(e, "verify") /\ mishap
    /\ row' = IF row.status = "verifying" /\ held(e) THEN release(row) ELSE row
    /\ stop(e)
    /\ UNCHANGED <<done, card, ctx>>

\* finishVerification, and for a failed one the claim of the rollback in the
\* same step.
verified(e) ==
    /\ at(e, "verify")
    /\ row' = IF row.status = "verifying" /\ held(e)
              THEN [release(row) EXCEPT !.status = "verified"] ELSE row
    /\ stop(e)
    /\ UNCHANGED <<done, card, ctx, budget>>

verificationFails(e) ==
    /\ at(e, "verify") /\ mishap
    /\ IF row.status = "verifying" /\ held(e)
       THEN /\ row' = [row EXCEPT !.status = "rollback-pending", !.until = ctx.now + ClaimMs]
            /\ go(e, "rollback")
       ELSE row' = row /\ stop(e)
    /\ done' = [done EXCEPT !.called = @ \/ (row.status = "verifying" /\ held(e))]
    /\ UNCHANGED <<card, ctx>>

\* A crash after the failed verification is saved and before the rollback is
\* called.
verificationFailsCut(e) ==
    /\ at(e, "verify") /\ mishap /\ row.status = "verifying" /\ held(e)
    /\ row' = [release(row) EXCEPT !.status = "rollback-pending"]
    /\ exec' = [x \in Executors |-> Free] /\ card' = FALSE
    /\ UNCHANGED <<done, ctx>>

rollbackLands(e) ==
    /\ at(e, "rollback") /\ ~exec[e].landed
    /\ exec' = [exec EXCEPT ![e].landed = TRUE]
    /\ done' = [done EXCEPT !.rollback = @ + 1]
    /\ UNCHANGED <<row, card, ctx, budget>>

rollbackReceipt(e) ==
    /\ \/ at(e, "rollback") /\ exec[e].landed
       \/ at(e, "recoverRollback") /\ done.rollback > 0
    /\ go(e, "verifyRollback")
    /\ UNCHANGED <<row, done, card, ctx, budget>>

deferRecovery(e) ==
    IF row.status = "rollback-pending" /\ held(e) THEN release(row) ELSE row

rollbackUnknown(e) ==
    /\ \/ at(e, "rollback") /\ mishap
       \/ at(e, "recoverRollback") /\ done.rollback > 0 /\ mishap
       \/ at(e, "recoverRollback") /\ done.rollback = 0 /\ UNCHANGED budget
       \/ at(e, "verifyRollback") /\ mishap
    /\ row' = deferRecovery(e)
    /\ stop(e)
    /\ UNCHANGED <<done, card, ctx>>

finishRollback(e, good) ==
    /\ at(e, "verifyRollback")
    /\ IF good THEN UNCHANGED budget ELSE mishap
    /\ row' = IF row.status = "rollback-pending" /\ held(e)
              THEN [release(row) EXCEPT !.status = IF good THEN "rolled-back" ELSE "rollback-failed"]
              ELSE row
    /\ stop(e)
    /\ UNCHANGED <<done, card, ctx>>

-----------------------------------------------------------------------------
(* The surroundings. *)

clock ==
    /\ ctx.now < MaxTime /\ ctx' = [ctx EXCEPT !.now = @ + 1]
    /\ UNCHANGED <<row, exec, done, card, budget>>

archive ==
    /\ ctx.up /\ mishap /\ ctx' = [ctx EXCEPT !.up = FALSE]
    /\ UNCHANGED <<row, exec, done, card>>

restore ==
    /\ ~ctx.up /\ ctx' = [ctx EXCEPT !.up = TRUE]
    /\ UNCHANGED <<row, exec, done, card, budget>>

\* The family's tier or the digest no longer agrees with the proposal.
drift ==
    /\ ctx.auth /\ mishap /\ ctx' = [ctx EXCEPT !.auth = FALSE]
    /\ UNCHANGED <<row, exec, done, card>>

\* The process dies; what an action had not done by then may still land.
crash ==
    /\ \E e \in Executors : ~at(e, "idle")
    /\ mishap
    /\ exec' = [e \in Executors |-> Free] /\ card' = FALSE
    /\ \E late \in BOOLEAN :
          done' = IF late /\ \E e \in Executors : at(e, "execute") /\ ~exec[e].landed
                  THEN [done EXCEPT !.action = @ + 1] ELSE done
    /\ UNCHANGED <<row, ctx>>

Execution(e) ==
    \/ execute(e) \/ preconditionFails(e) \/ revalidate(e)
    \/ lands(e) \/ executed(e) \/ executeFails(e)
    \/ receiptRecovered(e) \/ receiptNotRecovered(e)
    \/ verifyUnknown(e) \/ verified(e) \/ verificationFails(e) \/ verificationFailsCut(e)
    \/ rollbackLands(e) \/ rollbackReceipt(e) \/ rollbackUnknown(e)
    \/ \E good \in BOOLEAN : finishRollback(e, good)

FollowupNext ==
    \/ propose
    \/ listForProposalDelivery
    \/ recordProposalDelivery
    \/ deliveryFails
    \/ approve
    \/ reject
    \/ resumePaused
    \/ \E e \in Executors : Execution(e)
    \/ clock
    \/ archive
    \/ restore
    \/ drift
    \/ crash

FollowupSpec == FollowupInit /\ [][FollowupNext]_followupVars

-----------------------------------------------------------------------------
FollowupTypeOK ==
    /\ row \in ProposalRow
    /\ done.action \in Nat /\ done.rollback \in Nat
    /\ card \in BOOLEAN

\* The action and its rollback take effect at most once each, the rollback
\* only after the action, whatever leases ran out and whoever recovered.
OnceEach == done.action <= 1 /\ done.rollback <= done.action

\* A final state that says nothing happened is true of the world, also when a
\* slow executor is still out; so is one that says everything happened.
StatusIsTrue ==
    /\ row.status \in {"rejected", "expired", "blocked", "paused"} \cup Early => done.action = 0
    /\ row.status = "verified" => done.action = 1 /\ done.rollback = 0 /\ row.receipt
    /\ row.status = "rolled-back" => done.action = 1 /\ done.rollback = 1

\* Nothing is done without the operator's approval.
ApprovedFirst == done.action > 0 => row.approval

\* The follow-up of a digest is executed once, as approved, and its row tells
\* what happened.
FollowupsAreSafe == FollowupTypeOK /\ OnceEach /\ StatusIsTrue /\ ApprovedFirst

\* A verification that failed is always followed by a call of the rollback,
\* so that a row left in rollback-pending can be recovered by its receipt.
RollbackIsCalled == row.status = "rollback-pending" => done.called

=============================================================================
