----------------------- MODULE DurableTurnActorProofs -----------------------
(***************************************************************************)
(* Proofs about DurableTurnActor for every number of actors, clients,      *)
(* cards, claims and clock values.                                         *)
(***************************************************************************)
EXTENDS DurableTurnActor, TLAPS

\* The moves of ApprovalLifecycle, other than Ask.
LifecycleMove(x, y) ==
  \/ x = "asked" /\ y \in {"approved", "refused", "denied", "stopping"}
  \/ x = "approved" /\ y \in {"running", "stopping"}
  \/ x = "refused" /\ y \in {"denied", "stopping"}
  \/ x = "running" /\ y \in {"completed", "failed", "denied", "stopping"}
  \/ x = "stopping" /\ y = "cancelled"

\* What rewriting an active row q as r may do: keep the invariant and an earlier
\* decision, move from cancelling only to cancelled, and move the approval
\* status along the lifecycle, if at all.
RowStep(q, r) ==
  /\ r \in RowType /\ RowInv(r)
  /\ Active(q) /\ r.phase # "absent"
  /\ q.decision # NoDecision => r.decision = q.decision
  /\ q.phase = "cancelling" => r.phase = "terminal" /\ r.terminal.kind = "cancelled"
  /\ Status(r) = Status(q) \/ LifecycleMove(Status(q), Status(r))

\* The step inserts a blank row's first version while the active slot is free.
Inserts(a) ==
  /\ rows' = [rows EXCEPT ![a] = rows'[a]]
  /\ rows[a] = NoRow /\ \A b \in Actors : ~Active(rows[b])
  /\ rows'[a] \in RowType /\ RowInv(rows'[a])
  /\ rows'[a].phase = "paused-awaiting-approval" /\ rows'[a].revision = 1

\* The step rewrites the active row a under its next revision, and no other.
Rewrites(a) ==
  /\ rows' = [rows EXCEPT ![a] = rows'[a]]
  /\ rows'[a].revision = rows[a].revision + 1
  /\ RowStep(rows[a], rows'[a])

USE DEF Time, Phases, Decisions

\* The null records have their types.
LEMMA NullTypes ==
  /\ NoDecision \in DecisionType /\ NoClaim \in ClaimType /\ NoTerminal \in TerminalType
BY BoundsAssumption
   DEF NoDecision, NoClaim, NoTerminal, DecisionType, ClaimType, TerminalType

\* The fields of the blank row.
LEMMA BlankRow ==
  /\ NoRow.phase = "absent" /\ NoRow.revision = 0
  /\ NoRow.decision = NoDecision /\ NoRow.claim = NoClaim /\ NoRow.terminal = NoTerminal
  /\ NoTerminal.kind = "none" /\ NoTerminal.code = "none" /\ NoDecision.kind = "none"
BY DEF NoRow, NoTerminal, NoDecision

\* A row stays a row when one of its fields gets a value of the field's type.
LEMMA RowFields ==
  ASSUME NEW q \in RowType
  PROVE  /\ \A v \in Phases : [q EXCEPT !.phase = v] \in RowType
         /\ \A v \in Nat : [q EXCEPT !.revision = v] \in RowType
         /\ \A v \in 0..MaxCards : [q EXCEPT !.card = v] \in RowType
         /\ \A v \in Time : [q EXCEPT !.issuedAt = v] \in RowType
         /\ \A v \in DecisionType : [q EXCEPT !.decision = v] \in RowType
         /\ \A v \in ClaimType : [q EXCEPT !.claim = v] \in RowType
         /\ \A v \in TerminalType : [q EXCEPT !.terminal = v] \in RowType
         /\ [q EXCEPT !.delivered = TRUE] \in RowType
         /\ [q EXCEPT !.delivered = FALSE] \in RowType
<1>1. \A v \in Phases : [q EXCEPT !.phase = v] \in RowType
  BY DEF RowType
<1>2. \A v \in Nat : [q EXCEPT !.revision = v] \in RowType
  BY DEF RowType
<1>3. \A v \in 0..MaxCards : [q EXCEPT !.card = v] \in RowType
  BY DEF RowType
<1>4. \A v \in Time : [q EXCEPT !.issuedAt = v] \in RowType
  BY DEF RowType
<1>5. \A v \in DecisionType : [q EXCEPT !.decision = v] \in RowType
  BY DEF RowType
<1>6. \A v \in ClaimType : [q EXCEPT !.claim = v] \in RowType
  BY DEF RowType
<1>7. \A v \in TerminalType : [q EXCEPT !.terminal = v] \in RowType
  BY DEF RowType
<1>8. [q EXCEPT !.delivered = TRUE] \in RowType /\ [q EXCEPT !.delivered = FALSE] \in RowType
  BY Zenon DEF RowType
<1> QED
  BY <1>1, <1>2, <1>3, <1>4, <1>5, <1>6, <1>7, <1>8

\* pause inserts its new actor's row.
LEMMA PauseInserts ==
  ASSUME IInv, NEW c \in Clients, NEW a \in Actors, NEW su \in BOOLEAN,
         NEW e \in 1..(MaxTime + 1), pause(c, a, su, e)
  PROVE  Inserts(a)
<1> DEFINE R == [phase |-> "paused-awaiting-approval", revision |-> 1, card |-> lastCard + 1,
                 stepUp |-> su, issuedAt |-> now, expiresAt |-> e, delivered |-> FALSE,
                 decision |-> NoDecision, claim |-> NoClaim, terminal |-> NoTerminal]
<1>1. rows \in [Actors -> RowType] /\ now \in 0..MaxTime /\ lastCard + 1 \in 0..MaxCards
  BY BoundsAssumption DEF IInv, TypeOK, pause
<1>2. rows[a] = NoRow /\ e > now /\ \A b \in Actors : ~Active(rows[b])
  BY DEF pause, IInv, RowInv
<1>3. rows' = [rows EXCEPT ![a] = R]
  BY DEF pause
<1>4. R \in RowType
  BY <1>1, NullTypes, BoundsAssumption DEF RowType
<1>5. RowInv(R)
  BY <1>1, <1>2, BoundsAssumption DEF RowInv, CleanRecord, NoRow, NoDecision, NoClaim, NoTerminal
<1>6. R.phase = "paused-awaiting-approval" /\ R.revision = 1
  OBVIOUS
<1> HIDE DEF R
<1> QED
  BY <1>1, <1>2, <1>3, <1>4, <1>5, <1>6 DEF Inserts

\* A compare-and-swap to record r rewrites the row if r is a legal next record.
LEMMA CasRewrites ==
  ASSUME IInv, NEW a \in Actors, NEW r, RowStep(rows[a], r), Cas(a, r)
  PROVE  Rewrites(a)
<1> DEFINE n == rows[a].revision + 1
           R == [r EXCEPT !.revision = n]
<1>1. rows \in [Actors -> RowType] /\ r \in RowType /\ rows[a] \in RowType
  BY DEF IInv, TypeOK, RowStep
<1>2. rows' = [rows EXCEPT ![a] = R]
  BY DEF Cas
<1>3. n \in Nat
  BY <1>1 DEF RowType
<1> HIDE DEF n
<1>4. R \in RowType
  BY <1>1, <1>3, RowFields, Zenon
<1>5. /\ R.revision = n /\ R.phase = r.phase /\ R.decision = r.decision /\ R.claim = r.claim
      /\ R.terminal = r.terminal /\ R.issuedAt = r.issuedAt /\ R.expiresAt = r.expiresAt
      /\ R.stepUp = r.stepUp /\ R.delivered = r.delivered
  BY <1>1 DEF RowType
<1> HIDE DEF R
<1>6. RowInv(R)
  BY <1>5 DEF RowStep, RowInv, CleanRecord
<1>7. Status(R) = Status(r)
  BY <1>5 DEF Status
<1>8. RowStep(rows[a], R)
  BY <1>4, <1>5, <1>6, <1>7 DEF RowStep
<1> QED
  BY <1>1, <1>2, <1>5, <1>8 DEF Rewrites, n

\* markCardDelivered rewrites the paused row.
LEMMA DeliveredRewrites ==
  ASSUME IInv, NEW c \in Clients, NEW a \in Actors, markCardDelivered(c, a)
  PROVE  Rewrites(a)
<1> DEFINE q == rows[a]
           r == [q EXCEPT !.delivered = TRUE]
<1>1. q \in RowType /\ RowInv(q)
  BY DEF IInv, TypeOK
<1>2. q.phase = "paused-awaiting-approval" /\ Cas(a, r)
  BY DEF markCardDelivered
<1> HIDE DEF q
<1>3. r \in RowType
  BY <1>1, RowFields, Zenon
<1>4. RowStep(q, r)
  BY <1>1, <1>2, <1>3 DEF RowStep, RowType, RowInv, CleanRecord, Active, Status
<1> QED
  BY <1>2, <1>4, CasRewrites DEF q

\* rotatePendingCard and replaceCardAfterRecovery rewrite the paused row.
LEMMA NewCardRewrites ==
  ASSUME IInv, NEW c \in Clients, NEW a \in Actors, NewCard(c, a)
  PROVE  Rewrites(a)
<1> DEFINE q == rows[a]
           s1 == [q EXCEPT !.card = lastCard + 1]
           s2 == [s1 EXCEPT !.issuedAt = now]
           r == [s2 EXCEPT !.delivered = FALSE]
<1>1. a \in Actors /\ q \in RowType /\ RowInv(q) /\ now \in 0..MaxTime
  BY DEF IInv, TypeOK
<1>2. q.phase = "paused-awaiting-approval" /\ now < q.expiresAt /\ Cas(a, r)
  BY DEF NewCard
<1> HIDE DEF q
<1>3. lastCard + 1 \in 0..MaxCards
  BY BoundsAssumption DEF IInv, TypeOK, NewCard
<1>4. s1 \in RowType
  BY <1>1, <1>3, RowFields, Zenon
<1>5. now \in Time
  BY <1>1
<1>6. s2 \in RowType
  BY <1>4, <1>5, RowFields, Zenon
<1>7. r \in RowType
  BY <1>6, RowFields, Zenon
<1>8. RowStep(q, r)
  BY <1>1, <1>2, <1>7 DEF RowStep, RowType, DecisionType, ClaimType, TerminalType, RowInv,
     CleanRecord, Floor, Active, Status, LifecycleMove, NoDecision, NoClaim, NoTerminal
<1> QED
  BY <1>1, <1>2, <1>8, CasRewrites DEF q

\* requestCancel moves an active row to cancelling.
LEMMA CancelRewrites ==
  ASSUME IInv, NEW c \in Clients, NEW a \in Actors, requestCancel(c, a)
  PROVE  Rewrites(a)
<1> DEFINE q == rows[a]
           r == [q EXCEPT !.phase = "cancelling"]
<1>1. a \in Actors /\ q \in RowType /\ RowInv(q) /\ now \in 0..MaxTime
  BY DEF IInv, TypeOK
<1>2. q.phase \in {"paused-awaiting-approval", "resume-ready"} /\ Cas(a, r)
  BY DEF requestCancel
<1> HIDE DEF q
<1>3. "cancelling" \in Phases
  BY Zenon
<1>4. r \in RowType
  BY <1>1, <1>3, RowFields, Zenon
<1>5. RowStep(q, r)
  BY <1>1, <1>2, <1>3, <1>4 DEF RowStep, RowType, DecisionType, ClaimType, TerminalType, RowInv,
     CleanRecord, Floor, Active, Status, LifecycleMove, NoDecision, NoClaim, NoTerminal
<1> QED
  BY <1>1, <1>2, <1>5, CasRewrites DEF q

\* terminalizeRejected ends a rejected row.
LEMMA RejectedRewrites ==
  ASSUME IInv, NEW c \in Clients, NEW a \in Actors, terminalizeRejected(c, a)
  PROVE  Rewrites(a)
<1> DEFINE q == rows[a]
           s1 == [q EXCEPT !.phase = "terminal"]
           r == [s1 EXCEPT !.terminal = [kind |-> "denied", code |-> "APPROVAL_REJECTED", at |-> now]]
<1>1. a \in Actors /\ q \in RowType /\ RowInv(q) /\ now \in 0..MaxTime
  BY DEF IInv, TypeOK
<1>2. q.phase = "resume-ready" /\ q.claim = NoClaim /\ q.decision.kind = "rejected" /\ Floor(q, now) /\ Cas(a, r)
  BY DEF terminalizeRejected
<1> HIDE DEF q
<1>3. "terminal" \in Phases
  BY Zenon
<1>4. s1 \in RowType
  BY <1>1, <1>3, RowFields, Zenon
<1>5. [kind |-> "denied", code |-> "APPROVAL_REJECTED", at |-> now] \in TerminalType
  BY <1>1, <1>2 DEF TerminalType
<1>6. r \in RowType
  BY <1>4, <1>5, RowFields, Zenon
<1>7. RowStep(q, r)
  BY <1>1, <1>2, <1>5, <1>6 DEF RowStep, RowType, DecisionType, ClaimType, TerminalType, RowInv,
     CleanRecord, Floor, Active, Status, LifecycleMove, NoDecision, NoClaim, NoTerminal
<1> QED
  BY <1>1, <1>2, <1>7, CasRewrites DEF q

\* finishWithPermit ends a claimed row.
LEMMA FinishRewrites ==
  ASSUME IInv, NEW p \in permits, NEW kind, finishWithPermit(p, kind)
  PROVE  Rewrites(p.actor)
<1> DEFINE q == rows[p.actor]
           s1 == [q EXCEPT !.phase = "terminal"]
           r == [s1 EXCEPT !.terminal = [kind |-> kind, code |-> "CALLER", at |-> now]]
<1>1. p.actor \in Actors /\ q \in RowType /\ RowInv(q) /\ now \in 0..MaxTime
  BY DEF IInv, TypeOK, PermitType
<1>2. q.phase = "resume-ready" /\ q.claim.id # 0 /\ Floor(q, now) /\ kind \in {"completed", "denied", "failed"} /\ Cas(p.actor, r)
  BY DEF finishWithPermit, IInv, TypeOK, PermitType
<1> HIDE DEF q
<1>3. "terminal" \in Phases
  BY Zenon
<1>4. s1 \in RowType
  BY <1>1, <1>3, RowFields, Zenon
<1>5. [kind |-> kind, code |-> "CALLER", at |-> now] \in TerminalType
  BY <1>1, <1>2 DEF TerminalType
<1>6. r \in RowType
  BY <1>4, <1>5, RowFields, Zenon
<1>7. RowStep(q, r)
  BY <1>1, <1>2, <1>5, <1>6 DEF RowStep, RowType, DecisionType, ClaimType, TerminalType, RowInv,
     CleanRecord, Floor, Active, Status, LifecycleMove, NoDecision, NoClaim, NoTerminal
<1> QED
  BY <1>1, <1>2, <1>7, CasRewrites DEF q

\* finishCancellation ends a cancelling row.
LEMMA CancelledRewrites ==
  ASSUME IInv, NEW k \in acks, finishCancellation(k)
  PROVE  Rewrites(k.actor)
<1> DEFINE q == rows[k.actor]
           s1 == [q EXCEPT !.phase = "terminal"]
           r == [s1 EXCEPT !.terminal = [kind |-> "cancelled", code |-> "CALLER", at |-> now]]
<1>1. k.actor \in Actors /\ q \in RowType /\ RowInv(q) /\ now \in 0..MaxTime
  BY DEF IInv, TypeOK, AckType
<1>2. q.phase = "cancelling" /\ Floor(q, now) /\ Cas(k.actor, r)
  BY DEF finishCancellation
<1> HIDE DEF q
<1>3. "terminal" \in Phases
  BY Zenon
<1>4. s1 \in RowType
  BY <1>1, <1>3, RowFields, Zenon
<1>5. [kind |-> "cancelled", code |-> "CALLER", at |-> now] \in TerminalType
  BY <1>1, <1>2 DEF TerminalType
<1>6. r \in RowType
  BY <1>4, <1>5, RowFields, Zenon
<1>7. RowStep(q, r)
  BY <1>1, <1>2, <1>5, <1>6 DEF RowStep, RowType, DecisionType, ClaimType, TerminalType, RowInv,
     CleanRecord, Floor, Active, Status, LifecycleMove, NoDecision, NoClaim, NoTerminal
<1> QED
  BY <1>1, <1>2, <1>7, CasRewrites DEF q

\* A tap on an expired card ends the row.
LEMMA ExpireRewrites ==
  ASSUME IInv, NEW m \in admissions, NEW nonce, NEW d, ExpireOnTap(m, nonce, d)
  PROVE  Rewrites(m.actor)
<1> DEFINE q == rows[m.actor]
           s1 == [q EXCEPT !.phase = "terminal"]
           r == [s1 EXCEPT !.terminal = [kind |-> "denied", code |-> "APPROVAL_EXPIRED", at |-> now]]
<1>1. m.actor \in Actors /\ q \in RowType /\ RowInv(q) /\ now \in 0..MaxTime
  BY DEF IInv, TypeOK, AdmissionType
<1>2. q.phase = "paused-awaiting-approval" /\ Floor(q, now) /\ Cas(m.actor, r)
  BY DEF ExpireOnTap, ExactLiveTap
<1> HIDE DEF q
<1>3. "terminal" \in Phases
  BY Zenon
<1>4. s1 \in RowType
  BY <1>1, <1>3, RowFields, Zenon
<1>5. [kind |-> "denied", code |-> "APPROVAL_EXPIRED", at |-> now] \in TerminalType
  BY <1>1, <1>2 DEF TerminalType
<1>6. r \in RowType
  BY <1>4, <1>5, RowFields, Zenon
<1>7. RowStep(q, r)
  BY <1>1, <1>2, <1>5, <1>6 DEF RowStep, RowType, DecisionType, ClaimType, TerminalType, RowInv,
     CleanRecord, Floor, Active, Status, LifecycleMove, NoDecision, NoClaim, NoTerminal
<1> QED
  BY <1>1, <1>2, <1>7, CasRewrites DEF q

\* A tap in time records the decision.
LEMMA DecisionRewrites ==
  ASSUME IInv, NEW m \in admissions, NEW nonce, NEW d \in Decisions,
         RecordDecision(m, nonce, d)
  PROVE  Rewrites(m.actor)
<1> DEFINE q == rows[m.actor]
           D == [kind |-> d, at |-> now, stepUp |-> StepUpOf(m, d)]
           s1 == [q EXCEPT !.phase = "resume-ready"]
           r == [s1 EXCEPT !.decision = D]
<1>1. m.actor \in Actors /\ q \in RowType /\ RowInv(q) /\ now \in 0..MaxTime
  BY DEF IInv, TypeOK, AdmissionType
<1>2. /\ q.phase = "paused-awaiting-approval" /\ Floor(q, now) /\ q.delivered
      /\ now < q.expiresAt /\ (q.stepUp /\ d = "confirmed" => m.stepUp)
      /\ Cas(m.actor, r)
  BY DEF RecordDecision, ExactLiveTap
<1> HIDE DEF q
<1>3. "resume-ready" \in Phases
  BY Zenon
<1>4. s1 \in RowType
  BY <1>1, <1>3, RowFields, Zenon
<1>5. /\ D \in DecisionType /\ D.kind = d /\ D.at = now
      /\ (q.stepUp /\ d = "confirmed" => D.stepUp) /\ (d = "rejected" => ~D.stepUp)
  <2>1. D \in DecisionType /\ D.kind = d /\ D.at = now
    BY <1>1 DEF DecisionType, StepUpOf
  <2>2. D.stepUp = (d = "confirmed" /\ m.stepUp)
    BY Zenon DEF StepUpOf
  <2> QED
    BY <1>2, <2>1, <2>2, Zenon
<1> HIDE DEF D
<1>6. r \in RowType
  BY <1>4, <1>5, RowFields, Zenon
<1>7. /\ r.phase = "resume-ready" /\ r.decision = D /\ r.claim = q.claim
      /\ r.terminal = q.terminal /\ r.issuedAt = q.issuedAt /\ r.expiresAt = q.expiresAt
  BY <1>1 DEF RowType
<1>8. r.stepUp = q.stepUp /\ r.delivered = q.delivered
  BY <1>1 DEF RowType
<1> HIDE DEF r
<1>9. D # NoDecision /\ q.claim = NoClaim /\ q.terminal = NoTerminal /\ q.decision = NoDecision
  BY <1>1, <1>2, <1>5 DEF RowInv, CleanRecord, NoDecision
<1>10. RowInv(r)
  BY <1>1, <1>2, <1>5, <1>7, <1>8, <1>9
     DEF RowInv, CleanRecord, Floor, NoClaim, NoTerminal
<1>11. Status(q) = "asked" /\ Status(r) \in {"approved", "refused"}
  BY <1>2, <1>5, <1>7, <1>9 DEF Status
<1>12. RowStep(q, r)
  BY <1>2, <1>6, <1>7, <1>9, <1>10, <1>11 DEF RowStep, Active, LifecycleMove
<1> QED
  BY <1>1, <1>2, <1>12, CasRewrites DEF q

\* claimResume and reconcileClaim rewrite a confirmed row.
LEMMA ClaimRewrites ==
  ASSUME IInv, NEW c \in Clients, NEW a \in Actors, NewClaim(c, a)
  PROVE  Rewrites(a)
<1> DEFINE q == rows[a]
           r == [q EXCEPT !.claim = [id |-> lastClaim + 1, at |-> now]]
<1>1. a \in Actors /\ q \in RowType /\ RowInv(q) /\ now \in 0..MaxTime
  BY DEF IInv, TypeOK
<1>2. q.phase = "resume-ready" /\ q.decision.kind = "confirmed" /\ Floor(q, now) /\ Cas(a, r)
  BY DEF NewClaim
<1> HIDE DEF q
<1>3. lastClaim + 1 \in 1..MaxClaims /\ [id |-> lastClaim + 1, at |-> now] \in ClaimType
  BY <1>1, BoundsAssumption DEF IInv, TypeOK, NewClaim, ClaimType
<1>4. r \in RowType
  BY <1>1, <1>3, RowFields, Zenon
<1>5. RowStep(q, r)
  BY <1>1, <1>2, <1>3, <1>4 DEF RowStep, RowType, DecisionType, ClaimType, TerminalType, RowInv,
     CleanRecord, Floor, Active, Status, LifecycleMove, NoDecision, NoClaim, NoTerminal
<1> QED
  BY <1>1, <1>2, <1>5, CasRewrites DEF q

\* Every step leaves all rows alone, inserts one or rewrites one.
LEMMA RowsChange ==
  ASSUME IInv, [Next]_vars
  PROVE  rows' = rows \/ \E a \in Actors : Inserts(a) \/ Rewrites(a)
<1>1. ASSUME NEW c \in Clients, NEW a \in Actors, Manager(c, a)
      PROVE  rows' = rows \/ Inserts(a) \/ Rewrites(a)
  <2>1. ASSUME NEW su \in BOOLEAN, NEW e \in 1..(MaxTime + 1), pause(c, a, su, e)
        PROVE  Inserts(a)
    BY <2>1, PauseInserts
  <2>2. CASE markCardDelivered(c, a)
    BY <2>2, DeliveredRewrites
  <2>3. CASE rotatePendingCard(c, a) \/ replaceCardAfterRecovery(c, a)
    BY <2>3, NewCardRewrites DEF rotatePendingCard, replaceCardAfterRecovery
  <2>4. CASE claimResume(c, a) \/ reconcileClaim(c, a)
    BY <2>4, ClaimRewrites DEF claimResume, reconcileClaim
  <2>5. CASE terminalizeRejected(c, a)
    BY <2>5, RejectedRewrites
  <2>6. CASE requestCancel(c, a)
    BY <2>6, CancelRewrites
  <2>7. CASE acknowledgeCancellation(c, a) \/ recover(c, a)
    BY <2>7 DEF acknowledgeCancellation, recover
  <2> QED
    BY <1>1, <2>1, <2>2, <2>3, <2>4, <2>5, <2>6, <2>7 DEF Manager
<1>2. ASSUME NEW m \in admissions, Tap(m)
      PROVE  rows' = rows \/ (m.actor \in Actors /\ Rewrites(m.actor))
  <2>1. PICK nonce \in 0..lastCard, d \in Decisions :
          AnswerLateTap(m, nonce, d) \/ ExpireOnTap(m, nonce, d) \/ RecordDecision(m, nonce, d)
    BY <1>2 DEF Tap
  <2>2. m.actor \in Actors
    BY DEF IInv, TypeOK, AdmissionType
  <2>3. CASE AnswerLateTap(m, nonce, d)
    BY <2>3 DEF AnswerLateTap
  <2>4. CASE ExpireOnTap(m, nonce, d)
    BY <2>2, <2>4, ExpireRewrites
  <2>5. CASE RecordDecision(m, nonce, d)
    BY <2>2, <2>5, DecisionRewrites
  <2> QED
    BY <2>1, <2>3, <2>4, <2>5
<1>3. ASSUME NEW p \in permits, NEW kind, finishWithPermit(p, kind)
      PROVE  p.actor \in Actors /\ Rewrites(p.actor)
  BY <1>3, FinishRewrites DEF IInv, TypeOK, PermitType
<1>4. ASSUME NEW k \in acks, finishCancellation(k)
      PROVE  k.actor \in Actors /\ Rewrites(k.actor)
  BY <1>4, CancelledRewrites DEF IInv, TypeOK, AckType
<1>5. ASSUME NEW a \in Actors, NEW card, NEW su, admitCallback(a, card, su)
      PROVE  rows' = rows
  BY <1>5 DEF admitCallback
<1>6. CASE Restart \/ (\E t \in Time : Clock(t)) \/ (\E h \in SUBSET Actors : AuthorityChanges(h))
  BY <1>6 DEF Restart, Clock, AuthorityChanges
<1>7. CASE UNCHANGED vars
  BY <1>7 DEF vars
<1> QED
  BY <1>1, <1>2, <1>3, <1>4, <1>5, <1>6, <1>7 DEF Next

\* The same, seen from one row.
LEMMA RowChanges ==
  ASSUME IInv, [Next]_vars, NEW x \in Actors
  PROVE  rows'[x] = rows[x] \/ Inserts(x) \/ Rewrites(x)
<1>1. rows \in [Actors -> RowType]
  BY DEF IInv, TypeOK
<1>2. ASSUME NEW a \in Actors, a # x, rows' = [rows EXCEPT ![a] = rows'[a]]
      PROVE  rows'[x] = rows[x]
  BY <1>1, <1>2
<1> QED
  BY <1>2, RowsChange DEF Inserts, Rewrites

\* The rows keep their type and invariant, and the active slot stays unique.
LEMMA RowsPreserved ==
  ASSUME IInv, [Next]_vars
  PROVE  /\ rows' \in [Actors -> RowType]
         /\ \A a \in Actors : RowInv(rows'[a])
         /\ OneActiveActor'
<1>1. rows \in [Actors -> RowType] /\ (\A a \in Actors : RowInv(rows[a])) /\ OneActiveActor
  BY DEF IInv, TypeOK
<1>2. ASSUME NEW a \in Actors
      PROVE  rows'[a] \in RowType /\ RowInv(rows'[a])
  BY <1>1, RowChanges DEF Inserts, Rewrites, RowStep
<1>3. rows' \in [Actors -> RowType]
  <2>1. CASE rows' = rows
    BY <1>1, <2>1
  <2>2. ASSUME NEW a \in Actors, rows' = [rows EXCEPT ![a] = rows'[a]]
        PROVE  rows' \in [Actors -> RowType]
    BY <1>1, <1>2, <2>2
  <2> QED
    BY <2>1, <2>2, RowsChange DEF Inserts, Rewrites
<1>4. ASSUME NEW a \in Actors, NEW b \in Actors, Active(rows'[a]), Active(rows'[b]), a # b
      PROVE  FALSE
  <2>1. CASE rows' = rows
    BY <1>1, <1>4, <2>1 DEF OneActiveActor
  <2>2. ASSUME NEW x \in Actors, Inserts(x)
        PROVE  FALSE
    BY <1>1, <1>4, <2>2 DEF Inserts
  <2>3. ASSUME NEW x \in Actors, Rewrites(x)
        PROVE  FALSE
    <3>1. Active(rows[x])
      BY <2>3 DEF Rewrites, RowStep
    <3>2. \A y \in Actors : y # x => rows'[y] = rows[y]
      BY <1>1, <2>3 DEF Rewrites
    <3> QED
      BY <1>1, <1>4, <3>1, <3>2 DEF OneActiveActor
  <2> QED
    BY <2>1, <2>2, <2>3, RowsChange
<1> QED
  BY <1>2, <1>3, <1>4 DEF OneActiveActor

\* No step takes a row's revision back.
LEMMA RevisionGrows ==
  ASSUME IInv, [Next]_vars, NEW x \in Actors
  PROVE  rows[x].revision \in Nat /\ rows'[x].revision \in Nat /\ rows[x].revision <= rows'[x].revision
<1>1. rows[x] \in RowType /\ rows'[x] \in RowType
  BY RowsPreserved DEF IInv, TypeOK
<1>2. rows[x].revision \in Nat /\ rows'[x].revision \in Nat
  BY <1>1 DEF RowType
<1> QED
  BY <1>2, RowChanges DEF Inserts, Rewrites, NoRow

\* A step mints at most one token, and the bounded counters stay bounded.
TokensKept == admissions' \subseteq admissions /\ permits' \subseteq permits /\ acks' \subseteq acks
Admits(a) ==
  /\ \E card \in 1..lastCard, su \in BOOLEAN : admissions' = admissions \cup
       {[actor |-> a, revision |-> rows[a].revision, card |-> card, stepUp |-> su]}
  /\ permits' = permits /\ acks' = acks
Permits(a) ==
  /\ lastClaim' = lastClaim + 1 /\ lastClaim < MaxClaims
  /\ permits' = permits \cup
       {[actor |-> a, revision |-> rows[a].revision + 1, claim |-> lastClaim + 1]}
  /\ rows'[a].revision = rows[a].revision + 1
  /\ admissions' = admissions /\ acks' = acks
Acknowledges(a) ==
  /\ acks' = acks \cup {[actor |-> a, revision |-> rows[a].revision]}
  /\ admissions' = admissions /\ permits' = permits
CountersKept ==
  /\ lastCard' = lastCard \/ (lastCard < MaxCards /\ lastCard' = lastCard + 1)
  /\ lastClaim' = lastClaim \/ (lastClaim < MaxClaims /\ lastClaim' = lastClaim + 1)
  /\ now' \in Time /\ held' \subseteq Actors /\ fresh' \subseteq Clients

\* What a step does to tokens, counters, clock, authority and readers.
LEMMA TokenSteps ==
  ASSUME IInv, [Next]_vars
  PROVE  /\ CountersKept
         /\ TokensKept \/ \E a \in Actors : Admits(a) \/ Permits(a) \/ Acknowledges(a)
<1> USE DEF tokens, minted, env, OnlyFresh
<1>1. now \in Time /\ held \subseteq Actors /\ fresh \subseteq Clients /\ rows \in [Actors -> RowType]
  BY DEF IInv, TypeOK
<1>2. ASSUME NEW c \in Clients, NEW a \in Actors, Manager(c, a)
      PROVE  CountersKept /\ (TokensKept \/ Permits(a) \/ Acknowledges(a))
  <2>1. ASSUME NEW su \in BOOLEAN, NEW e \in 1..(MaxTime + 1), pause(c, a, su, e)
        PROVE  CountersKept /\ TokensKept
    BY <1>1, <2>1 DEF pause, CountersKept, TokensKept
  <2>2. CASE markCardDelivered(c, a)
    BY <1>1, <2>2 DEF markCardDelivered, CountersKept, TokensKept
  <2>3. CASE rotatePendingCard(c, a) \/ replaceCardAfterRecovery(c, a)
    BY <1>1, <2>3 DEF rotatePendingCard, replaceCardAfterRecovery, NewCard, CountersKept, TokensKept
  <2>4. CASE claimResume(c, a) \/ reconcileClaim(c, a)
    <3>1. NewClaim(c, a) /\ rows'[a].revision = rows[a].revision + 1
      BY <2>4, ClaimRewrites DEF claimResume, reconcileClaim, Rewrites
    <3> QED
      BY <1>1, <3>1 DEF NewClaim, CountersKept, Permits
  <2>5. CASE terminalizeRejected(c, a)
    BY <1>1, <2>5 DEF terminalizeRejected, CountersKept, TokensKept
  <2>6. CASE requestCancel(c, a)
    BY <1>1, <2>6 DEF requestCancel, CountersKept, TokensKept
  <2>7. CASE acknowledgeCancellation(c, a)
    BY <1>1, <2>7 DEF acknowledgeCancellation, CountersKept, Acknowledges
  <2>8. CASE recover(c, a)
    BY <1>1, <2>8 DEF recover, CountersKept, TokensKept
  <2> QED
    BY <1>2, <2>1, <2>2, <2>3, <2>4, <2>5, <2>6, <2>7, <2>8 DEF Manager
<1>3. ASSUME NEW a \in Actors, NEW card \in 1..lastCard, NEW su \in BOOLEAN, admitCallback(a, card, su)
      PROVE  CountersKept /\ Admits(a)
  BY <1>1, <1>3 DEF admitCallback, CountersKept, Admits
<1>4. ASSUME NEW m \in admissions, Tap(m)
      PROVE  CountersKept /\ TokensKept
  <2>1. PICK nonce \in 0..lastCard, d \in Decisions :
          AnswerLateTap(m, nonce, d) \/ ExpireOnTap(m, nonce, d) \/ RecordDecision(m, nonce, d)
    BY <1>4 DEF Tap
  <2>2. CASE AnswerLateTap(m, nonce, d)
    BY <1>1, <2>2 DEF AnswerLateTap, CountersKept, TokensKept
  <2>3. CASE ExpireOnTap(m, nonce, d)
    BY <1>1, <2>3 DEF ExpireOnTap, CountersKept, TokensKept
  <2>4. CASE RecordDecision(m, nonce, d)
    BY <1>1, <2>4 DEF RecordDecision, CountersKept, TokensKept
  <2> QED
    BY <2>1, <2>2, <2>3, <2>4
<1>5. ASSUME NEW p \in permits, NEW kind, finishWithPermit(p, kind)
      PROVE  CountersKept /\ TokensKept
  BY <1>1, <1>5 DEF finishWithPermit, CountersKept, TokensKept
<1>6. ASSUME NEW k \in acks, finishCancellation(k)
      PROVE  CountersKept /\ TokensKept
  BY <1>1, <1>6 DEF finishCancellation, CountersKept, TokensKept
<1>7. CASE Restart
  BY <1>1, <1>7 DEF Restart, CountersKept, TokensKept
<1>8. CASE \E t \in Time : Clock(t)
  BY <1>1, <1>8 DEF Clock, CountersKept, TokensKept
<1>9. CASE \E h \in SUBSET Actors : AuthorityChanges(h)
  BY <1>1, <1>9 DEF AuthorityChanges, CountersKept, TokensKept
<1>10. CASE UNCHANGED vars
  BY <1>1, <1>10 DEF vars, CountersKept, TokensKept
<1> QED
  BY <1>2, <1>3, <1>4, <1>5, <1>6, <1>7, <1>8, <1>9, <1>10 DEF Next

\* Tokens keep their types and keep naming present or past revisions.
LEMMA TokensPreserved ==
  ASSUME IInv, [Next]_vars
  PROVE  /\ admissions' \subseteq AdmissionType /\ permits' \subseteq PermitType
         /\ acks' \subseteq AckType
         /\ TokensInv'
<1>1. /\ admissions \subseteq AdmissionType /\ permits \subseteq PermitType /\ acks \subseteq AckType
      /\ TokensInv /\ lastCard \in 0..MaxCards /\ lastClaim \in 0..MaxClaims
  BY DEF IInv, TypeOK
<1>2. \A x \in Actors : /\ rows[x].revision \in Nat /\ rows'[x].revision \in Nat
                        /\ rows[x].revision <= rows'[x].revision
  BY RevisionGrows
<1>3. CASE TokensKept
  BY <1>1, <1>2, <1>3 DEF TokensKept, TokensInv, AdmissionType, PermitType
<1>4. ASSUME NEW a \in Actors, Admits(a)
      PROVE  /\ admissions' \subseteq AdmissionType /\ permits' \subseteq PermitType
             /\ acks' \subseteq AckType /\ TokensInv'
  <2>1. PICK card \in 1..lastCard, su \in BOOLEAN : admissions' = admissions \cup
          {[actor |-> a, revision |-> rows[a].revision, card |-> card, stepUp |-> su]}
    BY <1>4 DEF Admits
  <2>2. [actor |-> a, revision |-> rows[a].revision, card |-> card, stepUp |-> su] \in AdmissionType
    <3>1. card \in 1..MaxCards /\ rows[a].revision \in Nat
      BY <1>1, <1>2, BoundsAssumption
    <3> QED
      BY <3>1, Zenon DEF AdmissionType
  <2>3. permits' = permits /\ acks' = acks
    BY <1>4 DEF Admits
  <2>4. \A m \in admissions' : m.revision <= rows'[m.actor].revision
    <3>1. ASSUME NEW m \in admissions
          PROVE  m.revision <= rows'[m.actor].revision
      BY <1>1, <1>2 DEF TokensInv, AdmissionType
    <3> QED
      BY <1>2, <2>1, <3>1
  <2>5. \A p \in permits' : p.revision <= rows'[p.actor].revision
    BY <1>1, <1>2, <2>3 DEF TokensInv, PermitType
  <2> QED
    BY <1>1, <2>1, <2>2, <2>3, <2>4, <2>5 DEF TokensInv
<1>5. ASSUME NEW a \in Actors, Permits(a)
      PROVE  /\ admissions' \subseteq AdmissionType /\ permits' \subseteq PermitType
             /\ acks' \subseteq AckType /\ TokensInv'
  <2>1. [actor |-> a, revision |-> rows[a].revision + 1, claim |-> lastClaim + 1] \in PermitType
    BY <1>1, <1>2, <1>5, BoundsAssumption DEF Permits, PermitType
  <2> QED
    BY <1>1, <1>2, <1>5, <2>1 DEF Permits, TokensInv, AdmissionType, PermitType
<1>6. ASSUME NEW a \in Actors, Acknowledges(a)
      PROVE  /\ admissions' \subseteq AdmissionType /\ permits' \subseteq PermitType
             /\ acks' \subseteq AckType /\ TokensInv'
  BY <1>1, <1>2, <1>6 DEF Acknowledges, TokensInv, AckType, AdmissionType, PermitType
<1> QED
  BY <1>3, <1>4, <1>5, <1>6, TokenSteps

\* An answer given earlier stays true when the row moves on.
LEMMA OldReplyStaysTrue ==
  ASSUME IInv, [Next]_vars, reply' = reply
  PROVE  ReplyStaysTrue'
<1> DEFINE x == reply.actor
<1>1. x \in Actors /\ reply.decision \in Decisions /\ ReplyStaysTrue
  BY DEF IInv, TypeOK, ReplyType
<1>2. rows[x] \in RowType /\ RowInv(rows[x])
  BY <1>1 DEF IInv, TypeOK
<1>3. CASE rows'[x] = rows[x]
  BY <1>1, <1>3 DEF ReplyStaysTrue
<1>4. CASE Inserts(x)
  <2>1. rows[x] = NoRow
    BY <1>4 DEF Inserts
  <2>2. reply.kind \notin {"recorded", "replayed", "expired", "cancelled"}
    BY <1>1, <2>1, BlankRow DEF ReplyStaysTrue
  <2> QED
    BY <2>2 DEF ReplyStaysTrue
<1>5. CASE Rewrites(x)
  <2>1. RowStep(rows[x], rows'[x]) /\ rows[x].terminal.code # "APPROVAL_EXPIRED"
    <3>1. RowStep(rows[x], rows'[x]) /\ Active(rows[x])
      BY <1>5 DEF Rewrites, RowStep
    <3>2. rows[x].terminal = NoTerminal
      BY <1>2, <3>1 DEF RowInv, Active
    <3> QED
      BY <3>1, <3>2 DEF NoTerminal
  <2>2. reply.kind \in {"recorded", "replayed"} => rows'[x].decision.kind = reply.decision
    <3>1. reply.kind \in {"recorded", "replayed"} => rows[x].decision.kind = reply.decision
      BY <1>1 DEF ReplyStaysTrue
    <3>2. rows[x].decision.kind = reply.decision => rows[x].decision # NoDecision
      BY <1>1 DEF NoDecision
    <3> QED
      BY <2>1, <3>1, <3>2 DEF RowStep
  <2>3. reply.kind = "cancelled" => rows'[x].phase \in {"cancelling", "terminal"}
    BY <1>1, <2>1 DEF ReplyStaysTrue, RowStep, Active
  <2> QED
    BY <1>1, <2>1, <2>2, <2>3 DEF ReplyStaysTrue
<1> QED
  BY <1>1, <1>3, <1>4, <1>5, RowChanges

\* An answer is true when it is given.
LEMMA NewReplyIsTrue ==
  ASSUME IInv, [Next]_vars, NEW m \in admissions, Tap(m)
  PROVE  reply' \in ReplyType /\ ReplyStaysTrue'
<1> DEFINE x == m.actor
<1>1. x \in Actors /\ rows \in [Actors -> RowType] /\ rows[x] \in RowType /\ RowInv(rows[x])
  BY DEF IInv, TypeOK, AdmissionType
<1>2. PICK nonce \in 0..lastCard, d \in Decisions :
        AnswerLateTap(m, nonce, d) \/ ExpireOnTap(m, nonce, d) \/ RecordDecision(m, nonce, d)
  BY DEF Tap
<1>3. CASE AnswerLateTap(m, nonce, d)
  <2>1. rows' = rows /\ \E kind : reply' = [actor |-> x, decision |-> d, kind |-> kind]
    BY <1>3 DEF AnswerLateTap, Answer
  <2>2. /\ reply'.kind \in {"replayed", "stale", "expired", "cancelled"}
        /\ reply'.kind = "replayed" => rows[x].decision.kind = d
        /\ reply'.kind = "cancelled" => rows[x].phase \in {"cancelling", "terminal"}
        /\ reply'.kind = "expired" => rows[x].terminal.code = "APPROVAL_EXPIRED"
    <3>1. rows[x].phase \in Phases
      BY <1>1 DEF RowType
    <3>2. CASE rows[x].phase = "absent"
      BY <1>3, <3>2 DEF AnswerLateTap, Answer
    <3>3. CASE rows[x].phase = "paused-awaiting-approval"
      BY <1>3, <3>3 DEF AnswerLateTap, Answer
    <3>4. CASE rows[x].phase = "resume-ready"
      BY <1>3, <3>4 DEF AnswerLateTap, Answer
    <3>5. CASE rows[x].phase = "cancelling"
      BY <1>3, <3>5 DEF AnswerLateTap, Answer
    <3>6. CASE rows[x].phase = "terminal"
      BY <1>3, <3>6 DEF AnswerLateTap, Answer
    <3> QED
      BY <3>1, <3>2, <3>3, <3>4, <3>5, <3>6
  <2>3. rows[x].terminal.code = "APPROVAL_EXPIRED" => rows[x].decision = NoDecision
    BY <1>1 DEF RowInv
  <2>4. reply' \in ReplyType /\ reply'.actor = x /\ reply'.decision = d
    BY <1>1, <2>1, <2>2 DEF ReplyType
  <2> QED
    BY <2>1, <2>2, <2>3, <2>4 DEF ReplyStaysTrue
<1>4. CASE ExpireOnTap(m, nonce, d)
  <2>1. reply' = [actor |-> x, decision |-> d, kind |-> "expired"]
    BY <1>4 DEF ExpireOnTap, Answer
  <2>2. rows'[x].terminal.code = "APPROVAL_EXPIRED" /\ RowInv(rows'[x])
    <3>1. RowInv(rows'[x])
      BY <1>1, RowsPreserved
    <3>2. rows'[x].terminal = [kind |-> "denied", code |-> "APPROVAL_EXPIRED", at |-> now]
      BY <1>1, <1>4 DEF ExpireOnTap, Cas, RowType
    <3> QED
      BY <3>1, <3>2
  <2> QED
    BY <1>1, <2>1, <2>2 DEF ReplyStaysTrue, ReplyType, RowInv
<1>5. CASE RecordDecision(m, nonce, d)
  <2>1. reply' = [actor |-> x, decision |-> d, kind |-> "recorded"]
    BY <1>5 DEF RecordDecision, Answer
  <2>2. rows'[x].decision.kind = d
    BY <1>1, <1>5 DEF RecordDecision, Cas, RowType
  <2> QED
    BY <1>1, <2>1, <2>2 DEF ReplyStaysTrue, ReplyType
<1> QED
  BY <1>2, <1>3, <1>4, <1>5

\* Only taps answer.
LEMMA ReplyPreserved ==
  ASSUME IInv, [Next]_vars
  PROVE  reply' \in ReplyType /\ ReplyStaysTrue'
<1>1. ASSUME NEW c \in Clients, NEW a \in Actors, Manager(c, a)
      PROVE  reply' = reply
  BY <1>1 DEF Manager, pause, markCardDelivered, rotatePendingCard, replaceCardAfterRecovery,
     NewCard, claimResume, reconcileClaim, NewClaim, terminalizeRejected, requestCancel,
     acknowledgeCancellation, recover
<1>2. ASSUME NEW m \in admissions, Tap(m)
      PROVE  reply' \in ReplyType /\ ReplyStaysTrue'
  BY <1>2, NewReplyIsTrue
<1>3. CASE reply' = reply
  BY <1>3, OldReplyStaysTrue DEF IInv, TypeOK
<1>4. ASSUME NEW a, NEW card, NEW su, admitCallback(a, card, su)
      PROVE  reply' = reply
  BY <1>4 DEF admitCallback
<1>5. ASSUME NEW p, NEW kind, finishWithPermit(p, kind)
      PROVE  reply' = reply
  BY <1>5 DEF finishWithPermit
<1>6. ASSUME NEW k, finishCancellation(k)
      PROVE  reply' = reply
  BY <1>6 DEF finishCancellation
<1>7. CASE Restart \/ (\E t \in Time : Clock(t)) \/ (\E h \in SUBSET Actors : AuthorityChanges(h))
  BY <1>3, <1>7 DEF Restart, Clock, AuthorityChanges
<1>8. CASE UNCHANGED vars
  BY <1>3, <1>8 DEF vars
<1> QED
  BY <1>1, <1>2, <1>3, <1>4, <1>5, <1>6, <1>7, <1>8 DEF Next

\* The invariant holds initially.
LEMMA InitIInv == Init => IInv
<1> SUFFICES ASSUME Init
             PROVE  IInv
  OBVIOUS
<1>1. NoRow \in RowType /\ RowInv(NoRow) /\ ~Active(NoRow)
  <2>1. NoRow \in RowType
    BY NullTypes, BoundsAssumption DEF NoRow, RowType
  <2>2. RowInv(NoRow)
    BY DEF NoRow, RowInv, NoDecision, NoClaim, NoTerminal
  <2> QED
    BY <2>1, <2>2 DEF NoRow, Active
<1>2. rows = [a \in Actors |-> NoRow] /\ admissions = {} /\ permits = {} /\ acks = {} /\ fresh = {}
  BY DEF Init
<1>3. TypeOK
  BY <1>1, <1>2, BoundsAssumption DEF Init, TypeOK, ReplyType
<1>4. (\A a \in Actors : RowInv(rows[a])) /\ OneActiveActor /\ TokensInv
  BY <1>1, <1>2 DEF OneActiveActor, TokensInv
<1>5. ReplyStaysTrue
  BY DEF Init, ReplyStaysTrue
<1> QED
  BY <1>3, <1>4, <1>5 DEF IInv

\* Every step keeps the invariant.
LEMMA NextIInv == IInv /\ [Next]_vars => IInv'
<1> SUFFICES ASSUME IInv, [Next]_vars
             PROVE  IInv'
  OBVIOUS
<1>1. lastCard' \in 0..MaxCards /\ lastClaim' \in 0..MaxClaims
  BY TokenSteps, BoundsAssumption DEF CountersKept, IInv, TypeOK
<1>2. TypeOK'
  BY <1>1, RowsPreserved, TokensPreserved, ReplyPreserved, TokenSteps DEF TypeOK, CountersKept
<1> QED
  BY <1>2, RowsPreserved, TokensPreserved, ReplyPreserved DEF IInv

\* The invariant, for every behaviour of the store and its callers.
THEOREM Invariance == Spec => []IInv
BY InitIInv, NextIInv, PTL DEF Spec

\* Every variable keeps its type (durable-turn-actor.ts, all operations).
THEOREM TypeCorrect == Spec => []TypeOK
<1>1. IInv => TypeOK
  BY DEF IInv
<1> QED
  BY <1>1, Invariance, PTL

\* Every stored record passes cleanRecord, so no sequence of calls corrupts the store.
THEOREM RowsAreClean == Spec => []EveryRowClean
<1>1. IInv => EveryRowClean
  BY DEF IInv, EveryRowClean, RowInv
<1> QED
  BY <1>1, Invariance, PTL

\* At most one actor of the installation is active.
THEOREM SlotIsExclusive == Spec => []OneActiveActor
<1>1. IInv => OneActiveActor
  BY DEF IInv
<1> QED
  BY <1>1, Invariance, PTL

\* A claimed or completed operation was confirmed in time, with the second
\* factor when required, whatever the clock, the restarts and the late taps.
THEOREM ApprovalIsTimely == Spec => []ClaimRestsOnTimelyApproval
<1>1. ASSUME IInv, NEW a \in Actors
      PROVE  rows[a].claim # NoClaim \/ rows[a].terminal.kind \in {"completed", "failed"} =>
               /\ rows[a].claim # NoClaim
               /\ rows[a].decision.kind = "confirmed" /\ (rows[a].stepUp => rows[a].decision.stepUp)
               /\ rows[a].delivered
               /\ rows[a].issuedAt <= rows[a].decision.at
               /\ rows[a].decision.at < rows[a].expiresAt
               /\ rows[a].decision.at <= rows[a].claim.at
               /\ rows[a].phase = "terminal" => rows[a].claim.at <= rows[a].terminal.at
  <2>1. RowInv(rows[a])
    BY <1>1 DEF IInv
  <2>2. rows[a].terminal.kind \in {"completed", "failed"} => rows[a].claim # NoClaim
    BY <2>1 DEF RowInv
  <2>3. ASSUME rows[a].claim # NoClaim
        PROVE  /\ rows[a].phase # "absent" /\ rows[a].decision # NoDecision
               /\ rows[a].decision.kind = "confirmed" /\ rows[a].decision.at <= rows[a].claim.at
    BY <2>1, <2>3, BlankRow DEF RowInv
  <2>4. ASSUME rows[a].claim # NoClaim
        PROVE  (rows[a].stepUp => rows[a].decision.stepUp) /\ rows[a].phase # "absent"
    BY <2>1, <2>3, <2>4 DEF RowInv, CleanRecord
  <2>5. ASSUME rows[a].claim # NoClaim
        PROVE  /\ rows[a].delivered
               /\ rows[a].issuedAt <= rows[a].decision.at
               /\ rows[a].decision.at < rows[a].expiresAt
    BY <2>1, <2>3, <2>5 DEF RowInv
  <2>6. rows[a].phase = "terminal" => rows[a].claim.at <= rows[a].terminal.at
    BY <2>1 DEF RowInv, CleanRecord
  <2> QED
    BY <2>2, <2>3, <2>4, <2>5, <2>6
<1>2. IInv => ClaimRestsOnTimelyApproval
  BY <1>1 DEF ClaimRestsOnTimelyApproval
<1> QED
  BY <1>2, Invariance, PTL

\* What an operator was told about their tap stays true.
THEOREM RepliesStayTrue == Spec => []ReplyStaysTrue
<1>1. IInv => ReplyStaysTrue
  BY DEF IInv
<1> QED
  BY <1>1, Invariance, PTL

\* A recorded decision is never changed, by taps, claims, cancellation or restart.
THEOREM DecisionsAreFinal == Spec => DecisionIsFinal
<1>1. ASSUME IInv, [Next]_vars, NEW a \in Actors, rows[a].decision # NoDecision
      PROVE  rows'[a].decision = rows[a].decision
  <2>1. CASE Inserts(a)
    BY <1>1, <2>1, BlankRow DEF Inserts
  <2>2. CASE Rewrites(a)
    BY <1>1, <2>2 DEF Rewrites, RowStep
  <2> QED
    BY <1>1, <2>1, <2>2, RowChanges
<1>2. IInv /\ [Next]_vars =>
        [\A a \in Actors : rows[a].decision # NoDecision => rows'[a].decision = rows[a].decision]_vars
  BY <1>1
<1> QED
  BY <1>2, Invariance, PTL DEF Spec, DecisionIsFinal

\* Every rewrite of a row is of an active row and moves its revision by one.
THEOREM RowsOnlyMoveForward == Spec => RowsMoveForward
<1>1. ASSUME IInv, [Next]_vars, NEW a \in Actors, rows'[a] # rows[a]
      PROVE  rows[a].phase # "terminal" /\ rows'[a].revision = rows[a].revision + 1
  <2>1. CASE Inserts(a)
    BY <2>1, BlankRow DEF Inserts
  <2>2. CASE Rewrites(a)
    BY <2>2 DEF Rewrites, RowStep, Active
  <2> QED
    BY <1>1, <2>1, <2>2, RowChanges
<1>2. IInv /\ [Next]_vars =>
        [\A a \in Actors : rows'[a] # rows[a] =>
           rows[a].phase # "terminal" /\ rows'[a].revision = rows[a].revision + 1]_vars
  BY <1>1
<1> QED
  BY <1>2, Invariance, PTL DEF Spec, RowsMoveForward

\* After requestCancel the only end is cancelled.
THEOREM CancellationAlwaysWins == Spec => CancellationWins
<1>1. ASSUME IInv, [Next]_vars, NEW a \in Actors,
             rows[a].phase = "cancelling", rows'[a] # rows[a]
      PROVE  rows'[a].phase = "terminal" /\ rows'[a].terminal.kind = "cancelled"
  <2>1. CASE Inserts(a)
    BY <1>1, <2>1, BlankRow DEF Inserts
  <2>2. CASE Rewrites(a)
    BY <1>1, <2>2 DEF Rewrites, RowStep
  <2> QED
    BY <1>1, <2>1, <2>2, RowChanges
<1>2. IInv /\ [Next]_vars =>
        [\A a \in Actors : rows[a].phase = "cancelling" /\ rows'[a] # rows[a] =>
           rows'[a].phase = "terminal" /\ rows'[a].terminal.kind = "cancelled"]_vars
  BY <1>1
<1> QED
  BY <1>2, Invariance, PTL DEF Spec, CancellationWins

\* A superseded resume permit is never accepted again by finishWithPermit.
THEOREM DeadPermitsStayDead == Spec => DeadPermitStaysDead
<1>1. ASSUME IInv, [Next]_vars, NEW p \in permits, ~CanFinish(p)
      PROVE  ~CanFinish(p)'
  <2> DEFINE x == p.actor
  <2>1. /\ x \in Actors /\ rows[x].revision \in Nat /\ p.revision \in Nat
        /\ p.revision <= rows[x].revision
    BY <1>1, RevisionGrows DEF IInv, TypeOK, TokensInv, PermitType
  <2>2. CASE rows'[x] = rows[x]
    BY <1>1, <2>2 DEF CanFinish
  <2>3. CASE Inserts(x)
    BY <2>3 DEF CanFinish, Inserts
  <2>4. CASE Rewrites(x)
    BY <2>1, <2>4 DEF CanFinish, Rewrites
  <2> QED
    BY <1>1, <2>1, <2>2, <2>3, <2>4, RowChanges
<1>2. IInv /\ [Next]_vars => [\A p \in permits : ~CanFinish(p) => ~CanFinish(p)']_vars
  BY <1>1
<1> QED
  BY <1>2, Invariance, PTL DEF Spec, DeadPermitStaysDead

\* A tap on a replaced, decided or cancelled card never decides.
THEOREM DeadAdmissionsStayDead == Spec => DeadAdmissionStaysDead
<1>1. ASSUME IInv, [Next]_vars, NEW m \in admissions, ~CanDecide(m)
      PROVE  ~CanDecide(m)'
  <2> DEFINE x == m.actor
  <2>1. /\ x \in Actors /\ rows[x].revision \in Nat /\ m.revision \in Nat
        /\ m.revision <= rows[x].revision
    BY <1>1, RevisionGrows DEF IInv, TypeOK, TokensInv, AdmissionType
  <2>2. CASE rows'[x] = rows[x]
    BY <1>1, <2>2 DEF CanDecide
  <2>3. CASE Inserts(x)
    BY <2>1, <2>3, BlankRow DEF CanDecide, Inserts
  <2>4. CASE Rewrites(x)
    BY <2>1, <2>4 DEF CanDecide, Rewrites
  <2> QED
    BY <1>1, <2>1, <2>2, <2>3, <2>4, RowChanges
<1>2. IInv /\ [Next]_vars => [\A m \in admissions : ~CanDecide(m) => ~CanDecide(m)']_vars
  BY <1>1
<1> QED
  BY <1>2, Invariance, PTL DEF Spec, DeadAdmissionStaysDead

\* The stored rows implement the approval lifecycle.
THEOREM Refinement == Spec => ImplementsLifecycle
<1> DEFINE st == [a \in Actors |-> Status(rows[a])]
<1>1. Init => Lifecycle!Init
  BY DEF Init, Lifecycle!Init, Status, NoRow
<1>2. ASSUME IInv, [Next]_vars
      PROVE  [Lifecycle!Next]_st
  <2>1. rows \in [Actors -> RowType] /\ \A b \in Actors : RowInv(rows[b])
    BY <1>2 DEF IInv, TypeOK
  <2>2. CASE rows' = rows
    BY <2>2
  <2>3. ASSUME NEW a \in Actors, Inserts(a)
        PROVE  Lifecycle!Ask(a)
    <3>1. Status(rows[a]) = "none" /\ Status(rows'[a]) = "asked"
      BY <2>3 DEF Inserts, Status, NoRow
    <3>2. \A b \in Actors : Status(rows[b]) \notin Lifecycle!Open
      BY <2>1, <2>3 DEF Inserts, Status, Active, Lifecycle!Open, RowType, TerminalType
    <3>3. st' = [st EXCEPT ![a] = "asked"]
      BY <2>1, <2>3, <3>1 DEF Inserts
    <3> QED
      BY <3>1, <3>2, <3>3 DEF Lifecycle!Ask, Lifecycle!Move
  <2>4. ASSUME NEW a \in Actors, Rewrites(a)
        PROVE  [Lifecycle!Next]_st
    <3> DEFINE s == Status(rows[a])
               t == Status(rows'[a])
    <3>1. s = t \/ LifecycleMove(s, t)
      BY <2>4 DEF Rewrites, RowStep
    <3>2. st' = [st EXCEPT ![a] = t] /\ st[a] = s
      BY <2>1, <2>4 DEF Rewrites
    <3>3. CASE s = t
      BY <3>2, <3>3
    <3> HIDE DEF st, s, t
    <3>4. CASE LifecycleMove(s, t)
      <4>1. \E b \in Actors :
              \/ Lifecycle!Approve(b) \/ Lifecycle!Refuse(b) \/ Lifecycle!Expire(b)
              \/ Lifecycle!Run(b) \/ Lifecycle!End(b) \/ Lifecycle!Close(b)
              \/ Lifecycle!Stop(b) \/ Lifecycle!Stopped(b)
        BY <3>2, <3>4 DEF LifecycleMove, Lifecycle!Move, Lifecycle!Approve, Lifecycle!Refuse,
           Lifecycle!Expire, Lifecycle!Run, Lifecycle!End, Lifecycle!Close, Lifecycle!Stop,
           Lifecycle!Stopped, st
      <4> QED
        BY <4>1 DEF Lifecycle!Next
    <3> QED
      BY <3>1, <3>3, <3>4
  <2> QED
    BY <1>2, <2>2, <2>3, <2>4, RowsChange DEF Lifecycle!Next
<1> QED
  BY <1>1, <1>2, Invariance, PTL DEF Spec, ImplementsLifecycle, Lifecycle!Spec

\* All of RowsAreSound: every reader of the store may rely on the rows it finds.
THEOREM RowsStaySound == Spec => []RowsAreSound
BY TypeCorrect, RowsAreClean, ApprovalIsTimely, RepliesStayTrue, PTL DEF RowsAreSound

\* All of HistoryIsFinal: no call of the manager takes back what was recorded.
THEOREM HistoryStaysFinal == Spec => HistoryIsFinal
BY DecisionsAreFinal, RowsOnlyMoveForward, CancellationAlwaysWins, DeadPermitsStayDead,
   DeadAdmissionsStayDead, PTL DEF HistoryIsFinal
=============================================================================
