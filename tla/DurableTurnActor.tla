-------------------------- MODULE DurableTurnActor --------------------------
(***************************************************************************)
(* The durable turn actor (durable-turn-actor.ts): the record that keeps   *)
(* one paused operation alive across restarts, from the approval card that *)
(* is sent to the operator, through the operator's decision and the claim  *)
(* of the resumed run, to its terminal outcome.                            *)
(*                                                                         *)
(* Every method of the controller is one synchronous call that ends in at  *)
(* most one SQLite statement, made by the process that holds the writer    *)
(* lease of the store; so every method is one action.  What interleaves is *)
(* the callers: tasks of the process that act on a record they read        *)
(* earlier (the variable fresh), operators who tap cards that were issued  *)
(* earlier, and tokens minted earlier (admissions, permits, acks), which   *)
(* live in WeakMaps of the process and are lost when it stops.             *)
(***************************************************************************)
EXTENDS Integers, FiniteSets

CONSTANTS
  Actors,      \* actor ids a store may mint
  Clients,     \* tasks of the process that call the manager
  MaxTime,     \* bound on the wall clock
  MaxCards,    \* bound on the cards (and nonces) ever minted
  MaxClaims,   \* bound on the claim ids ever minted
  MaxAdmissions \* bound on the callback admissions alive at once

ASSUME BoundsAssumption == MaxTime \in Nat /\ MaxCards \in Nat /\ MaxClaims \in Nat /\ MaxAdmissions \in Nat

VARIABLES
  rows,        \* durable_turn_actors: one row per actor id
  lastCard,    \* last minted card; card, nonce and actionHash share its number
  lastClaim,   \* last minted claim id
  now,         \* Date.now(): may step backwards
  held,        \* actors whose identity operationControl.assertHeld attests
  admissions,  \* callbackAdmissions of this controller
  permits,     \* permitStates of this controller that are not consumed
  acks,        \* cancellationAcks of this controller that are not consumed
  fresh,       \* clients whose last read record still is the stored one
  reply        \* the answer recordDecision returned last, to an operator

vars == <<rows, lastCard, lastClaim, now, held, admissions, permits, acks, fresh, reply>>
tokens == <<admissions, permits, acks>>
minted == <<lastCard, lastClaim>>
env == <<now, held>>

Phases == {"absent", "paused-awaiting-approval", "resume-ready", "cancelling", "terminal"}
Time == 0..MaxTime

NoDecision == [kind |-> "none", at |-> 0, stepUp |-> FALSE]
NoClaim == [id |-> 0, at |-> 0]
NoTerminal == [kind |-> "none", code |-> "none", at |-> 0]

\* A row of the table; phase "absent" stands for an actor id with no row.
NoRow ==
  [phase |-> "absent", revision |-> 0, card |-> 0, stepUp |-> FALSE,
   issuedAt |-> 0, expiresAt |-> 0, delivered |-> FALSE,
   decision |-> NoDecision, claim |-> NoClaim, terminal |-> NoTerminal]

DecisionType == [kind : {"none", "confirmed", "rejected"}, at : Time, stepUp : BOOLEAN]
ClaimType == [id : 0..MaxClaims, at : Time]
TerminalType ==
  [kind : {"none", "completed", "cancelled", "denied", "failed"},
   code : {"none", "APPROVAL_REJECTED", "APPROVAL_EXPIRED", "CALLER"}, at : Time]
RowType ==
  [phase : Phases, revision : Nat, card : 0..MaxCards, stepUp : BOOLEAN,
   issuedAt : Time, expiresAt : Nat, delivered : BOOLEAN,
   decision : DecisionType, claim : ClaimType, terminal : TerminalType]
AdmissionType == [actor : Actors, revision : Nat, card : 1..MaxCards, stepUp : BOOLEAN]
PermitType == [actor : Actors, revision : Nat, claim : 1..MaxClaims]
AckType == [actor : Actors, revision : Nat]
Decisions == {"confirmed", "rejected"}
ReplyType ==
  [actor : Actors, decision : Decisions,
   kind : {"none", "recorded", "replayed", "stale", "expired", "cancelled"}]

\* Every variable has its type; rows, tokens and reply only name minted ids.
TypeOK ==
  /\ rows \in [Actors -> RowType]
  /\ lastCard \in 0..MaxCards
  /\ lastClaim \in 0..MaxClaims
  /\ now \in Time
  /\ held \subseteq Actors
  /\ admissions \subseteq AdmissionType
  /\ permits \subseteq PermitType
  /\ acks \subseteq AckType
  /\ fresh \subseteq Clients
  /\ reply \in ReplyType

Active(r) == r.phase \in {"paused-awaiting-approval", "resume-ready", "cancelling"}

\* cleanRecord: the cross-field conditions every persisted or loaded record
\* must meet (the card's hash conditions hold by the way cards are numbered).
CleanRecord(r) ==
  /\ r.expiresAt > r.issuedAt
  /\ r.phase = "paused-awaiting-approval" =>
       r.decision = NoDecision /\ r.claim = NoClaim /\ r.terminal = NoTerminal
  /\ r.phase = "resume-ready" => r.decision # NoDecision /\ r.terminal = NoTerminal
  /\ r.phase = "cancelling" => r.terminal = NoTerminal
  /\ r.phase = "terminal" => r.terminal # NoTerminal
  /\ r.decision.kind = "confirmed" /\ r.stepUp => r.decision.stepUp
  /\ r.decision.kind = "rejected" => ~r.decision.stepUp /\ r.claim = NoClaim

\* currentTime(record): refuses a clock behind any time the record carries.
Floor(r, t) ==
  r.issuedAt <= t /\ r.decision.at <= t /\ r.claim.at <= t /\ r.terminal.at <= t

\* persistCas: the revision moves by one, the identity stays.
Cas(a, r) == rows' = [rows EXCEPT ![a] = [r EXCEPT !.revision = rows[a].revision + 1]]

\* A caller passes as expectedRevision the revision of the record it read last.
\* Revisions only grow, so all that matters is whether that record still is the
\* stored one: a write leaves only its caller with a current record.
Expects(c) == c \in fresh
OnlyFresh(C) == fresh' = C

Init ==
  /\ rows = [a \in Actors |-> NoRow]
  /\ lastCard = 0 /\ lastClaim = 0
  /\ now \in Time
  /\ held \in SUBSET Actors
  /\ admissions = {} /\ permits = {} /\ acks = {}
  /\ fresh = {}
  /\ reply \in [actor : Actors, decision : {"confirmed"}, kind : {"none"}]
-----------------------------------------------------------------------------
\* Mutant: pause without the UNIQUE active slot.
PauseIgnoringSlot(c, a, needsStepUp, expires) ==
  /\ rows[a].phase = "absent" /\ a \in held /\ expires > now
  /\ lastCard < MaxCards /\ lastCard' = lastCard + 1
  /\ rows' = [rows EXCEPT ![a] =
       [phase |-> "paused-awaiting-approval", revision |-> 1, card |-> lastCard',
        stepUp |-> needsStepUp, issuedAt |-> now, expiresAt |-> expires, delivered |-> FALSE,
        decision |-> NoDecision, claim |-> NoClaim, terminal |-> NoTerminal]]
  /\ OnlyFresh({c})
  /\ UNCHANGED <<lastClaim, env, tokens, reply>>

\* manager.pause: a new actor with a pending card, unless the installation's
\* single active slot is taken (persistInsert's UNIQUE constraint).
pause(c, a, needsStepUp, expires) ==
  /\ rows[a].phase = "absent" /\ a \in held
  /\ expires > now
  /\ \A b \in Actors : ~Active(rows[b])
  /\ lastCard < MaxCards
  /\ lastCard' = lastCard + 1
  /\ rows' = [rows EXCEPT ![a] =
       [phase |-> "paused-awaiting-approval", revision |-> 1, card |-> lastCard',
        stepUp |-> needsStepUp, issuedAt |-> now, expiresAt |-> expires, delivered |-> FALSE,
        decision |-> NoDecision, claim |-> NoClaim, terminal |-> NoTerminal]]
  /\ OnlyFresh({c})
  /\ UNCHANGED <<lastClaim, env, tokens, reply>>

\* manager.markCardDelivered
markCardDelivered(c, a) ==
  /\ rows[a].phase = "paused-awaiting-approval" /\ Expects(c)
  /\ ~rows[a].delivered /\ a \in held
  /\ Cas(a, [rows[a] EXCEPT !.delivered = TRUE])
  /\ OnlyFresh({c})
  /\ UNCHANGED <<minted, env, tokens, reply>>

\* The body rotatePendingCard and replaceCardAfterRecovery share: a new card
\* and nonce with the old expiry, pending again.
NewCard(c, a) ==
  /\ rows[a].phase = "paused-awaiting-approval" /\ Expects(c) /\ a \in held
  /\ Floor(rows[a], now) /\ now < rows[a].expiresAt
  /\ lastCard < MaxCards
  /\ lastCard' = lastCard + 1
  /\ Cas(a, [rows[a] EXCEPT !.card = lastCard', !.issuedAt = now, !.delivered = FALSE])
  /\ OnlyFresh({c})
  /\ UNCHANGED <<lastClaim, env, tokens, reply>>

\* manager.rotatePendingCard: only while the card is not delivered.
rotatePendingCard(c, a) == ~rows[a].delivered /\ NewCard(c, a)

\* manager.replaceCardAfterRecovery: whatever the delivery state.
replaceCardAfterRecovery(c, a) == NewCard(c, a)

\* manager.admitCallback: a tap on exactly the current, delivered card, which
\* the transport port admits with or without a verified second factor.
admitCallback(a, card, stepUpVerified) ==
  /\ rows[a].phase \in {"paused-awaiting-approval", "resume-ready"}
  /\ rows[a].delivered /\ rows[a].card = card /\ a \in held
  /\ Cardinality(admissions) < MaxAdmissions
  /\ admissions' = admissions \cup
       {[actor |-> a, revision |-> rows[a].revision, card |-> card, stepUp |-> stepUpVerified]}
  /\ UNCHANGED <<rows, minted, env, permits, acks, fresh, reply>>
-----------------------------------------------------------------------------
Answer(m, d, kind) == reply' = [actor |-> m.actor, decision |-> d, kind |-> kind]

StepUpOf(m, d) == d = "confirmed" /\ m.stepUp

\* Mutant: every repeated tap on a decided card is answered as a replay.
AnswerAnyReplay(m, nonce, d) ==
  /\ rows[m.actor].phase = "resume-ready" /\ rows[m.actor].card = m.card /\ m.card = nonce
  /\ Answer(m, d, "replayed")
  /\ UNCHANGED <<rows, minted, env, tokens, fresh>>

\* callback.recordDecision, the answers that change nothing: the actor is past
\* its decision, or the tap is not exactly the current card and nonce.
AnswerLateTap(m, nonce, d) ==
  LET r == rows[m.actor]
      exactTap == r.card = m.card /\ r.card = nonce
      same == r.decision.kind = d /\ r.decision.stepUp = StepUpOf(m, d)
      kind == CASE r.phase = "absent" -> "stale"
                [] r.phase = "cancelling" -> "cancelled"
                [] r.phase = "terminal" ->
                     IF r.terminal.code = "APPROVAL_EXPIRED" THEN "expired" ELSE "cancelled"
                [] r.phase = "resume-ready" -> IF exactTap /\ same THEN "replayed" ELSE "stale"
                [] OTHER -> "stale"
  IN /\ r.phase = "paused-awaiting-approval" =>
          ~exactTap \/ r.revision # m.revision
          \/ (m.actor \in held /\ Floor(r, now) /\ ~r.delivered)
     /\ Answer(m, d, kind)
     /\ UNCHANGED <<rows, minted, env, tokens, fresh>>

\* What recordDecision has checked when it reaches the clock.
ExactLiveTap(m, nonce) ==
  LET r == rows[m.actor]
  IN /\ r.phase = "paused-awaiting-approval" /\ r.card = m.card /\ r.card = nonce
     /\ r.revision = m.revision /\ m.actor \in held /\ Floor(r, now) /\ r.delivered

\* callback.recordDecision on a card past its expiry: the actor ends denied.
ExpireOnTap(m, nonce, d) ==
  /\ ExactLiveTap(m, nonce) /\ now >= rows[m.actor].expiresAt
  /\ Cas(m.actor, [rows[m.actor] EXCEPT !.phase = "terminal",
       !.terminal = [kind |-> "denied", code |-> "APPROVAL_EXPIRED", at |-> now]])
  /\ Answer(m, d, "expired")
  /\ OnlyFresh({})
  /\ UNCHANGED <<minted, env, tokens>>

\* callback.recordDecision in time: the decision is recorded once; confirming
\* a step-up card needs an admission that carries the second factor.
RecordDecision(m, nonce, d) ==
  /\ ExactLiveTap(m, nonce) /\ now < rows[m.actor].expiresAt
  /\ rows[m.actor].stepUp /\ d = "confirmed" => m.stepUp
  /\ Cas(m.actor, [rows[m.actor] EXCEPT !.phase = "resume-ready",
       !.decision = [kind |-> d, at |-> now, stepUp |-> StepUpOf(m, d)]])
  /\ Answer(m, d, "recorded")
  /\ OnlyFresh({})
  /\ UNCHANGED <<minted, env, tokens>>
-----------------------------------------------------------------------------

\* The body claimResume and reconcileClaim share: a fresh claim and its permit.
NewClaim(c, a) ==
  /\ rows[a].phase = "resume-ready" /\ Expects(c) /\ a \in held
  /\ rows[a].decision.kind = "confirmed"
  /\ Floor(rows[a], now)
  /\ lastClaim < MaxClaims
  /\ lastClaim' = lastClaim + 1
  /\ Cas(a, [rows[a] EXCEPT !.claim = [id |-> lastClaim', at |-> now]])
  /\ permits' = permits \cup
       {[actor |-> a, revision |-> rows[a].revision + 1, claim |-> lastClaim']}
  /\ OnlyFresh({c})
  /\ UNCHANGED <<lastCard, env, admissions, acks, reply>>

\* manager.claimResume: the first claim; a claimed record is only reported.
claimResume(c, a) == rows[a].claim = NoClaim /\ NewClaim(c, a)

\* manager.reconcileClaim: takes over a claim the port attests replay-safe.
reconcileClaim(c, a) == rows[a].claim # NoClaim /\ NewClaim(c, a)

\* Mutant: an unclaimed actor is ended as rejected whatever was decided.
TerminalizeUnclaimed(c, a) ==
  /\ rows[a].phase = "resume-ready" /\ rows[a].claim = NoClaim
  /\ Expects(c) /\ a \in held /\ Floor(rows[a], now)
  /\ Cas(a, [rows[a] EXCEPT !.phase = "terminal",
       !.terminal = [kind |-> "denied", code |-> "APPROVAL_REJECTED", at |-> now]])
  /\ OnlyFresh({c})
  /\ UNCHANGED <<minted, env, tokens, reply>>

\* manager.terminalizeRejected
terminalizeRejected(c, a) ==
  /\ rows[a].phase = "resume-ready" /\ rows[a].claim = NoClaim
  /\ rows[a].decision.kind = "rejected" /\ Expects(c) /\ a \in held
  /\ Floor(rows[a], now)
  /\ Cas(a, [rows[a] EXCEPT !.phase = "terminal",
       !.terminal = [kind |-> "denied", code |-> "APPROVAL_REJECTED", at |-> now]])
  /\ OnlyFresh({c})
  /\ UNCHANGED <<minted, env, tokens, reply>>

\* manager.requestCancel: from every active phase; idempotent once cancelling.
requestCancel(c, a) ==
  /\ rows[a].phase \in {"paused-awaiting-approval", "resume-ready"}
  /\ Expects(c) /\ a \in held
  /\ Cas(a, [rows[a] EXCEPT !.phase = "cancelling"])
  /\ OnlyFresh({c})
  /\ UNCHANGED <<minted, env, tokens, reply>>

\* Mutant: the permit's claim is compared, the phase and revision are not.
FinishByClaim(p, kind) ==
  /\ Active(rows[p.actor]) /\ rows[p.actor].claim.id = p.claim /\ p.actor \in held
  /\ Floor(rows[p.actor], now)
  /\ Cas(p.actor, [rows[p.actor] EXCEPT !.phase = "terminal",
       !.terminal = [kind |-> kind, code |-> "CALLER", at |-> now]])
  /\ permits' = permits \ {p}
  /\ OnlyFresh({})
  /\ UNCHANGED <<minted, env, admissions, acks, reply>>

\* manager.finishWithPermit: the holder of the current claim ends the actor.
finishWithPermit(p, kind) ==
  /\ rows[p.actor].phase = "resume-ready" /\ rows[p.actor].revision = p.revision
  /\ rows[p.actor].claim.id = p.claim /\ p.actor \in held
  /\ kind \in {"completed", "denied", "failed"}
  /\ Floor(rows[p.actor], now)
  /\ Cas(p.actor, [rows[p.actor] EXCEPT !.phase = "terminal",
       !.terminal = [kind |-> kind, code |-> "CALLER", at |-> now]])
  /\ permits' = permits \ {p}
  /\ OnlyFresh({})
  /\ UNCHANGED <<minted, env, admissions, acks, reply>>

\* manager.acknowledgeCancellation: the control port attests that the
\* operation is quiescent (external), and an ephemeral ack is minted.
acknowledgeCancellation(c, a) ==
  /\ rows[a].phase = "cancelling" /\ Expects(c) /\ a \in held
  /\ acks' = acks \cup {[actor |-> a, revision |-> rows[a].revision]}
  /\ UNCHANGED <<rows, minted, env, admissions, permits, fresh, reply>>

\* manager.finishCancellation
finishCancellation(k) ==
  /\ rows[k.actor].phase = "cancelling" /\ rows[k.actor].revision = k.revision
  /\ k.actor \in held
  /\ Floor(rows[k.actor], now)
  /\ Cas(k.actor, [rows[k.actor] EXCEPT !.phase = "terminal",
       !.terminal = [kind |-> "cancelled", code |-> "CALLER", at |-> now]])
  /\ acks' = acks \ {k}
  /\ OnlyFresh({})
  /\ UNCHANGED <<minted, env, admissions, permits, reply>>

\* manager.recover: a task reads the active record, whether or not the record's
\* identity is held (the answers differ, all of them carry the record).
recover(c, a) ==
  /\ Active(rows[a])
  /\ fresh' = fresh \cup {c}
  /\ UNCHANGED <<rows, minted, env, tokens, reply>>

\* close(), or a crash, followed by a new controller on the same store: rows
\* are durable, tokens and what the tasks had read are not.
Restart ==
  /\ admissions' = {} /\ permits' = {} /\ acks' = {}
  /\ OnlyFresh({})
  /\ UNCHANGED <<rows, minted, env, reply>>

\* The wall clock moves on, or is stepped back.
Clock(t) == t # now /\ now' = t /\ UNCHANGED <<rows, minted, held, tokens, fresh, reply>>

\* The supervisor lease or the continuation behind an actor is lost, or held again.
AuthorityChanges(h) ==
  h # held /\ held' = h /\ UNCHANGED <<rows, minted, now, tokens, fresh, reply>>
-----------------------------------------------------------------------------
Manager(c, a) ==
  \/ \E su \in BOOLEAN, e \in 1..(MaxTime + 1) : pause(c, a, su, e)
  \/ markCardDelivered(c, a)
  \/ rotatePendingCard(c, a)
  \/ replaceCardAfterRecovery(c, a)
  \/ claimResume(c, a)
  \/ reconcileClaim(c, a)
  \/ terminalizeRejected(c, a)
  \/ requestCancel(c, a)
  \/ acknowledgeCancellation(c, a)
  \/ recover(c, a)

Tap(m) ==
  \E nonce \in 0..lastCard, d \in Decisions :
    \/ AnswerLateTap(m, nonce, d)
    \/ ExpireOnTap(m, nonce, d)
    \/ RecordDecision(m, nonce, d)

Next ==
  \/ \E c \in Clients, a \in Actors : Manager(c, a)
  \/ \E a \in Actors, card \in 1..lastCard, su \in BOOLEAN : admitCallback(a, card, su)
  \/ \E m \in admissions : Tap(m)
  \/ \E p \in permits, kind \in {"completed", "denied", "failed"} : finishWithPermit(p, kind)
  \/ \E k \in acks : finishCancellation(k)
  \/ Restart
  \/ \E t \in Time : Clock(t)
  \/ \E h \in SUBSET Actors : AuthorityChanges(h)

Spec == Init /\ [][Next]_vars
-----------------------------------------------------------------------------
\* Every stored record passes cleanRecord: no sequence of calls makes loadActor
\* answer DURABLE_TURN_STORE_CORRUPT or an operation fail on its own result.
EveryRowClean == \A a \in Actors : rows[a].phase # "absent" => CleanRecord(rows[a])

\* The installation has at most one active actor (UNIQUE active_slot), whatever
\* the order in which actors are paused, cancelled and finished.
OneActiveActor == \A a, b \in Actors : Active(rows[a]) /\ Active(rows[b]) => a = b

\* A claimed or completed actor rests on a confirmation given while its card
\* was current and not expired, with the second factor when the card asks for
\* it, and its times are in order although the clock may step back.
ClaimRestsOnTimelyApproval ==
  \A a \in Actors :
    LET r == rows[a]
    IN r.claim # NoClaim \/ r.terminal.kind \in {"completed", "failed"} =>
         /\ r.claim # NoClaim
         /\ r.decision.kind = "confirmed" /\ (r.stepUp => r.decision.stepUp)
         /\ r.delivered
         /\ r.issuedAt <= r.decision.at /\ r.decision.at < r.expiresAt
         /\ r.decision.at <= r.claim.at
         /\ r.phase = "terminal" => r.claim.at <= r.terminal.at

\* What an operator was told stays true: a recorded or replayed decision is the
\* one on record, an expired card ended its actor without a decision, and a
\* cancelled one is not running.
ReplyStaysTrue ==
  LET r == rows[reply.actor]
  IN /\ reply.kind \in {"recorded", "replayed"} => r.decision.kind = reply.decision
     /\ reply.kind = "expired" => r.terminal.code = "APPROVAL_EXPIRED" /\ r.decision = NoDecision
     /\ reply.kind = "cancelled" => r.phase \in {"cancelling", "terminal"}

\* The strengthening that makes the properties above inductive.  A row with no
\* entry is blank; otherwise it is clean, its null fields are exactly the null
\* records, and each later field rests on the ones before it.
RowInv(r) ==
  /\ r.phase = "absent" => r = NoRow
  /\ r.phase # "absent" => CleanRecord(r)
  /\ r.decision.kind = "none" => r.decision = NoDecision
  /\ r.claim.id = 0 => r.claim = NoClaim
  /\ r.terminal.kind = "none" => r.terminal = NoTerminal
  /\ r.decision # NoDecision =>
       r.delivered /\ r.issuedAt <= r.decision.at /\ r.decision.at < r.expiresAt
  /\ r.claim # NoClaim => r.decision.kind = "confirmed" /\ r.decision.at <= r.claim.at
  /\ r.terminal # NoTerminal => r.phase = "terminal" /\ r.claim.at <= r.terminal.at
  /\ r.terminal.kind \in {"completed", "failed"} => r.claim # NoClaim
  /\ r.terminal.code = "APPROVAL_EXPIRED" => r.decision = NoDecision

\* Tokens never name a revision that is still to come.
TokensInv ==
  /\ \A m \in admissions : m.revision <= rows[m.actor].revision
  /\ \A p \in permits : p.revision <= rows[p.actor].revision

\* The inductive invariant of the proofs.
IInv ==
  /\ TypeOK
  /\ \A a \in Actors : RowInv(rows[a])
  /\ OneActiveActor
  /\ TokensInv
  /\ ReplyStaysTrue

\* A permit that finishWithPermit would accept, but for authority and clock.
CanFinish(p) ==
  /\ rows[p.actor].phase = "resume-ready" /\ rows[p.actor].revision = p.revision
  /\ rows[p.actor].claim.id = p.claim

\* A permit that was superseded (by a reconciled claim, a cancellation or the
\* terminal record) never becomes usable again.
DeadPermitStaysDead == [][\A p \in permits : ~CanFinish(p) => ~CanFinish(p)']_vars

\* An admission recordDecision would act on, but for authority and clock.
CanDecide(m) ==
  /\ rows[m.actor].phase = "paused-awaiting-approval" /\ rows[m.actor].revision = m.revision
  /\ rows[m.actor].card = m.card /\ rows[m.actor].delivered

\* An admission for a card that was replaced, decided or cancelled never decides.
DeadAdmissionStaysDead == [][\A m \in admissions : ~CanDecide(m) => ~CanDecide(m)']_vars

\* The operator's decision is final: no later tap, claim, cancellation or
\* restart changes it.
DecisionIsFinal ==
  [][\A a \in Actors : rows[a].decision # NoDecision => rows'[a].decision = rows[a].decision]_vars

\* Rows are only rewritten under a new revision, and never once terminal.
RowsMoveForward ==
  [][\A a \in Actors : rows'[a] # rows[a] =>
       rows[a].phase # "terminal" /\ rows'[a].revision = rows[a].revision + 1]_vars

\* Once cancellation is requested the actor can only end cancelled: a permit or
\* a tap that was on its way no longer counts.
CancellationWins ==
  [][\A a \in Actors : rows[a].phase = "cancelling" /\ rows'[a] # rows[a] =>
       rows'[a].phase = "terminal" /\ rows'[a].terminal.kind = "cancelled"]_vars
-----------------------------------------------------------------------------
\* The stage of the approval an actor's row stands for.
Status(r) ==
  CASE r.phase = "absent" -> "none"
    [] r.phase = "paused-awaiting-approval" -> "asked"
    [] r.phase = "resume-ready" /\ r.decision.kind = "rejected" -> "refused"
    [] r.phase = "resume-ready" /\ r.decision.kind # "rejected" ->
         IF r.claim = NoClaim THEN "approved" ELSE "running"
    [] r.phase = "cancelling" -> "stopping"
    [] OTHER -> r.terminal.kind

Lifecycle == INSTANCE ApprovalLifecycle WITH status <- [a \in Actors |-> Status(rows[a])]

\* Through cards, stale callers, lost tokens, clock steps and restarts, every
\* actor goes through the approval lifecycle: asked once, decided at most once,
\* run only when approved, ended at most once, one open at a time.
ImplementsLifecycle == Lifecycle!Spec

\* What every reader of the store may rely on, whatever crashed or came late:
\* rows are clean, a claim rests on an approval given in time, and the answer
\* an operator got from recordDecision stays true.
RowsAreSound == TypeOK /\ EveryRowClean /\ ClaimRestsOnTimelyApproval /\ ReplyStaysTrue

\* What the store may never take back: rows only move forward, a decision is
\* final, cancellation wins, and a superseded permit or admission stays dead.
HistoryIsFinal ==
  /\ DecisionIsFinal /\ RowsMoveForward /\ CancellationWins
  /\ DeadPermitStaysDead /\ DeadAdmissionStaysDead
=============================================================================
