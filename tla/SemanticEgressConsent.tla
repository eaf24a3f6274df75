----------------------- MODULE SemanticEgressConsent -----------------------
(***************************************************************************)
(* The operator's consent to send memory to an embedding provider: the     *)
(* authority (semantic-egress-consent.ts) over its SQLite store            *)
(* (semantic-egress-consent-store.ts), for one slot, that is one operator, *)
(* profile and purpose.                                                    *)
(*                                                                         *)
(* A call is split where the code awaits; a store call is one transaction  *)
(* and runs synchronously.  The code between the read of the record and    *)
(* the write that compares its revision is where other calls come in: only *)
(* some operations hold the slot's lock, which is a queue of promises.     *)
(* Identifiers drawn together for one challenge (authority, action, card   *)
(* and nonce) are one number, the index of its row in nonces; a hash is    *)
(* the tuple it is computed from, so its comparison is that of the fields. *)
(* The arguments of a call are chosen where they are first looked at, and  *)
(* the row a call has read is known by its revision: a row is never        *)
(* written back under a revision it had, and a call that finds another     *)
(* revision at its write changes nothing durable.                          *)
(***************************************************************************)
EXTENDS Integers, Sequences

CONSTANTS
    Callers,        \* concurrent callers of one authority
    Connections,    \* provider connections a binding may name
    GrantLife,      \* GRANT_NONCE_TTL_MS
    UseLife,        \* the ttl of a use proof
    MaxRevision, MaxNonces, MaxTime,
    MaxUpsets       \* crashes and backward steps of the clock, together

ASSUME LivesAssumption ==
    /\ GrantLife \in Nat \ {0} /\ UseLife \in Nat \ {0}
    /\ MaxRevision \in Nat /\ MaxNonces \in Nat

VARIABLES
    rec,            \* the slot's row in semantic_egress_consents
    nonces,         \* semantic_egress_nonces
    derived,        \* the provider's answers are in the index (external)
    now, boot,
    ready,          \* recoveryReady
    activation,     \* the slot's entry in activationLeases
    queue,          \* the slot's mutex: its holder and those behind it
    task,           \* the call each caller is in
    lease,          \* inFlightUses, by the caller that owns the lease
    proofs,         \* use proofs handed out
    refused,        \* the store called a transition of the authority invalid
    upsets

vars == <<rec, nonces, derived, now, boot, ready, activation, queue, task, lease, proofs, refused,
          upsets>>

Null == -1
NoConnection == "none"
NoRecord ==
    [state |-> "NONE", rev |-> 0, gen |-> 0, conn |-> NoConnection, card |-> 0, boot |-> 0,
     fromRev |-> 0, fromGen |-> 0, issued |-> Null, expires |-> Null, invalid |-> Null,
     accepted |-> Null, consumed |-> Null, revoking |-> Null, created |-> Null, updated |-> Null]
NoProof == [nonce |-> 0, rev |-> 0, conn |-> NoConnection, issued |-> Null, expires |-> Null]
NoLease == [proof |-> NoProof, closed |-> TRUE]
NoActivation == 0
Idle == [op |-> "none", at |-> "idle", exp |-> 0]

Live == {"CONSENTED", "ACTIVE", "DEGRADED", "SUSPENDED"}

\* What cleanRecord and validatePersistedRecord accept: the counters and the times of a row agree
\* with the approval it rests on.
cleanRecord(r) ==
    /\ r.updated >= r.created /\ r.issued = r.created /\ r.expires > r.issued
    /\ r.rev - r.fromRev = r.gen - r.fromGen
    /\ IF r.state = "AWAITING_CONSENT"
       THEN \/ r.invalid = Null /\ r.rev = r.fromRev /\ r.updated = r.created
            \/ r.invalid >= r.issued /\ r.rev = r.fromRev + 1 /\ r.updated = r.invalid
       ELSE /\ r.issued <= r.accepted /\ r.accepted <= r.consumed /\ r.consumed < r.expires
            /\ r.updated >= r.consumed /\ r.rev > r.fromRev
            /\ r.state = "REVOKING" => r.revoking >= r.created /\ r.revoking = r.updated
            /\ r.state = "REVOKED" => r.revoking >= r.created /\ r.updated >= r.revoking

validatePersistedNonceRow(n) ==
    /\ n.expires > n.issued
    /\ n.consumed # Null => n.issued <= n.consumed /\ n.consumed < n.expires
    /\ n.invalid # Null => n.invalid >= n.issued
    /\ n.consumed = Null \/ n.invalid = Null

\* The row's grant nonce is in the state the row says.
validateRecordNonceLink(r) ==
    LET n == nonces[r.card] IN
    /\ n.kind = "grant" /\ n.issued = r.issued /\ n.expires = r.expires
    /\ n.invalid = r.invalid /\ n.consumed = r.consumed

\* The table of transitionTransaction.
stateTransitionAllowed(from, to) ==
    \/ from = "NONE" /\ to = "AWAITING_CONSENT"
    \/ from = "AWAITING_CONSENT" /\ to \in {"AWAITING_CONSENT", "CONSENTED"}
    \/ from = "CONSENTED" /\ to \in {"ACTIVE", "SUSPENDED", "REVOKING", "BLOCKED"}
    \/ from \in {"ACTIVE", "DEGRADED"} /\ to \in {"ACTIVE", "DEGRADED", "SUSPENDED", "REVOKING", "BLOCKED"}
    \/ from = "SUSPENDED" /\ to \in {"ACTIVE", "SUSPENDED", "REVOKING", "BLOCKED"}
    \/ from = "REVOKING" /\ to = "REVOKED"
    \/ from = "REVOKED" /\ to = "AWAITING_CONSENT"
    \/ from = "BLOCKED" /\ to \in {"BLOCKED", "REVOKING"}

\* Mutant: a record is written whatever the clock says.
nextRecordAnyTime(r) == TRUE

\* nextRecord refuses a clock that is behind the row's last update.
nextRecordAllowed(r) == now >= r.updated

nextRecord(r, state) ==
    [r EXCEPT !.state = state, !.rev = @ + 1, !.gen = @ + 1, !.updated = now,
              !.revoking = IF state = "REVOKING" THEN now ELSE @]

NonceUsable(n) ==
    nonces[n].consumed = Null /\ nonces[n].invalid = Null
    /\ nonces[n].issued <= now /\ now < nonces[n].expires

Consume(n) == [nonces EXCEPT ![n].consumed = now]

\* The outcome of transitionTransaction for a new row, when its nonce mutation succeeds.
Outcome(exp, next) ==
    IF rec.rev # exp THEN "cas-conflict"
    ELSE IF stateTransitionAllowed(rec.state, next.state) THEN
        IF cleanRecord(next) /\ next.gen = rec.gen + 1 THEN "committed" ELSE "invalid"
    ELSE "not-allowed"

Holder(c) == queue # <<>> /\ Head(queue) = c
Sleeps(c, op) == task[c].op = op /\ task[c].at = "wait" /\ Holder(c)
Inside(c, op) == task[c].op = op /\ task[c].at = "inside"
InFlight == {c \in Callers : lease[c] # NoLease}
AllClosed == [c \in Callers |-> IF lease[c] = NoLease THEN NoLease ELSE [lease[c] EXCEPT !.closed = TRUE]]

Start(c, call) == task[c] = Idle /\ task' = [task EXCEPT ![c] = call]
Return(c) == task' = [task EXCEPT ![c] = Idle]
Proceed(c, at) == task' = [task EXCEPT ![c].at = at, ![c].exp = rec.rev]
Enqueue(c) == queue' = Append(queue, c)
Leave == queue' = Tail(queue)
Keep == UNCHANGED <<rec, nonces, derived>>
Clock == UNCHANGED <<now, boot, upsets>>

Init ==
    /\ rec = NoRecord /\ nonces = <<>> /\ derived = FALSE
    /\ now = 0 /\ boot = 1 /\ ready = FALSE
    /\ activation = NoActivation /\ queue = <<>>
    /\ task = [c \in Callers |-> Idle] /\ lease = [c \in Callers |-> NoLease]
    /\ proofs = {} /\ refused = FALSE
    /\ upsets = 0

---------------------------------------------------------------------------
(* Calls that do not take the slot's lock: the record is read in the step  *)
(* that starts the call.                                                   *)

\* beginConsent or activate is refused on what it read, a revision other than the expected one or
\* a state it cannot leave: what the call did before the read stays done.
refusedCall(c) ==
    /\ ready /\ task[c] = Idle /\ lease[c] = NoLease
    /\ activation' = NoActivation
    /\ UNCHANGED <<queue, task, lease, ready, proofs, refused>> /\ Keep /\ Clock

mayBegin(r) == r.state \in {"NONE", "REVOKED"} \/ (r.state = "AWAITING_CONSENT" /\ r.invalid # Null)

beginConsent(c) ==
    /\ ready /\ lease[c] = NoLease /\ mayBegin(rec)
    /\ activation' = NoActivation
    /\ Start(c, [Idle EXCEPT !.op = "begin", !.at = "loaded", !.exp = rec.rev])
    /\ UNCHANGED <<queue, lease, ready, proofs, refused>> /\ Keep /\ Clock

\* The row of a fresh challenge.
pendingRecord(b) ==
    [state |-> "AWAITING_CONSENT", rev |-> rec.rev + 1, gen |-> rec.gen + 1, conn |-> b,
     card |-> Len(nonces) + 1, boot |-> boot, fromRev |-> rec.rev + 1, fromGen |-> rec.gen + 1,
     issued |-> now, expires |-> now + GrantLife, invalid |-> Null, accepted |-> Null,
     consumed |-> Null, revoking |-> Null, created |-> now, updated |-> now]

grantNonce ==
    [kind |-> "grant", issued |-> now, expires |-> now + GrantLife, consumed |-> Null,
     invalid |-> Null, done |-> FALSE]

beginCommit(c, b) ==
    LET t == task[c]
        next == pendingRecord(b)
        out == Outcome(t.exp, next)
    IN
    /\ t.op = "begin" /\ t.at = "loaded"
    /\ Len(nonces) < MaxNonces /\ next.rev <= MaxRevision
    /\ IF out = "committed"
       THEN /\ rec' = next
            /\ nonces' = Append(nonces, grantNonce)
       ELSE UNCHANGED <<rec, nonces>>
    /\ refused' = (refused \/ out = "invalid")
    /\ Return(c)
    /\ UNCHANGED <<derived, activation, queue, lease, ready, proofs>> /\ Clock

confirmConsent(c) ==
    /\ ready /\ lease[c] = NoLease /\ rec.state = "AWAITING_CONSENT" /\ rec.invalid = Null
    /\ Start(c, [Idle EXCEPT !.op = "confirm", !.at = "loaded", !.exp = rec.rev])
    /\ UNCHANGED <<queue, lease, ready, proofs, refused, activation>> /\ Keep /\ Clock

\* card and accepted come with the operator's tap.
ApprovalHolds(card, accepted) ==
    /\ rec.boot = boot /\ card = rec.card
    /\ rec.issued <= accepted /\ accepted <= now
    /\ accepted < rec.expires /\ now < rec.expires

consentedRecord(accepted) ==
    [rec EXCEPT !.state = "CONSENTED", !.rev = @ + 1, !.gen = @ + 1,
                !.accepted = accepted, !.consumed = now, !.updated = now]

confirmCommit(c, card, accepted) ==
    LET t == task[c]
        next == consentedRecord(accepted)
        out == Outcome(t.exp, next)
        holds == ApprovalHolds(card, accepted)
    IN
    /\ t.op = "confirm" /\ t.at = "loaded" /\ next.rev <= MaxRevision
    /\ IF holds /\ out = "committed" /\ NonceUsable(rec.card)
       THEN rec' = next /\ nonces' = Consume(rec.card)
       ELSE UNCHANGED <<rec, nonces>>
    /\ refused' = (refused \/ (holds /\ out = "invalid"))
    /\ Return(c)
    /\ UNCHANGED <<derived, activation, queue, lease, ready, proofs>> /\ Clock

activate(c) ==
    /\ ready /\ lease[c] = NoLease /\ rec.state \notin {"NONE", "AWAITING_CONSENT"}
    /\ activation' = NoActivation
    /\ Start(c, [Idle EXCEPT !.op = "activate", !.at = "loaded", !.exp = rec.rev])
    /\ UNCHANGED <<queue, lease, ready, proofs, refused>> /\ Keep /\ Clock

\* The state activate moves to, given the health of the connection; "none" when it throws or
\* returns the row as it is.
ActivationTarget(b, health) ==
    IF rec.conn # b THEN "BLOCKED"
    ELSE IF rec.state \notin Live THEN "none"
    ELSE IF health = "revoked" THEN "BLOCKED"
    ELSE IF health = "healthy" THEN "ACTIVE"
    ELSE IF rec.state = "ACTIVE" THEN "DEGRADED" ELSE "none"

activateCommit(c, b, health) ==
    LET t == task[c]
        target == ActivationTarget(b, health)
        goes == target # "none" /\ nextRecordAllowed(rec)
        next == nextRecord(rec, target)
        out == Outcome(t.exp, next)
    IN
    /\ t.op = "activate" /\ t.at = "loaded" /\ next.rev <= MaxRevision
    /\ rec' = IF goes /\ out = "committed" THEN next ELSE rec
    /\ refused' = (refused \/ (goes /\ out = "invalid"))
    /\ IF goes /\ out = "committed" /\ target = "ACTIVE"
       THEN task' = [task EXCEPT ![c].at = "mark", ![c].exp = next.rev]
       ELSE Return(c)
    /\ UNCHANGED <<nonces, derived, activation, queue, lease, ready, proofs>> /\ Clock

\* markActivated runs after the awaited write.
markActivated(c) ==
    /\ task[c].op = "activate" /\ task[c].at = "mark"
    /\ activation' = task[c].exp
    /\ Return(c)
    /\ UNCHANGED <<queue, lease, ready, proofs, refused>> /\ Keep /\ Clock

assertActivated == activation = rec.rev

issueUseProof(c) ==
    /\ ready /\ lease[c] = NoLease /\ rec.state = "ACTIVE"
    /\ Start(c, [Idle EXCEPT !.op = "issue", !.at = "loaded", !.exp = rec.rev])
    /\ UNCHANGED <<queue, lease, ready, proofs, refused, activation>> /\ Keep /\ Clock

useNonce ==
    [kind |-> "use", issued |-> now, expires |-> now + UseLife, consumed |-> Null,
     invalid |-> Null, done |-> FALSE]

useProof(b) ==
    [nonce |-> Len(nonces) + 1, rev |-> rec.rev, conn |-> b, issued |-> now, expires |-> now + UseLife]

issueCommit(c, b) ==
    LET t == task[c] IN
    /\ t.op = "issue" /\ t.at = "loaded" /\ Len(nonces) < MaxNonces
    /\ IF rec.rev = t.exp /\ assertActivated /\ rec.conn = b
       THEN nonces' = Append(nonces, useNonce) /\ proofs' = proofs \cup {useProof(b)}
       ELSE UNCHANGED <<nonces, proofs>>
    /\ Return(c)
    /\ UNCHANGED <<rec, derived, activation, queue, lease, ready, refused>> /\ Clock

---------------------------------------------------------------------------
(* Calls under the slot's lock.                                            *)

\* signedProofContext: the row is ACTIVE, activated in this boot, and the one the proof names.
signedProofContext(c, p) ==
    /\ rec.rev = task[c].exp /\ rec.state = "ACTIVE" /\ assertActivated
    /\ p.rev = rec.rev /\ p.conn = rec.conn

consumeUseProof(c) ==
    /\ ready /\ lease[c] = NoLease
    /\ Start(c, [Idle EXCEPT !.op = "consume", !.at = "wait"])
    /\ Enqueue(c)
    /\ UNCHANGED <<lease, ready, proofs, refused, activation>> /\ Keep /\ Clock

consumeLoad(c) ==
    /\ Sleeps(c, "consume")
    /\ IF ready THEN Proceed(c, "inside") /\ UNCHANGED queue ELSE Return(c) /\ Leave
    /\ UNCHANGED <<lease, ready, proofs, refused, activation>> /\ Keep /\ Clock

\* The lease is entered in inFlightUses and the store consumes the nonce if the row is still
\* ACTIVE at the proof's revision; otherwise the lease is settled at once.
consumeCommit(c, p) ==
    /\ Inside(c, "consume")
    /\ IF /\ signedProofContext(c, p) /\ p.issued <= now /\ now < p.expires
          /\ \A d \in InFlight : lease[d].proof.nonce # p.nonce
          /\ NonceUsable(p.nonce)
       THEN /\ nonces' = Consume(p.nonce)
            /\ lease' = [lease EXCEPT ![c] = [proof |-> p, closed |-> FALSE]]
       ELSE UNCHANGED <<nonces, lease>>
    /\ Return(c) /\ Leave
    /\ UNCHANGED <<rec, derived, activation, ready, proofs, refused>> /\ Clock

\* publish (or completeUse, a publish with nothing to write) and release, by the lease's owner.
publish(c) ==
    /\ lease[c] # NoLease
    /\ Start(c, [Idle EXCEPT !.op = "publish", !.at = "wait"])
    /\ Enqueue(c)
    /\ UNCHANGED <<lease, ready, proofs, refused, activation>> /\ Keep /\ Clock

release(c) ==
    /\ lease[c] # NoLease
    /\ Start(c, [Idle EXCEPT !.op = "release", !.at = "wait"])
    /\ Enqueue(c)
    /\ UNCHANGED <<lease, ready, proofs, refused, activation>> /\ Keep /\ Clock

settleUse(c) == lease' = [lease EXCEPT ![c] = NoLease]

leaseLoad(c) ==
    /\ Sleeps(c, "publish") \/ Sleeps(c, "release")
    /\ IF lease[c].closed
       THEN settleUse(c) /\ Return(c) /\ Leave
       ELSE Proceed(c, "inside") /\ UNCHANGED <<lease, queue>>
    /\ UNCHANGED <<ready, proofs, refused, activation>> /\ Keep /\ Clock

publishStart(c) ==
    /\ Inside(c, "publish")
    /\ IF signedProofContext(c, lease[c].proof)
       THEN task' = [task EXCEPT ![c].at = "publishing"] /\ UNCHANGED <<lease, queue>>
       ELSE settleUse(c) /\ Return(c) /\ Leave
    /\ UNCHANGED <<ready, proofs, refused, activation>> /\ Keep /\ Clock

\* completeRequest: request_completed is stored if the row is still the one the lease was
\* checked against.
completeRequest(c) ==
    LET n == lease[c].proof.nonce IN
    nonces' = IF rec.rev = task[c].exp /\ rec.state = "ACTIVE" /\ nonces[n].consumed # Null
              THEN [nonces EXCEPT ![n].done = TRUE]
              ELSE nonces

\* The publisher returns, or throws having written or not.
publishEnd(c, written) ==
    /\ task[c].op = "publish" /\ task[c].at = "publishing"
    /\ derived' = (derived \/ written)
    /\ completeRequest(c)
    /\ settleUse(c) /\ Return(c) /\ Leave
    /\ UNCHANGED <<rec, ready, proofs, refused, activation>> /\ Clock

releaseEnd(c) ==
    /\ Inside(c, "release")
    /\ IF signedProofContext(c, lease[c].proof) THEN completeRequest(c) ELSE UNCHANGED nonces
    /\ settleUse(c) /\ Return(c) /\ Leave
    /\ UNCHANGED <<rec, derived, ready, proofs, refused, activation>> /\ Clock

Mutators == {"degrade", "suspend", "revoke", "block"}

\* setDegraded, suspend, beginRevoke and block close the gate of the process before they queue.
callMutator(c) ==
    /\ ready /\ lease[c] = NoLease
    /\ activation' = NoActivation /\ lease' = AllClosed
    /\ Start(c, [Idle EXCEPT !.op = "mutate", !.at = "wait", !.exp = rec.rev])
    /\ Enqueue(c)
    /\ UNCHANGED <<ready, proofs, refused>> /\ Keep /\ Clock

mutatorLoad(c) ==
    /\ Sleeps(c, "mutate")
    /\ activation' = NoActivation
    /\ IF rec.rev = task[c].exp /\ rec # NoRecord
       THEN Proceed(c, "inside") /\ UNCHANGED <<queue, lease>>
       ELSE Return(c) /\ Leave /\ lease' = AllClosed
    /\ UNCHANGED <<ready, proofs, refused>> /\ Keep /\ Clock

MutatorTarget(op, state) ==
    IF op = "degrade" /\ state \in {"ACTIVE", "DEGRADED"} THEN "DEGRADED"
    ELSE IF op = "suspend" /\ state \in Live THEN "SUSPENDED"
    ELSE IF op = "revoke" /\ state \in Live \cup {"BLOCKED"} THEN "REVOKING"
    ELSE IF op = "block" /\ state \in Live \cup {"REVOKING"} THEN "BLOCKED"
    ELSE "none"

\* The finally clause closes the leases again, whatever the write did.
mutatorCommit(c, op) ==
    LET t == task[c]
        target == MutatorTarget(op, rec.state)
        goes == target # "none" /\ nextRecordAllowed(rec)
        next == nextRecord(rec, target)
        out == Outcome(t.exp, next)
    IN
    /\ Inside(c, "mutate") /\ next.rev <= MaxRevision
    /\ rec' = IF goes /\ out = "committed" THEN next ELSE rec
    /\ refused' = (refused \/ (goes /\ out = "invalid"))
    /\ lease' = AllClosed
    /\ Return(c) /\ Leave
    /\ UNCHANGED <<nonces, derived, activation, ready, proofs>> /\ Clock

\* The durable write fails (the database is busy, its lease is lost): nothing is written.
mutatorFails(c) ==
    /\ Inside(c, "mutate")
    /\ lease' = AllClosed
    /\ Return(c) /\ Leave
    /\ UNCHANGED <<activation, ready, proofs, refused>> /\ Keep /\ Clock

completeRevoke(c) ==
    /\ ready /\ lease[c] = NoLease
    /\ Start(c, [Idle EXCEPT !.op = "complete", !.at = "wait", !.exp = rec.rev])
    /\ Enqueue(c)
    /\ UNCHANGED <<lease, ready, proofs, refused, activation>> /\ Keep /\ Clock

\* The first section under the lock; the lock is given up before the leases are awaited, because
\* their owners need it to settle them.
completeFence(c) ==
    /\ Sleeps(c, "complete")
    /\ activation' = NoActivation
    /\ IF rec.rev = task[c].exp /\ rec.state = "REVOKING"
       THEN task' = [task EXCEPT ![c].at = "drain"] /\ lease' = AllClosed
       ELSE Return(c) /\ UNCHANGED lease
    /\ Leave
    /\ UNCHANGED <<ready, proofs, refused>> /\ Keep /\ Clock

\* No lease is entered while the row is REVOKING, so the leases in flight are those it waits for.
drainUses(c) ==
    /\ task[c].op = "complete" /\ task[c].at = "drain"
    /\ InFlight = {}
    /\ task' = [task EXCEPT ![c] = [op |-> "purge", at |-> "wait", exp |-> @.exp]]
    /\ Enqueue(c)
    /\ UNCHANGED <<lease, ready, proofs, refused, activation>> /\ Keep /\ Clock
purgeLoad(c) ==
    /\ Sleeps(c, "purge")
    /\ activation' = NoActivation
    /\ IF rec.rev = task[c].exp /\ rec.state = "REVOKING"
       THEN Proceed(c, "inside") /\ UNCHANGED queue
       ELSE Return(c) /\ Leave
    /\ UNCHANGED <<lease, ready, proofs, refused>> /\ Keep /\ Clock

\* purgeAndVerify removes what the provider's answers were written to, or reports a failure.
purgeUnverified(c, purged) ==
    /\ Inside(c, "purge")
    /\ derived' = (derived /\ ~purged) /\ task' = [task EXCEPT ![c].at = "purged"]
    /\ UNCHANGED <<rec, nonces, lease, ready, proofs, refused, activation, queue>> /\ Clock
purgeAndVerify(c, purged) ==
    /\ Inside(c, "purge")
    /\ IF purged
       THEN derived' = FALSE /\ task' = [task EXCEPT ![c].at = "purged"] /\ UNCHANGED queue
       ELSE UNCHANGED derived /\ Return(c) /\ Leave
    /\ UNCHANGED <<rec, nonces, lease, ready, proofs, refused, activation>> /\ Clock

purgeCommit(c) ==
    LET t == task[c]
        goes == nextRecordAllowed(rec)
        next == nextRecord(rec, "REVOKED")
        out == Outcome(t.exp, next)
    IN
    /\ t.op = "purge" /\ t.at = "purged" /\ next.rev <= MaxRevision
    /\ rec' = IF goes /\ out = "committed" THEN next ELSE rec
    /\ refused' = (refused \/ (goes /\ out = "invalid"))
    /\ Return(c) /\ Leave
    /\ UNCHANGED <<nonces, derived, activation, lease, ready, proofs>> /\ Clock

---------------------------------------------------------------------------
(* Boot recovery.                                                          *)

\* recoverTransaction: a card of an earlier boot is invalidated, an authority that was in use is
\* suspended until this boot activates it.
invalidatedRecord(r) == [r EXCEPT !.rev = @ + 1, !.gen = @ + 1, !.updated = now, !.invalid = now]

Recovered(r) ==
    IF r.state = "AWAITING_CONSENT" /\ r.boot # boot /\ r.invalid = Null THEN invalidatedRecord(r)
    ELSE IF r.state \in {"ACTIVE", "DEGRADED"} THEN nextRecord(r, "SUSPENDED")
    ELSE r

recoverTransaction ==
    LET next == Recovered(rec)
        runs == next = rec \/ now >= rec.updated
    IN
    /\ next.rev <= MaxRevision
    /\ rec' = IF runs THEN next ELSE rec
    /\ nonces' = IF runs /\ next.invalid # rec.invalid
                 THEN [nonces EXCEPT ![rec.card].invalid = now] ELSE nonces
    /\ refused' = (refused \/ (runs /\ next # NoRecord /\ ~cleanRecord(next)))
    /\ ready' = runs

\* A second caller joins the run in progress.  Without a lease in flight there is no lock to take.
recoverForBoot(c) ==
    /\ lease[c] = NoLease /\ task[c] = Idle
    /\ \A d \in Callers : task[d].op # "recover"
    /\ activation' = NoActivation /\ lease' = AllClosed
    /\ \/ InFlight = {} /\ recoverTransaction /\ UNCHANGED <<task, queue>>
       \/ /\ InFlight # {}
          /\ ready' = FALSE
          /\ Start(c, [Idle EXCEPT !.op = "recover", !.at = "wait"])
          /\ Enqueue(c)
          /\ UNCHANGED <<rec, nonces, refused>>
    /\ UNCHANGED <<derived, proofs>> /\ Clock

recoverLocked(c) ==
    /\ Sleeps(c, "recover")
    /\ lease' = AllClosed
    /\ recoverTransaction
    /\ Return(c) /\ Leave
    /\ UNCHANGED <<derived, activation, proofs>> /\ Clock

\* The process dies: everything but the store and the index is gone.
Crash ==
    /\ upsets < MaxUpsets
    /\ upsets' = upsets + 1 /\ boot' = boot + 1 /\ ready' = FALSE /\ activation' = NoActivation
    /\ queue' = <<>> /\ task' = [c \in Callers |-> Idle] /\ lease' = [c \in Callers |-> NoLease]
    /\ UNCHANGED <<now, proofs, refused>> /\ Keep

Tick ==
    /\ now < MaxTime
    /\ now' = now + 1
    /\ UNCHANGED <<boot, ready, activation, queue, task, lease, proofs, refused, upsets>> /\ Keep

\* The wall clock is set back.
StepBack ==
    /\ now > 0 /\ upsets < MaxUpsets
    /\ now' = now - 1 /\ upsets' = upsets + 1
    /\ UNCHANGED <<boot, ready, activation, queue, task, lease, proofs, refused>> /\ Keep

CallNext(c) ==
    \/ refusedCall(c)
    \/ beginConsent(c) \/ confirmConsent(c) \/ activate(c) \/ issueUseProof(c)
    \/ proofs # {} /\ consumeUseProof(c)
    \/ publish(c) \/ release(c) \/ callMutator(c) \/ completeRevoke(c) \/ recoverForBoot(c)

StepNext(c) ==
    \/ \E b \in Connections : beginCommit(c, b) \/ issueCommit(c, b)
    \/ \E k \in 1..Len(nonces), a \in 0..now : confirmCommit(c, k, a)
    \/ \E b \in Connections, h \in {"healthy", "unavailable", "revoked"} : activateCommit(c, b, h)
    \/ markActivated(c)
    \/ consumeLoad(c)
    \/ \E p \in proofs : consumeCommit(c, p)
    \/ leaseLoad(c) \/ publishStart(c) \/ releaseEnd(c)
    \/ \E w \in BOOLEAN : publishEnd(c, w)
    \/ mutatorLoad(c) \/ mutatorFails(c)
    \/ \E op \in Mutators : mutatorCommit(c, op)
    \/ completeFence(c) \/ drainUses(c) \/ purgeLoad(c) \/ purgeCommit(c)
    \/ \E p \in BOOLEAN : purgeAndVerify(c, p)
    \/ recoverLocked(c)

Next ==
    \/ \E c \in Callers : CallNext(c) \/ StepNext(c)
    \/ Crash \/ Tick \/ StepBack

\* A started call goes on when its promise resolves, and the owner of a lease publishes or
\* releases in the end: the event loop runs, and the lease is used in a try block.
Progress(c) == StepNext(c) \/ publish(c) \/ release(c)

Spec == Init /\ [][Next]_vars
FairSpec == Spec /\ \A c \in Callers : WF_vars(Progress(c))

---------------------------------------------------------------------------

\* The row has a known state, and a call waits for the slot's lock once.
TypeOK ==
    /\ rec.state \in Live \cup {"NONE", "AWAITING_CONSENT", "REVOKING", "REVOKED", "BLOCKED"}
    /\ rec.rev \in 0..MaxRevision /\ Len(nonces) <= MaxNonces
    /\ \A i \in 1..Len(queue) : task[queue[i]] # Idle
    /\ \A i, j \in 1..Len(queue) : queue[i] = queue[j] => i = j

(* A revoked consent leaves nothing behind: once the row says REVOKED no   *)
(* answer of the provider is in the index, and none can be on its way,     *)
(* because the publication of a lease and a revocation exclude each other  *)
(* (completeRevoke, publish).                                              *)
RevocationIsComplete ==
    /\ rec.state = "REVOKED" => ~derived
    /\ \A c \in Callers : task[c].at = "publishing" => rec.state \notin {"REVOKING", "REVOKED"}

(* The store can always read what it holds, and never has to refuse a row  *)
(* the authority computed as malformed, whatever the clock does and        *)
(* wherever the process died (nextRecord, recoverTransaction against       *)
(* cleanRecord and validateRecordNonceLink).                               *)
StoredConsentIsReadable ==
    /\ TypeOK /\ ~refused
    /\ rec # NoRecord => cleanRecord(rec) /\ validateRecordNonceLink(rec)
    /\ \A i \in 1..Len(nonces) : validatePersistedNonceRow(nonces[i])
(* A call that completes a revocation returns: it waits for the leases in  *)
(* flight without the lock their owners need (completeRevoke, drainUses).  *)
(* At the bound on revisions the model has no commit to offer.             *)
RevokeReturns ==
    \A c \in Callers :
        task[c].op \in {"complete", "purge"} ~> task[c] = Idle \/ rec.rev = MaxRevision
=============================================================================
