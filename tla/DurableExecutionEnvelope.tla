---------------------- MODULE DurableExecutionEnvelope ----------------------
(***************************************************************************)
(* The execution envelope (durable-execution-envelope.ts): one durable     *)
(* record per operator turn that says how far the turn is and which        *)
(* revision of its participants (turn actor, control, delegation runs,     *)
(* Telegram delivery) it last saw.  A turn ends with a terminal receipt,   *)
(* the reply's delivery and the supervisor's release, in this order; only  *)
(* then is the record retired, and the next turn may start.                *)
(*                                                                         *)
(* Every method is one synchronous call of the process that holds the      *)
(* store's lease and ends in one SQLite statement, except start, which     *)
(* deletes the retired rows before it inserts.  A call that names another  *)
(* envelope, a stale revision or phase, or another receipt than the stored *)
(* one is refused, and a refused call changes nothing; so the row's own    *)
(* revision, which every write increments, is left out.                    *)
(***************************************************************************)
EXTENDS Integers

CONSTANTS
  Envelopes,   \* envelope hashes; one per turn
  Runs,        \* roots of delegation runs
  Hashes,      \* contents a participant's revision may have
  MaxRef,      \* bound on the participants' revisions
  MaxTelegram, \* bound on the Telegram delivery's revision
  MaxTime      \* bound on the wall clock

\* A content hash exists, and a delivery has a first revision.
ASSUME EnvelopeBounds ==
  MaxTime \in Nat /\ MaxRef \in Nat /\ MaxTelegram \in Nat \ {0} /\ Hashes # {}

VARIABLES
  store,       \* rows of durable_execution_envelopes
  used,        \* envelopes whose turn was started
  now          \* Date.now(): may step backwards

envelopeVars == <<store, used, now>>

Phases ==
  {"running", "paused-awaiting-approval", "resume-ready", "cancelling", "terminal", "quarantine"}
Time == 0..MaxTime
Null == -1                      \* null, for a time
NullableTime == Time \cup {Null}

\* A participant's reference: the envelope it belongs to, a revision and the
\* content hash of that revision.  Revision 0 stands for null.
RefType == [of : Envelopes, revision : 0..MaxRef, hash : Hashes]
IsRef(f) == f.revision > 0

RowType ==
  [envelope : Envelopes, phase : Phases,
   telegram : [revision : 1..MaxTelegram, delivery : {"pending", "delivered"}],
   inventory : [Runs -> RefType], actor : RefType, control : RefType,
   receiptAt : NullableTime, releasedAt : NullableTime, retiredAt : NullableTime,
   createdAt : Time, updatedAt : Time]

\* active: the row holds the unique active slot until it is retired.
Active(r) == r.retiredAt = Null

\* cleanRecord: what every row that is written or read satisfies.
CleanRecord(r) ==
  /\ r.createdAt <= r.updatedAt
  /\ (r.phase = "terminal") = (r.receiptAt # Null)
  /\ r.retiredAt # Null => /\ r.phase = "terminal" /\ r.retiredAt = r.updatedAt
                           /\ r.telegram.delivery = "delivered" /\ r.releasedAt # Null
  /\ r.phase \in {"paused-awaiting-approval", "resume-ready"} => IsRef(r.actor)
  /\ r.receiptAt # Null => r.createdAt <= r.receiptAt /\ r.receiptAt <= r.updatedAt
  /\ r.releasedAt # Null => /\ r.phase = "terminal" /\ r.telegram.delivery = "delivered"
                            /\ r.createdAt <= r.releasedAt /\ r.releasedAt <= r.updatedAt
  /\ IsRef(r.actor) => r.actor.of = r.envelope
  /\ r.control.of = r.envelope
  /\ \A n \in Runs : IsRef(r.inventory[n]) => r.inventory[n].of = r.envelope

\* validTransition
Graph ==
  [p \in Phases |->
     CASE p = "running" -> {"paused-awaiting-approval", "cancelling", "terminal", "quarantine"}
       [] p = "paused-awaiting-approval" -> {"resume-ready", "cancelling", "terminal", "quarantine"}
       [] p = "resume-ready" -> {"running", "cancelling", "terminal", "quarantine"}
       [] p = "cancelling" -> {"terminal", "quarantine"}
       [] p = "quarantine" -> {"terminal"}
       [] OTHER -> {}]

\* sameRefEvolution, with the rule that a revision has one content.
Evolves(before, next) ==
  /\ next.of = before.of /\ next.revision >= before.revision
  /\ next.revision = before.revision => next.hash = before.hash

\* persistCas
Rewrite(r, next) == store' = (store \ {r}) \cup {next}

EnvelopeInit == store = {} /\ used = {} /\ now \in Time
-----------------------------------------------------------------------------
NewRow(e, inventory, actor, control) ==
  [envelope |-> e, phase |-> "running",
   telegram |-> [revision |-> 1, delivery |-> "pending"],
   inventory |-> inventory, actor |-> actor, control |-> control,
   receiptAt |-> Null, releasedAt |-> Null, retiredAt |-> Null,
   createdAt |-> now, updatedAt |-> now]

\* purgeRetiredStatement
Purged(S) == {r \in S : Active(r)}

\* manager.start: refused as busy while an envelope is active; otherwise the
\* retired rows are deleted and the new turn's row is inserted.
startEnvelope(e, inventory, actor, control) ==
  /\ e \notin used /\ IsRef(control)
  /\ CleanRecord(NewRow(e, inventory, actor, control))
  /\ ~ \E r \in store : Active(r)
  /\ store' = Purged(store) \cup {NewRow(e, inventory, actor, control)}
  /\ used' = used \cup {e}
  /\ UNCHANGED now

\* manager.start, interrupted between its two statements.
startInterrupted ==
  /\ store # {} /\ ~ \E r \in store : Active(r)
  /\ store' = Purged(store)
  /\ UNCHANGED <<used, now>>

\* Mutant: a paused turn is resumed on the actor revision it was paused with.
TransitionUndecided(r, next, inventory, actor, control, receiptAt) ==
  LET n == [r EXCEPT !.phase = next, !.inventory = inventory, !.actor = actor,
              !.control = control, !.receiptAt = receiptAt, !.updatedAt = now]
  IN /\ Active(r) /\ next \in Graph[r.phase] /\ r.updatedAt <= now
     /\ \A k \in Runs : IsRef(r.inventory[k]) => Evolves(r.inventory[k], inventory[k])
     /\ IsRef(r.actor) => Evolves(r.actor, actor)
     /\ Evolves(r.control, control) /\ (next = "terminal") = (receiptAt # Null)
     /\ receiptAt # Null => r.updatedAt <= receiptAt /\ receiptAt <= now
     /\ CleanRecord(n) /\ Rewrite(r, n)
     /\ UNCHANGED <<used, now>>

\* manager.transition: the phase moves along the graph, the participants'
\* references only move forward, a paused turn becomes ready only on a newer
\* actor revision, and a terminal phase comes with its receipt.
transition(r, next, inventory, actor, control, receiptAt) ==
  LET n == [r EXCEPT !.phase = next, !.inventory = inventory, !.actor = actor,
              !.control = control, !.receiptAt = receiptAt, !.updatedAt = now]
  IN /\ Active(r) /\ next \in Graph[r.phase]
     /\ \A k \in Runs : IsRef(r.inventory[k]) => Evolves(r.inventory[k], inventory[k])
     /\ IsRef(r.actor) => Evolves(r.actor, actor)
     /\ Evolves(r.control, control)
     /\ r.phase = "paused-awaiting-approval" /\ next = "resume-ready" =>
          actor.revision > r.actor.revision
     /\ (next = "terminal") = (receiptAt # Null)
     /\ r.updatedAt <= now
     /\ receiptAt # Null => r.updatedAt <= receiptAt /\ receiptAt <= now
     /\ CleanRecord(n) /\ Rewrite(r, n)
     /\ UNCHANGED <<used, now>>

\* Mutant: a delivered reply is recorded in any phase.
DeliverEarly(r, delivery) ==
  /\ Active(r) /\ r.telegram.delivery # "delivered" /\ r.telegram.revision < MaxTelegram
  /\ r.updatedAt <= now
  /\ Rewrite(r, [r EXCEPT !.telegram.revision = @ + 1, !.telegram.delivery = delivery,
       !.updatedAt = now])
  /\ UNCHANGED <<used, now>>

\* manager.recordTelegramDelivery: progress of the pending reply in any phase,
\* its delivery only once the turn is terminal; nothing after delivery.
recordTelegramDelivery(r, delivery) ==
  /\ Active(r) /\ r.telegram.delivery # "delivered" /\ r.telegram.revision < MaxTelegram
  /\ delivery = "delivered" => r.phase = "terminal"
  /\ r.updatedAt <= now
  /\ Rewrite(r, [r EXCEPT !.telegram.revision = @ + 1, !.telegram.delivery = delivery,
       !.updatedAt = now])
  /\ UNCHANGED <<used, now>>

\* manager.recordSupervisorRelease: once, after the delivery, no earlier than
\* anything the row records and not in the future.
recordSupervisorRelease(r, at) ==
  /\ Active(r) /\ r.phase = "terminal" /\ r.telegram.delivery = "delivered"
  /\ r.releasedAt = Null /\ r.updatedAt <= now
  /\ r.updatedAt <= at /\ r.receiptAt <= at /\ at <= now
  /\ Rewrite(r, [r EXCEPT !.releasedAt = at, !.updatedAt = now])
  /\ UNCHANGED <<used, now>>

\* manager.retireTerminal: only a settled turn.
retireTerminal(r) ==
  /\ Active(r) /\ r.phase = "terminal" /\ r.telegram.delivery = "delivered"
  /\ r.releasedAt # Null /\ r.updatedAt <= now
  /\ Rewrite(r, [r EXCEPT !.retiredAt = now, !.updatedAt = now])
  /\ UNCHANGED <<used, now>>

\* The wall clock moves on, or is stepped back.
Clock(t) == t # now /\ now' = t /\ UNCHANGED <<store, used>>
-----------------------------------------------------------------------------
NoRef(e) == [of |-> e, revision |-> 0, hash |-> CHOOSE h \in Hashes : TRUE]
Refs(e) == [of : {e}, revision : 1..MaxRef, hash : Hashes] \cup {NoRef(e)}

EnvelopeNext ==
  \/ \E e \in Envelopes : \E i \in [Runs -> Refs(e)], a \in Refs(e), c \in Refs(e) :
       startEnvelope(e, i, a, c)
  \/ startInterrupted
  \/ \E r \in Purged(store) : \E p \in Graph[r.phase] :
       \E t \in IF p = "terminal" THEN Time ELSE {Null},
          i \in [Runs -> Refs(r.envelope)], a \in Refs(r.envelope), c \in Refs(r.envelope) :
         transition(r, p, i, a, c, t)
  \/ \E r \in store, d \in {"pending", "delivered"} : recordTelegramDelivery(r, d)
  \/ \E r \in store, t \in Time : recordSupervisorRelease(r, t)
  \/ \E r \in store : retireTerminal(r)
  \/ \E t \in Time : Clock(t)

EnvelopeSpec == EnvelopeInit /\ [][EnvelopeNext]_envelopeVars
-----------------------------------------------------------------------------
\* Every variable has its type, and parseRow accepts every row: no write leaves
\* a row that the next read would refuse as corrupt.
EnvelopeTypeOK ==
  /\ store \subseteq RowType /\ used \subseteq Envelopes /\ now \in Time
  /\ \A r \in store : CleanRecord(r)

\* The store holds one row at most, so loadActive never finds two active rows
\* and never reaches its inventory bound; a new turn finds the slot free or
\* is refused.
OneRow == \A r, q \in store : r = q

\* A retired turn was settled in order: started, ended, delivered, released and
\* retired, at times that do not go back although the clock may.
RetiredTurnIsSettled ==
  \A r \in store : r.retiredAt # Null =>
    /\ r.telegram.delivery = "delivered"
    /\ r.receiptAt # Null /\ r.releasedAt # Null
    /\ r.createdAt <= r.receiptAt /\ r.receiptAt <= r.releasedAt /\ r.releasedAt <= r.retiredAt

\* The reply is delivered only for a turn that has ended.
DeliveredTurnHasEnded == \A r \in store : r.telegram.delivery = "delivered" => r.phase = "terminal"

\* A row leaves the store only when its turn is retired (purgeRetiredStatement
\* in start): a turn that ended but is not yet delivered or released keeps its
\* evidence, whatever is started after it.
EvidenceIsKept ==
  [][\A r \in store : r.retiredAt = Null => \E q \in store' : q.envelope = r.envelope]_envelopeVars

\* Whatever a turn has seen of its participants it does not forget: no
\* reference goes back, disappears, or changes under the same revision.
ReferencesMoveForward ==
  [][\A r \in store, q \in store' : q.envelope = r.envelope =>
       /\ IsRef(r.actor) => Evolves(r.actor, q.actor)
       /\ Evolves(r.control, q.control)
       /\ \A n \in Runs : IsRef(r.inventory[n]) => Evolves(r.inventory[n], q.inventory[n])]_envelopeVars

\* A turn that was paused runs again only on a newer revision of its actor: the
\* one that carries the operator's decision.
ResumesOnNewActor ==
  [][\A r \in store, q \in store' :
       (/\ q.envelope = r.envelope
        /\ r.phase = "paused-awaiting-approval" /\ q.phase \in {"running", "resume-ready"}) =>
          q.actor.revision > r.actor.revision]_envelopeVars

\* What recovery may conclude from the rows it finds: one row at most is open,
\* a retired turn is settled, and a delivered one has ended.
TurnIsSettled == EnvelopeTypeOK /\ OneRow /\ RetiredTurnIsSettled /\ DeliveredTurnHasEnded

\* What no later call takes away: the evidence of an open turn, the references
\* it has seen, and the decision a resumed turn rests on.
EvidenceMovesForward == EvidenceIsKept /\ ReferencesMoveForward /\ ResumesOnNewActor
=============================================================================
