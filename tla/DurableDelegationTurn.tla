------------------------ MODULE DurableDelegationTurn ------------------------
(***************************************************************************)
(* A supervised operator turn that delegates, as bin/aisy.ts composes it:  *)
(* the parent continuation (durable-parent-continuation.ts), the turn      *)
(* actor behind its production ports (durable-turn-actor-production-ports  *)
(* .ts), the coordinator between them (durable-delegation-turn-coordinator *)
(* .ts), the delegation run's external operations                          *)
(* (durable-delegation-live-adapter.ts), the bot's handling of an          *)
(* interrupted turn, its card, its callback and /stop (bot.ts), and the    *)
(* process's startup.                                                      *)
(*                                                                         *)
(* An operation whose outcome is unknown pauses the parent and asks the    *)
(* operator; the answer makes the process restart, and the replacement     *)
(* replays the turn up to that operation and applies the answer.  All the  *)
(* code between two durable writes is synchronous, so that only a crash    *)
(* comes between them: each durable write, and each start of an external   *)
(* effect, is one action.                                                  *)
(*                                                                         *)
(* Left out: the budgets an operation reserves and charges, the card's     *)
(* contents, and the delegation plan: a run is one task, whose operations  *)
(* follow one another, and a turn delegates once.  A replayed parent makes *)
(* the same delegation call again.  The supervisor's lease is held while   *)
(* the process is up.                                                      *)
(***************************************************************************)
EXTENDS Integers

CONSTANTS
  N,             \* operations of a run, at most
  TaskOnly,      \* operations of retry class 'new-task-only'
  MaxTurns,      \* bound on the operator's turns
  MaxCrashes,    \* bound on crashes of the process
  LedgerChecked  \* whether assertBudget compares the budget's ledger revision,
                 \* as bin/aisy.ts does, or accepts every budget

ASSUME TurnBounds ==
  /\ N \in Nat \ {0} /\ MaxTurns \in Nat \ {0} /\ MaxCrashes \in Nat
  /\ TaskOnly \subseteq 1..N /\ LedgerChecked \in BOOLEAN

VARIABLES
  cont,      \* the parent continuation's record
  actor,     \* the active row of the turn actor's store, if any
  slots,     \* the run's operations: control and journal
  run,       \* the run's entry in the registry
  pc,        \* where the process is
  cursor,    \* replayCursor: the operation the child is at
  card,      \* whether the coordinator holds a card to deliver
  boot,      \* whether the process is still recovering at startup
  effects,   \* how often an attempt's external effect was started
  confirmed, \* operations whose retry the operator confirmed
  crashes    \* crashes so far

durable == <<cont, actor, slots, run>>
memory == <<pc, cursor, card, boot>>
observed == <<effects, confirmed>>
vars == <<durable, memory, observed, crashes>>

Ops == [turn : 1..MaxTurns, slot : 1..N, attempt : 1..2]
NoOp == [turn |-> 0, slot |-> 0, attempt |-> 0]
Op(s, a) == [turn |-> cont.turn, slot |-> s, attempt |-> a]

\* A record of the continuation: its ambiguity is op, its cancellation receipt
\* is cancelled.
ContType ==
  [phase : {"missing", "active", "paused", "cancelling", "terminal"}, turn : 0..MaxTurns,
   revision : Nat, op : Ops \cup {NoOp}, cancelled : BOOLEAN]

\* "asked" and "shown" are paused-awaiting-approval before and after the card's
\* delivery; "approved", "claimed" and "refused" are resume-ready.
ActorType ==
  [status : {"none", "asked", "shown", "approved", "claimed", "refused", "cancelling"},
   op : Ops \cup {NoOp}, ledger : Nat]
NoActor == [status |-> "none", op |-> NoOp, ledger |-> 0]

\* One operation: its current attempt and its resolution (control), and what
\* the journal holds of each attempt.  A prepared entry that a scan finds
\* without its settlement is 'ambiguous'.
SlotType ==
  [attempt : 1..2, resolution : {"none", "retry-once", "cancel"},
   journal : [1..2 -> {"none", "prepared", "settled", "stopped"}]]
FreshSlots ==
  [s \in 1..N |-> [attempt |-> 1, resolution |-> "none", journal |-> [a \in 1..2 |-> "none"]]]
NoEffects == [s \in 1..N |-> [a \in 1..2 |-> 0]]

Init ==
  /\ cont = [phase |-> "missing", turn |-> 0, revision |-> 0, op |-> NoOp, cancelled |-> FALSE]
  /\ actor = NoActor /\ slots = FreshSlots /\ run = "none"
  /\ pc = "down" /\ cursor = 1 /\ card = FALSE /\ boot = FALSE
  /\ effects = NoEffects /\ confirmed = {} /\ crashes = 0
-----------------------------------------------------------------------------
Open == cont.phase \in {"active", "paused", "cancelling"}
Journal(o) == slots[o.slot].journal[o.attempt]
Current == Op(cursor, slots[cursor].attempt)

\* assertBudget: the ledger revision is that of the continuation when the
\* operator was asked; a continuation that is being cancelled is one further.
BudgetHeld ==
  LedgerChecked =>
    /\ run = "active"
    /\ actor.ledger = IF cont.phase = "cancelling" THEN cont.revision - 1 ELSE cont.revision

\* assertHeld of the actor's production ports: without it every operation of
\* the actor is refused, and recover reports authority-lost.
Held == Open /\ cont.op = actor.op /\ BudgetHeld

\* The continuation's writes.
SetPhase(p) == cont' = [cont EXCEPT !.phase = p, !.revision = @ + 1]
Retired == [cont EXCEPT !.phase = "terminal", !.revision = @ + 1, !.op = NoOp, !.cancelled = FALSE]

\* The process stops at the label l.
Goto(l) == pc' = l /\ UNCHANGED <<cursor, card, boot>>
-----------------------------------------------------------------------------
(* The turn. *)

\* capture: the continuation is free, or it is the active record of a turn that
\* died without an ambiguity, an actor and a run; that record is retired first.
capture ==
  /\ pc = "idle" /\ cont.turn < MaxTurns
  /\ \/ cont.phase \in {"missing", "terminal"}
     \/ cont.phase = "active" /\ cont.op = NoOp /\ actor.status = "none" /\ run # "active"
  /\ cont' = [phase |-> "active", turn |-> cont.turn + 1, revision |-> 1, op |-> NoOp,
              cancelled |-> FALSE]
  /\ slots' = FreshSlots /\ run' = "none"
  /\ effects' = NoEffects /\ confirmed' = {}
  /\ pc' = "turn" /\ cursor' = 1 /\ card' = FALSE
  /\ UNCHANGED <<actor, boot, crashes>>

\* The parent delegates: the run is registered and activated.
dispatch ==
  /\ pc = "turn" /\ run = "none"
  /\ run' = "active" /\ Goto("operation")
  /\ UNCHANGED <<cont, actor, slots, observed, crashes>>

\* retireParent, after the reply's release.
retireParent ==
  /\ pc = "turn" /\ cont.phase = "active" /\ actor.status = "none"
  /\ cont' = Retired
  /\ pc' = "idle" /\ boot' = FALSE
  /\ UNCHANGED <<actor, slots, run, cursor, card, observed, crashes>>

\* A turn that fails for another reason: retireFailedTurn, else failClosed;
\* during startup the process ends either way.
retireFailedTurn ==
  /\ pc = "turn"
  /\ IF cont.phase = "active" /\ cont.op = NoOp /\ actor.status = "none" /\ run # "active"
     THEN cont' = Retired /\ Goto(IF boot THEN "down" ELSE "idle")
     ELSE UNCHANGED cont /\ Goto("down")
  /\ UNCHANGED <<actor, slots, run, observed, crashes>>
-----------------------------------------------------------------------------
(* An operation of the child: runOperation. *)

\* Past the two branches for a durable resolution.
AtJournal ==
  \/ pc = "lookup"
  \/ pc = "operation" /\ cursor <= N /\ slots[cursor].resolution = "none"

\* The journal's result is returned again.
replaySettled ==
  /\ AtJournal /\ Journal(Current) = "settled"
  /\ cursor' = cursor + 1 /\ pc' = "operation"
  /\ UNCHANGED <<card, boot, durable, observed, crashes>>

replayStopped ==
  /\ AtJournal /\ Journal(Current) = "stopped" /\ Goto("ended")
  /\ UNCHANGED <<durable, observed, crashes>>

replayAmbiguous ==
  /\ AtJournal /\ Journal(Current) = "prepared" /\ Goto("ambiguous")
  /\ UNCHANGED <<durable, observed, crashes>>

\* Mutant: an entry without a settlement counts as not yet prepared.
PrepareAgain ==
  /\ AtJournal /\ Journal(Current) \in {"none", "prepared"}
  /\ slots' = [slots EXCEPT ![cursor].journal[slots[cursor].attempt] = "prepared"]
  /\ Goto("prepared")
  /\ UNCHANGED <<cont, actor, run, observed, crashes>>

\* markPrepared and journal.prepare.
prepare ==
  /\ AtJournal /\ Journal(Current) = "none"
  /\ slots' = [slots EXCEPT ![cursor].journal[slots[cursor].attempt] = "prepared"]
  /\ Goto("prepared")
  /\ UNCHANGED <<cont, actor, run, observed, crashes>>

start ==
  /\ pc = "prepared"
  /\ effects' = [effects EXCEPT ![cursor][slots[cursor].attempt] = @ + 1]
  /\ Goto("io")
  /\ UNCHANGED <<durable, confirmed, crashes>>

\* The operation completes: its result is settled; or it was aborted by /stop
\* and acknowledges that nothing runs; or its outcome is unknown.
settle ==
  /\ pc = "io"
  /\ slots' = [slots EXCEPT ![cursor].journal[slots[cursor].attempt] = "settled"]
  /\ cursor' = cursor + 1 /\ pc' = "operation"
  /\ UNCHANGED <<cont, actor, run, card, boot, observed, crashes>>

settleStopped ==
  /\ pc = "io"
  /\ slots' = [slots EXCEPT ![cursor].journal[slots[cursor].attempt] = "stopped"]
  /\ Goto("ended")
  /\ UNCHANGED <<cont, actor, run, observed, crashes>>

unsettled ==
  /\ pc \in {"prepared", "io"} /\ Goto("ambiguous")
  /\ UNCHANGED <<durable, observed, crashes>>

\* The run ends, with a result or a failure, and leaves the registry: after its
\* last operation, or before one that was never prepared.
endRun ==
  /\ \/ pc = "ended"
     \/ pc = "operation" /\ cursor > N
     \/ AtJournal /\ pc = "operation" /\ Journal(Current) = "none"
  /\ run' = "retired" /\ Goto("turn")
  /\ UNCHANGED <<cont, actor, slots, observed, crashes>>
-----------------------------------------------------------------------------
(* An ambiguity: onAmbiguity, resolveAmbiguity, control.resolve. *)

\* pauseContinuation
pause ==
  /\ pc = "ambiguous" /\ cont.phase = "active"
  /\ cont' = [cont EXCEPT !.phase = "paused", !.revision = @ + 1, !.op = Current]
  /\ UNCHANGED <<actor, slots, run, memory, observed, crashes>>

PausedHere == pc = "ambiguous" /\ cont.phase = "paused" /\ cont.op = Current

\* A mutation is never retried: the parent is over, and so is the run.
retireManual ==
  /\ PausedHere /\ cursor \in TaskOnly
  /\ cont' = Retired /\ Goto("manual")
  /\ UNCHANGED <<actor, slots, run, observed, crashes>>

endManual ==
  /\ pc = "manual"
  /\ run' = "retired" /\ Goto("down")
  /\ UNCHANGED <<cont, actor, slots, observed, crashes>>

\* actor.manager.pause: the operator will be asked.
ask ==
  /\ PausedHere /\ cursor \notin TaskOnly /\ actor.status = "none"
  /\ actor' = [status |-> "asked", op |-> cont.op, ledger |-> cont.revision]
  /\ card' = TRUE /\ pc' = "interrupted"
  /\ UNCHANGED <<cont, slots, run, cursor, boot, observed, crashes>>

\* resolveAmbiguity: the decision is there; a confirmed one is claimed, or its
\* claim by a dead process is reconciled.  (An undecided actor is not found
\* here: startup delivers its card and does not replay.)
resolveAmbiguity ==
  /\ PausedHere /\ Held /\ actor.status \in {"approved", "claimed", "refused"}
  /\ actor' = [actor EXCEPT !.status = IF @ = "refused" THEN @ ELSE "claimed"]
  /\ Goto("resolve")
  /\ UNCHANGED <<cont, slots, run, observed, crashes>>

\* onAmbiguity and resolveAmbiguity are refused.
ambiguityRefused ==
  /\ pc = "ambiguous"
  /\ \/ cont.phase \notin {"active", "paused"}
     \/ cont.phase = "paused" /\ cont.op # Current
     \/ cont.phase = "paused" /\ actor.status # "none" /\ ~Held
  /\ Goto("interrupted")
  /\ UNCHANGED <<durable, observed, crashes>>

\* control.resolve: a second attempt is granted once, or the operation ends.
resolve ==
  /\ pc = "resolve"
  /\ actor.status = "claimed" => slots[cursor].attempt = 1
  /\ slots' = [slots EXCEPT ![cursor] =
       IF actor.status = "claimed"
       THEN [@ EXCEPT !.attempt = 2, !.resolution = "retry-once"]
       ELSE [@ EXCEPT !.resolution = "cancel"]]
  /\ Goto("applied")
  /\ UNCHANGED <<cont, actor, run, observed, crashes>>
-----------------------------------------------------------------------------
(* A durable resolution: onResolutionApplied. *)

Applying ==
  \/ pc = "applied"
  \/ pc = "operation" /\ cursor <= N /\ slots[cursor].resolution # "none"

\* The attempt that the resolution is about.
ResolvedOp ==
  IF slots[cursor].resolution = "retry-once" THEN Op(cursor, 1) ELSE Current

\* The actor carries this very resolution.
Carried ==
  /\ Held /\ actor.op = ResolvedOp
  /\ actor.status = IF slots[cursor].resolution = "retry-once" THEN "claimed" ELSE "refused"

Proceed == Goto(IF slots[cursor].resolution = "retry-once" THEN "lookup" ELSE "ended")

resumeParent ==
  /\ Applying /\ Carried /\ cont.phase = "paused"
  /\ SetPhase("active") /\ Goto("applied")
  /\ UNCHANGED <<actor, slots, run, observed, crashes>>

\* finishWithPermit or terminalizeRejected.
finishActor ==
  /\ Applying /\ Carried /\ cont.phase = "active"
  /\ actor' = NoActor /\ Proceed
  /\ UNCHANGED <<cont, slots, run, observed, crashes>>

\* All of it was done before.
alreadyApplied ==
  /\ Applying /\ cont.phase = "active" /\ actor.status = "none" /\ Proceed
  /\ UNCHANGED <<durable, observed, crashes>>

applicationRefused ==
  /\ Applying /\ ~Carried /\ ~(cont.phase = "active" /\ actor.status = "none")
  /\ Goto("interrupted")
  /\ UNCHANGED <<durable, observed, crashes>>
-----------------------------------------------------------------------------
(* The card, the operator's answer and /stop: bot.ts. *)

\* The card is sent, and then marked delivered; a replay at startup that ends
\* in a card counts as failed, and the process ends.
deliverCard ==
  /\ pc \in {"interrupted", "card"} /\ card /\ Held
  /\ actor' = [actor EXCEPT !.status = "shown"] /\ card' = FALSE
  /\ pc' = IF boot /\ pc = "interrupted" THEN "down" ELSE "idle"
  /\ boot' = FALSE
  /\ UNCHANGED <<cont, slots, run, cursor, observed, crashes>>

\* The card is not sent (the process restarts), or there is none (failClosed).
failInterrupted ==
  /\ pc \in {"interrupted", "card"} /\ Goto("down")
  /\ UNCHANGED <<durable, observed, crashes>>

\* Mutant: an answer is taken after /stop.
AnswerStopped(yes) ==
  /\ pc \in {"idle", "stop"} /\ actor.status \in {"shown", "cancelling"} /\ Held
  /\ actor' = [actor EXCEPT !.status = IF yes THEN "approved" ELSE "refused"]
  /\ confirmed' = IF yes THEN confirmed \cup {actor.op} ELSE confirmed
  /\ UNCHANGED <<cont, slots, run, memory, effects, crashes>>

\* recordCardDecision
answer(yes) ==
  /\ pc = "idle" /\ actor.status = "shown" /\ Held
  /\ actor' = [actor EXCEPT !.status = IF yes THEN "approved" ELSE "refused"]
  /\ confirmed' = IF yes THEN confirmed \cup {actor.op} ELSE confirmed
  /\ UNCHANGED <<cont, slots, run, memory, effects, crashes>>

\* An answer after the card's expiry ends the actor.
answerExpired ==
  /\ pc = "idle" /\ actor.status = "shown" /\ Held
  /\ actor' = NoActor
  /\ UNCHANGED <<cont, slots, run, memory, observed, crashes>>

\* requestResume after a recorded answer: a planned restart.
requestResume ==
  /\ pc = "idle" /\ actor.status \in {"approved", "refused"}
  /\ Goto("down")
  /\ UNCHANGED <<durable, observed, crashes>>

\* requestStop, by /stop while no turn is running: the actor's cancellation
\* wins over its card and its decision; without an actor it is refused.
requestStop ==
  /\ pc = "idle" /\ cont.phase \in {"active", "paused"} /\ cont.op # NoOp
  /\ actor.status # "none" /\ Held
  /\ actor' = [actor EXCEPT !.status = "cancelling"]
  /\ Goto("stop")
  /\ UNCHANGED <<cont, slots, run, observed, crashes>>

\* quiescenceReceipt, assertCancellationQuiesced: nothing runs for the
\* operation, and nothing has settled it.
Quiesced == run = "active" /\ Journal(cont.op) = "prepared"

beginCancellation ==
  /\ pc = "stop" /\ cont.phase \in {"active", "paused"} /\ Quiesced
  /\ SetPhase("cancelling")
  /\ UNCHANGED <<actor, slots, run, memory, observed, crashes>>

finishActorCancellation ==
  /\ pc = "stop" /\ cont.phase = "cancelling"
  /\ actor.status = "cancelling" /\ Held /\ Quiesced
  /\ actor' = NoActor
  /\ UNCHANGED <<cont, slots, run, memory, observed, crashes>>

finishCancellation ==
  /\ pc = "stop" /\ cont.phase = "cancelling" /\ actor.status = "none"
  /\ cont' = [cont EXCEPT !.phase = "terminal", !.revision = @ + 1, !.cancelled = TRUE]
  /\ UNCHANGED <<actor, slots, run, memory, observed, crashes>>

retireCancelledRun ==
  /\ pc = "stop" /\ cont.phase = "terminal"
  /\ run' = "retired"
  /\ pc' = "idle" /\ boot' = FALSE
  /\ UNCHANGED <<cont, actor, slots, cursor, card, observed, crashes>>
-----------------------------------------------------------------------------
(* Startup: a process that finds no run of its turn just opens for turns;     *)
(* otherwise it settles the turn it finds, and throws where it cannot.        *)

Boot(l) == pc = "down" /\ pc' = l /\ cursor' = 1
Recovered == run = "active" /\ Open /\ (actor.status # "none" => Held)

bootIdle ==
  /\ run # "active" /\ Boot("idle") /\ card' = FALSE /\ boot' = FALSE
  /\ UNCHANGED <<durable, observed, crashes>>

\* Mutant: startup looks at the actor only.
BootStopByActor ==
  /\ Recovered /\ actor.status = "cancelling"
  /\ Boot("stop") /\ card' = FALSE /\ boot' = TRUE
  /\ UNCHANGED <<durable, observed, crashes>>

bootStop ==
  /\ \/ run = "active" /\ cont.phase = "terminal" /\ cont.cancelled
     \/ Recovered /\ actor.status = "cancelling"
  /\ Boot("stop") /\ card' = FALSE /\ boot' = TRUE
  /\ UNCHANGED <<durable, observed, crashes>>

\* rotateRecoveredCard: the old card is dead, a new one is sent.
bootCard ==
  /\ Recovered /\ actor.status \in {"asked", "shown"}
  /\ actor' = [actor EXCEPT !.status = "asked"]
  /\ Boot("card") /\ card' = TRUE /\ boot' = TRUE
  /\ UNCHANGED <<cont, slots, run, observed, crashes>>

\* Mutant: a claim left by a dead process is not replayed.
BootReplayUnclaimed ==
  /\ Recovered /\ actor.status \in {"none", "approved", "refused"}
  /\ Boot("operation") /\ card' = FALSE /\ boot' = TRUE
  /\ UNCHANGED <<durable, observed, crashes>>

\* resumeDurableTurn: the turn is captured as a replay and runs again.
bootReplay ==
  /\ Recovered /\ actor.status \in {"none", "approved", "claimed", "refused"}
  /\ Boot("operation") /\ card' = FALSE /\ boot' = TRUE
  /\ UNCHANGED <<durable, observed, crashes>>

\* The process dies anywhere.
crash ==
  /\ pc # "down" /\ crashes < MaxCrashes
  /\ crashes' = crashes + 1 /\ pc' = "down" /\ card' = FALSE /\ boot' = FALSE
  /\ UNCHANGED <<cursor, durable, observed>>
-----------------------------------------------------------------------------
\* What the process does by itself.
Step ==
  \/ retireParent \/ retireFailedTurn
  \/ replaySettled \/ replayStopped \/ replayAmbiguous \/ prepare \/ start
  \/ settle \/ settleStopped \/ unsettled \/ endRun
  \/ pause \/ retireManual \/ endManual \/ ask \/ resolveAmbiguity \/ ambiguityRefused \/ resolve
  \/ resumeParent \/ finishActor \/ alreadyApplied \/ applicationRefused
  \/ deliverCard \/ failInterrupted \/ requestResume
  \/ beginCancellation \/ finishActorCancellation \/ finishCancellation \/ retireCancelledRun
  \/ bootIdle \/ bootStop \/ bootCard \/ bootReplay

\* What the operator, the model and the machine do.
Next ==
  \/ Step
  \/ capture \/ dispatch \/ answer(TRUE) \/ answer(FALSE) \/ answerExpired \/ requestStop
  \/ crash

\* The process, while it is up, goes on; the supervisor starts it again when it
\* is down.
Spec == Init /\ [][Next]_vars /\ WF_vars(Step)
-----------------------------------------------------------------------------
\* Every variable has its type, and the continuation's record is one that
\* load accepts (cleanRecord): a paused or cancelling one names its ambiguity.
TypeOK ==
  /\ cont \in ContType /\ actor \in ActorType /\ slots \in [1..N -> SlotType]
  /\ run \in {"none", "active", "retired"}
  /\ cursor \in 1..(N + 1) /\ card \in BOOLEAN /\ boot \in BOOLEAN
  /\ effects \in [1..N -> [1..2 -> Nat]] /\ confirmed \subseteq Ops /\ crashes \in 0..MaxCrashes
  /\ cont.phase \in {"paused", "cancelling"} => cont.op # NoOp
  /\ cont.cancelled => cont.phase = "terminal" /\ cont.op # NoOp

\* An attempt of an operation has its external effect started once at most,
\* through every crash, replay and restart of the turn.
EffectStartsOnce == \A s \in 1..N, a \in 1..2 : effects[s][a] <= 1

\* The second attempt of an operation runs only after the operator confirmed
\* the retry of this operation, and a mutation has no second attempt.
RetryWasConfirmed ==
  \A s \in 1..N : effects[s][2] > 0 => Op(s, 1) \in confirmed /\ s \notin TaskOnly

\* No effect starts while the turn waits for the operator, is being stopped or
\* is over, nor before the decision it rests on is consumed.
EffectsStartInActiveTurn ==
  [][pc = "prepared" /\ pc' = "io" => cont.phase = "active" /\ actor.status = "none"]_vars

Stopping == actor.status = "cancelling" \/ cont.phase = "cancelling"

\* From the moment /stop wins, the turn takes no answer, starts no effect and
\* never becomes active again.
StopWins ==
  [][Stopping => /\ observed' = observed /\ cont'.phase # "active"
                 /\ actor'.status \in {"cancelling", "none"}]_vars

\* A question to the operator is about the operation its turn is paused at: no
\* actor outlives its turn or asks for an operation that was left behind.
ActorServesTurn == actor.status # "none" => Open /\ cont.op = actor.op

Decided == actor.status \in {"approved", "refused"}
Unresolved == \A s \in 1..N : slots[s].resolution = "none"

\* What the operator decides about the turn's first ambiguity is consumed,
\* wherever the process crashes on the way, unless /stop overtakes it.
FirstDecisionIsConsumed == (Decided /\ Unresolved) ~> actor.status \in {"none", "cancelling"}

\* The same for every ambiguity of the turn.
DecisionIsConsumed == Decided ~> actor.status \in {"none", "cancelling"}

\* A run whose turn was cancelled leaves the registry.
CancelledRunIsRetired == cont.cancelled ~> run # "active"

\* A stop that has won is carried through to the run's retirement.
StopIsCarriedThrough == Stopping ~> run # "active"

\* In every state a crash can leave behind: effects started once, retries were
\* confirmed, and a question to the operator is about the operation its turn is
\* paused at.
TurnIsConsistent == TypeOK /\ EffectStartsOnce /\ RetryWasConfirmed /\ ActorServesTurn

\* No step starts an effect without an active turn, and none undoes a stop.
EffectsNeedALiveTurn == EffectsStartInActiveTurn /\ StopWins
=============================================================================
