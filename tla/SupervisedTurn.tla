--------------------------- MODULE SupervisedTurn ---------------------------
(***************************************************************************)
(* The authority of a supervised Telegram turn.  The parent supervisor     *)
(* (execution-parent-supervisor.ts) keeps, in its durable state, which     *)
(* turn may act and the receipt of the last durable release.  The child    *)
(* (bin/aisy.ts, bot.ts) asks for that authority over IPC                  *)
(* (execution-supervisor-ipc.ts), keeps the turn's execution card and its  *)
(* reply in two checkpoint files (telegram-execution-stream.ts,            *)
(* telegram-reply-stream.ts and their stores), and after a restart brings  *)
(* the three stores back together before it polls Telegram                 *)
(* (telegram-execution-startup-recovery.ts, durable-reply-release.ts).     *)
(*                                                                         *)
(* Every durable write, every frame and every Telegram request is one      *)
(* action, so that a crash of the child or of the parent comes between any *)
(* two of them.  A file's save that throws is a crash before or after the  *)
(* write: the code fails closed, which ends the process.  Losing the       *)
(* session ends the process too (bin/aisy.ts:862).                         *)
(*                                                                         *)
(* Left out: delegation runs and the parent continuation                   *)
(* (DurableDelegationTurn), the parent's restart budget, the hello before  *)
(* the recovery request, owners and revisions of the two checkpoints (the  *)
(* runtime fence leaves one writer), and messages that arrive while a turn *)
(* runs.                                                                   *)
(***************************************************************************)
EXTENDS Integers, FiniteSets

CONSTANTS
  Ids,         \* lease ids; two are enough, a new one differs from the current one
  MaxTurns,    \* bound on the operator's messages
  Voice,       \* messages whose handler awaits the turn; the others' turns run
               \* after their handler has returned
  MaxCrashes,  \* bound on crashes of the child and of the parent
  MaxFaults,   \* bound on failing Telegram requests and late replies
  MaxPublish,  \* bound on failing publications of the supervisor's state
  MaxUpgrades, \* bound on upgrades that make the stored card unreadable
  MaxTrouble   \* bound on the four together

ASSUME SupervisedBounds ==
  /\ 0 \notin Ids /\ \A i \in Ids \cup {0} : \E j \in Ids : j # i
  /\ MaxTurns \in Nat \ {0} /\ Voice \subseteq 1..MaxTurns
  /\ MaxCrashes \in Nat /\ MaxFaults \in Nat /\ MaxPublish \in Nat
  /\ MaxUpgrades \in Nat /\ MaxTrouble \in Nat

VARIABLES
  auth,     \* state.authority of the supervisor
  receipt,  \* state.releaseReceipt of the supervisor: the evidence it covers
  parent,   \* where the supervisor is
  link,     \* whether the IPC channel is connected
  req,      \* the child's request in flight
  rep,      \* the parent's reply in flight
  card,     \* the execution checkpoint
  reply,    \* the reply checkpoint
  pc,       \* where the child is
  turn,     \* the turn the child runs
  lease,    \* the lease the child holds
  stream,   \* the reply stream's memory
  outcome,  \* how the turn's work ended
  retry,    \* the failed turn whose card offers to retry it
  seen,     \* the last message whose handler has returned
  acked,    \* the last message that Telegram delivers no more
  unsure,   \* the turns whose reply was sent and not durably confirmed
  crashes, faults, failures, upgrades

channel == <<link, req, rep>>
memory == <<turn, lease, stream, outcome, retry>>
inbox == <<seen, acked>>
bounds == <<crashes, faults, failures, upgrades>>
vars == <<auth, receipt, parent, channel, card, reply, pc, memory, inbox, unsure, bounds>>

\* One more of the accidents that a bound counts.
Within(bound, count) ==
  count < bound /\ crashes + faults + failures + upgrades < MaxTrouble

Turns == 1..MaxTurns
Phases == {"unbound", "bound"}

\* An authority: its turn (0: none), phase and lease id, and whether a restarted
\* child holds it for recovery.
NoAuth == [turn |-> 0, phase |-> "unbound", id |-> 0, leased |-> FALSE]
AuthType == [turn : 0..MaxTurns, phase : Phases, id : Ids \cup {0}, leased : BOOLEAN]

NoLease == [turn |-> 0, phase |-> "unbound", id |-> 0]
LeaseType == [turn : 0..MaxTurns, phase : Phases, id : Ids \cup {0}]

\* A checkpoint of the card; message: whether it has a message id.
NoCard ==
  [turn |-> 0, phase |-> "prepared", delivery |-> "pending", message |-> FALSE, readable |-> TRUE]
CardType ==
  [turn : 0..MaxTurns, phase : {"prepared", "bound", "terminal"},
   delivery : {"pending", "delivered"}, message : BOOLEAN, readable : BOOLEAN]

\* A checkpoint of the reply; document: the part that did not fit the message.
Reply(t, phase, delivery, document) ==
  [turn |-> t, phase |-> phase, delivery |-> delivery, document |-> document]
NoReply == Reply(0, "prepared", "pending", "none")
ReplyType ==
  [turn : 0..MaxTurns, phase : {"prepared", "bound", "terminal"},
   delivery : {"pending", "delivered"}, document : {"none", "pending", "delivered"}]

\* A frame has a type and, as far as the type needs them, a turn's binding, a
\* lease id, an authority phase and the reply evidence that the intent hash covers.
Requests == {"recovery", "capture", "bind", "release", "release-durable", "consume"}
Frame(type, t, id, phase, evidence) ==
  [type |-> type, turn |-> t, id |-> id, phase |-> phase, evidence |-> evidence]
FrameType(types) ==
  [type : types, turn : 0..MaxTurns, id : Ids \cup {0}, phase : Phases, evidence : ReplyType]
NoFrame == Frame("none", 0, 0, "unbound", NoReply)

Init ==
  /\ auth = NoAuth /\ receipt = NoReply
  /\ parent = "down" /\ link = FALSE /\ req = NoFrame /\ rep = NoFrame
  /\ card = NoCard /\ reply = NoReply
  /\ pc = "dead" /\ turn = 0 /\ lease = NoLease /\ stream = "new" /\ outcome = "none" /\ retry = 0
  /\ seen = 0 /\ acked = 0 /\ unsure = {}
  /\ crashes = 0 /\ faults = 0 /\ failures = 0 /\ upgrades = 0
-----------------------------------------------------------------------------
(***************************************************************************)
(* The parent supervisor.                                                  *)
(***************************************************************************)

\* publish(): the state file is replaced.  It can fail before the replacement,
\* and the request then fails and the child is stopped; or after it, and the
\* supervisor's copy is then stale: its next publication is refused as a
\* conflict and it waits, quarantined, for the operator.
Publish(a, r, answer) ==
  \/ /\ auth' = a /\ receipt' = r /\ rep' = answer
     /\ UNCHANGED <<parent, link, bounds>>
  \/ /\ Within(MaxPublish, failures) /\ failures' = failures + 1
     /\ rep' = NoFrame /\ link' = FALSE
     /\ \/ parent' = "closing" /\ UNCHANGED <<auth, receipt>>
        \/ parent' = "broken" /\ auth' = a /\ receipt' = r
     /\ UNCHANGED <<crashes, faults, upgrades>>

Refuse ==
  /\ rep' = Frame("refusal", 0, 0, "unbound", NoReply)
  /\ UNCHANGED <<auth, receipt, parent, link, bounds>>

FreshId == CHOOSE i \in Ids : i # auth.id

\* The second half of handshake(): an authority that survived is leased to the
\* new session under a new id; else the child learns of an unconsumed receipt.
HandleRecovery ==
  IF auth.turn # 0
  THEN Publish([auth EXCEPT !.id = FreshId, !.leased = TRUE], receipt,
               Frame("recovery", auth.turn, FreshId, auth.phase, NoReply))
  ELSE /\ rep' = Frame("recovery", 0, 0, "unbound", receipt)
       /\ UNCHANGED <<auth, receipt, parent, link, bounds>>

HandleCapture ==
  IF auth.turn # 0 \/ receipt.turn # 0
  THEN Refuse
  ELSE Publish([turn |-> req.turn, phase |-> "unbound", id |-> FreshId, leased |-> FALSE], receipt,
               Frame("capture", req.turn, FreshId, "unbound", NoReply))

HandleBind ==
  IF auth.turn = req.turn /\ auth.id = req.id /\ auth.phase = "unbound" /\ ~auth.leased
  THEN Publish([auth EXCEPT !.phase = "bound"], receipt, req)
  ELSE Refuse

HandleRelease ==
  IF auth.turn = req.turn /\ auth.id = req.id
  THEN Publish(NoAuth, receipt, req)
  ELSE Refuse

HandleReleaseDurable ==
  IF auth.turn = req.turn /\ auth.id = req.id
  THEN Publish(NoAuth, req.evidence, req)
  ELSE Refuse

HandleConsume ==
  IF auth.turn = 0 /\ receipt.turn # 0 /\ receipt = req.evidence
  THEN Publish(NoAuth, NoReply, req)
  ELSE Refuse

\* handleRequest().  A request of a child that has just ended may still be handled.
Handle ==
  /\ parent = "serving" /\ req # NoFrame
  /\ req' = NoFrame
  /\ \/ req.type = "recovery" /\ HandleRecovery
     \/ req.type = "capture" /\ HandleCapture
     \/ req.type = "bind" /\ HandleBind
     \/ req.type = "release" /\ HandleRelease
     \/ req.type = "release-durable" /\ HandleReleaseDurable
     \/ req.type = "consume" /\ HandleConsume
  /\ UNCHANGED <<card, reply, pc, memory, inbox, unsure>>

\* run(), up to its loop: the child liveness fence is free only when no child is left.
ParentStart ==
  /\ parent = "down" /\ pc = "dead"
  /\ parent' = "ready"
  /\ UNCHANGED <<auth, receipt, channel, card, reply, pc, memory, inbox, unsure, bounds>>

Spawn ==
  /\ parent = "ready"
  /\ parent' = "serving" /\ link' = TRUE /\ pc' = "hello"
  /\ UNCHANGED <<auth, receipt, req, rep, card, reply, memory, inbox, unsure, bounds>>

\* serveUntilExit() returned or threw, and the child has exited.
NoticeExit ==
  /\ parent \in {"serving", "closing"} /\ pc = "dead"
  /\ parent' = "ready" /\ link' = FALSE /\ req' = NoFrame /\ rep' = NoFrame
  /\ UNCHANGED <<auth, receipt, card, reply, pc, memory, inbox, unsure, bounds>>

\* The operator restarts a supervisor that could not publish.
OperatorRestart ==
  /\ parent = "broken" /\ pc = "dead"
  /\ parent' = "down" /\ req' = NoFrame /\ rep' = NoFrame
  /\ UNCHANGED <<auth, receipt, link, card, reply, pc, memory, inbox, unsure, bounds>>

ParentCrash ==
  /\ parent \in {"ready", "serving", "closing"} /\ Within(MaxCrashes, crashes)
  /\ parent' = "down" /\ link' = FALSE /\ req' = NoFrame /\ rep' = NoFrame
  /\ crashes' = crashes + 1
  /\ UNCHANGED <<auth, receipt, card, reply, pc, memory, inbox, unsure, faults, failures, upgrades>>
-----------------------------------------------------------------------------
(***************************************************************************)
(* The child.  Whatever it cannot complete ends it: a refusal, a late      *)
(* reply, a lost channel, a checkpoint that cannot be written and a card   *)
(* that cannot be delivered all come down to Exit.  Telegram then delivers *)
(* again what was not acknowledged.  A child that has not yet noticed the  *)
(* loss of its channel goes on until it sends a frame.                     *)
(***************************************************************************)

Forget ==
  turn' = 0 /\ lease' = NoLease /\ stream' = "new" /\ outcome' = "none"

Exit ==
  /\ pc' = "dead" /\ Forget /\ retry' = 0 /\ seen' = acked
  /\ UNCHANGED <<auth, receipt, parent, channel, card, reply, acked, unsure>>

Waiting == {"helloWait", "consumeBoot", "releaseBoot", "captureWait", "bindWait",
            "releaseWait", "durableWait", "consumeWait"}

ChildCrash ==
  /\ pc # "dead" /\ Within(MaxCrashes, crashes)
  /\ crashes' = crashes + 1
  /\ Exit /\ UNCHANGED <<faults, failures, upgrades>>

\* onLost() ends the process.
ChildLost ==
  /\ pc # "dead" /\ ~link
  /\ Exit /\ UNCHANGED bounds

\* exchange(): no reply in time.
Timeout ==
  /\ pc \in Waiting /\ Within(MaxFaults, faults)
  /\ faults' = faults + 1
  /\ Exit /\ UNCHANGED <<crashes, failures, upgrades>>

Fault == Within(MaxFaults, faults) /\ faults' = faults + 1 /\ UNCHANGED <<crashes, failures, upgrades>>

Send(frame, wait) == req' = frame /\ rep' = NoFrame /\ pc' = wait

\* exchange(): the reply that the child awaits at wait has come; one of another
\* type, a refusal above all, ends the child.
Answered(wait, type, step) ==
  /\ link /\ pc = wait /\ rep # NoFrame
  /\ IF rep.type = type THEN step ELSE Exit /\ UNCHANGED bounds

Recoverable(c) == c.turn # 0 /\ (c.phase # "terminal" \/ c.delivery # "delivered")
\* Mutant of Active: a reply without a message id counts as never sent.
ActiveWithMessage(r) ==
  r.turn # 0 /\ r.phase # "prepared" /\
    (r.phase # "terminal" \/ r.delivery # "delivered" \/ r.document = "pending")

Active(r) == r.turn # 0 /\ (r.phase # "terminal" \/ r.delivery # "delivered" \/ r.document = "pending")

\* establishExecutionSupervisorStartupBarrier()
Hello ==
  /\ pc = "hello" /\ link
  /\ Send(Frame("recovery", 0, 0, "unbound", NoReply), "helloWait")
  /\ UNCHANGED <<auth, receipt, parent, link, card, reply, memory, inbox, unsure, bounds>>

\* requestRecoveryState() and recoverDurableTelegramReplyRelease(): a receipt is
\* consumed when the reply checkpoint is the evidence it covers.
Recovered ==
  Answered("helloWait", "recovery",
    IF rep.evidence.turn = 0
    THEN /\ lease' = [turn |-> rep.turn, phase |-> rep.phase, id |-> rep.id]
         /\ rep' = NoFrame /\ pc' = "boot"
         /\ UNCHANGED <<auth, receipt, parent, link, req, card, reply, turn, stream, outcome,
                        retry, inbox, unsure, bounds>>
    ELSE IF rep.evidence = reply /\ ~Active(reply)
    THEN /\ Send(Frame("consume", 0, 0, "unbound", rep.evidence), "consumeBoot")
         /\ UNCHANGED <<auth, receipt, parent, link, card, reply, memory, inbox, unsure, bounds>>
    ELSE Exit /\ UNCHANGED bounds)

ConsumedAtBoot ==
  Answered("consumeBoot", "consume",
    /\ rep' = NoFrame /\ pc' = "boot"
    /\ UNCHANGED <<auth, receipt, parent, link, req, card, reply, memory, inbox, unsure, bounds>>)

\* recoverExecutionCheckpointBeforeExternalIo(), first part: a card that this
\* build cannot read is moved aside.
DiscardCard ==
  /\ pc = "boot" /\ ~card.readable
  /\ card' = NoCard
  /\ UNCHANGED <<auth, receipt, parent, channel, reply, pc, memory, inbox, unsure, bounds>>

\* Second part, without a lease: the card must be closed.
BootUnleased ==
  /\ pc = "boot" /\ card.readable /\ lease.turn = 0
  /\ IF ~Recoverable(card)
     THEN /\ pc' = "idle"
          /\ UNCHANGED <<auth, receipt, parent, channel, card, reply, memory, inbox, unsure, bounds>>
     ELSE Exit /\ UNCHANGED bounds

ReleaseFrame == Frame("release", lease.turn, lease.id, "unbound", NoReply)

\* Mutant of RecoveryReleases: a card that is already closed is not released.
RecoveryReleasesMissing == card.turn = 0 /\ lease.phase = "unbound"

\* Second part, with one: recoverWithHeldLease().
RecoveryReleases ==
  \/ card.turn = 0 /\ lease.phase = "unbound"
  \/ card.turn = lease.turn /\ ~Recoverable(card)

BootLeased ==
  /\ pc = "boot" /\ card.readable /\ lease.turn # 0
  /\ \/ /\ RecoveryReleases
        /\ pc' = "bootRelease"
        /\ UNCHANGED <<auth, receipt, parent, channel, card, reply, memory, inbox, unsure, bounds>>
     \/ /\ card.turn = lease.turn /\ Recoverable(card)
        /\ card' = [card EXCEPT !.phase = IF card.message THEN "terminal" ELSE "prepared",
                                !.delivery = "pending"]
        /\ pc' = "recoverSend"
        /\ UNCHANGED <<auth, receipt, parent, channel, reply, memory, inbox, unsure, bounds>>
     \/ /\ ~RecoveryReleases /\ card.turn # lease.turn
        /\ Exit /\ UNCHANGED bounds

\* recoverTelegramExecutionCheckpoint() after its first write: the card's message
\* is edited or replaced, and the checkpoint closed.
RecoverSend ==
  /\ pc = "recoverSend"
  /\ \/ /\ card' = [card EXCEPT !.phase = "terminal", !.delivery = "delivered", !.message = TRUE]
        /\ pc' = "bootRelease"
        /\ UNCHANGED <<auth, receipt, parent, channel, reply, memory, inbox, unsure, bounds>>
     \/ Fault /\ Exit

BootRelease ==
  /\ pc = "bootRelease" /\ link
  /\ Send(ReleaseFrame, "releaseBoot")
  /\ UNCHANGED <<auth, receipt, parent, link, card, reply, memory, inbox, unsure, bounds>>

ReleasedAtBoot ==
  Answered("releaseBoot", "release",
    /\ rep' = NoFrame /\ pc' = "idle" /\ lease' = NoLease
    /\ UNCHANGED <<auth, receipt, parent, link, req, card, reply, turn, stream, outcome, retry, inbox,
                   unsure, bounds>>)
-----------------------------------------------------------------------------
(***************************************************************************)
(* runTurn() of the bot.                                                   *)
(***************************************************************************)

\* A message is delivered to an idle bot.  The handler of a text buffers it and
\* returns; that of a voice message awaits the turn.
Receive ==
  /\ pc = "idle" /\ seen < MaxTurns
  /\ turn' = seen + 1 /\ pc' = "capture"
  /\ seen' = IF turn' \in Voice THEN seen ELSE turn'
  /\ UNCHANGED <<auth, receipt, parent, channel, card, reply, lease, stream, outcome, retry,
                 acked, unsure, bounds>>

\* The next getUpdates acknowledges the messages whose handlers have returned.
Acknowledge ==
  /\ pc \notin {"dead", "hello", "helloWait", "consumeBoot", "boot", "recoverSend",
                "bootRelease", "releaseBoot"}
  /\ acked < seen /\ acked' = seen
  /\ UNCHANGED <<auth, receipt, parent, channel, card, reply, pc, memory, seen, unsure, bounds>>

CaptureTurn ==
  /\ pc = "capture" /\ link
  /\ Send(Frame("capture", turn, 0, "unbound", NoReply), "captureWait")
  /\ UNCHANGED <<auth, receipt, parent, link, card, reply, memory, inbox, unsure, bounds>>

Captured ==
  Answered("captureWait", "capture",
    /\ lease' = [turn |-> rep.turn, phase |-> "unbound", id |-> rep.id]
    /\ rep' = NoFrame /\ pc' = "prepare"
    /\ UNCHANGED <<auth, receipt, parent, link, req, card, reply, turn, stream, outcome, retry, inbox,
                   unsure, bounds>>)

\* prepare() and begin() of the card's store, which refuses to drop an open card.
Prepare ==
  /\ pc = "prepare"
  /\ IF card.readable /\ ~Recoverable(card)
     THEN /\ card' = [NoCard EXCEPT !.turn = turn]
          /\ pc' = "bind"
          /\ UNCHANGED <<auth, receipt, parent, channel, reply, memory, inbox, unsure, bounds>>
     ELSE Exit /\ UNCHANGED bounds

BindCheckpoint ==
  /\ pc = "bind" /\ link
  /\ Send(Frame("bind", lease.turn, lease.id, "unbound", NoReply), "bindWait")
  /\ UNCHANGED <<auth, receipt, parent, link, card, reply, memory, inbox, unsure, bounds>>

Bound ==
  Answered("bindWait", "bind",
    /\ lease' = [lease EXCEPT !.phase = "bound"]
    /\ rep' = NoFrame /\ pc' = IF turn \in Voice THEN "ingress" ELSE "start"
    /\ UNCHANGED <<auth, receipt, parent, link, req, card, reply, turn, stream, outcome, retry, inbox,
                   unsure, bounds>>)

\* The message is downloaded and transcribed.  Without a text, and when that
\* throws, cancel() and fail() close the card, which was never shown.
Ingress ==
  /\ pc = "ingress"
  /\ \/ pc' = "start" /\ UNCHANGED <<card, outcome>>
     \/ /\ card' = [card EXCEPT !.phase = "terminal", !.delivery = "delivered"]
        /\ pc' = "release" /\ outcome' = "cancelled"
  /\ UNCHANGED <<auth, receipt, parent, channel, reply, turn, lease, stream, retry, inbox, unsure,
                 bounds>>

\* start(): the card is sent and its message id saved; then the runner is built.
Start ==
  /\ pc = "start"
  /\ \/ /\ card' = [card EXCEPT !.phase = "bound", !.delivery = "delivered", !.message = TRUE]
        /\ pc' = "work"
        /\ UNCHANGED <<auth, receipt, parent, channel, reply, memory, inbox, unsure, bounds>>
     \/ Fault /\ Exit

\* handle() and the heartbeat: the card is edited; a failure is swallowed.
EditCard ==
  /\ pc = "work"
  /\ \E d \in {"pending", "delivered"} : card' = [card EXCEPT !.delivery = d]
  /\ UNCHANGED <<auth, receipt, parent, channel, reply, pc, memory, inbox, unsure, bounds>>
-----------------------------------------------------------------------------
(***************************************************************************)
(* The reply stream.  Its memory: "new" before a message exists, "open"    *)
(* with one, "refused" when begin() found another reply active, and        *)
(* "uncertain" after a Telegram request that may have had its effect.      *)
(***************************************************************************)

SaveReply(phase, delivery, document) == reply' = Reply(turn, phase, delivery, document)

\* append() and the first part of flush(): the write that precedes the request.
Append ==
  /\ pc = "work"
  /\ \/ /\ stream = "new" /\ ~Active(reply)
        /\ SaveReply("prepared", "pending", "none")
        /\ pc' = "deltaSend" /\ UNCHANGED stream
     \/ /\ stream = "new" /\ Active(reply)
        /\ stream' = "refused" /\ UNCHANGED <<reply, pc>>
     \/ /\ stream = "open"
        /\ SaveReply("bound", "pending", "none")
        /\ pc' = "deltaEdit" /\ UNCHANGED stream
  /\ UNCHANGED <<auth, receipt, parent, channel, card, turn, lease, outcome, retry, inbox, unsure, bounds>>

\* The first message of the reply is sent.
SendText ==
  /\ pc \in {"deltaSend", "finalSend"}
  /\ unsure' = unsure \cup {turn}
  /\ \/ pc' = (IF pc = "deltaSend" THEN "deltaSent" ELSE "finalSent") /\ UNCHANGED <<stream, bounds>>
     \/ Fault /\ stream' = "uncertain" /\ pc' = (IF pc = "deltaSend" THEN "work" ELSE "finalized")
  /\ UNCHANGED <<auth, receipt, parent, channel, card, reply, turn, lease, outcome, retry, inbox>>

\* Its id is saved.
SaveText ==
  /\ pc = "deltaSent"
  /\ SaveReply("bound", "delivered", "none")
  /\ unsure' = unsure \ {turn} /\ stream' = "open" /\ pc' = "work"
  /\ UNCHANGED <<auth, receipt, parent, channel, card, turn, lease, outcome, retry, inbox, bounds>>

EditText ==
  /\ pc = "deltaEdit" /\ pc' = "work"
  /\ \/ SaveReply("bound", "delivered", "none") /\ UNCHANGED <<stream, bounds>>
     \/ Fault /\ stream' = "uncertain" /\ UNCHANGED reply
  /\ UNCHANGED <<auth, receipt, parent, channel, card, turn, lease, outcome, retry, inbox, unsure>>
-----------------------------------------------------------------------------
(***************************************************************************)
(* The end of the turn.                                                    *)
(***************************************************************************)

\* The run returns a reply, returns stopped or capped by the budget, or throws.
\* complete() and fail() first write that the card is being closed.
EndWork ==
  /\ pc = "work"
  /\ outcome' \in {"reply", "stopped", "failed"}
  /\ card' = [card EXCEPT !.phase = "terminal", !.delivery = "pending"]
  /\ pc' = "close"
  /\ UNCHANGED <<auth, receipt, parent, channel, reply, turn, lease, stream, retry, inbox, unsure,
                 bounds>>

\* Mutant of CloseCard: a card that could not be delivered does not stop the turn.
CloseCardAnyway ==
  /\ pc = "close"
  /\ pc' = IF outcome = "reply" THEN "finalize" ELSE "release"
  /\ \/ card' = [card EXCEPT !.delivery = "delivered"] /\ UNCHANGED bounds
     \/ Fault /\ UNCHANGED card
  /\ UNCHANGED <<auth, receipt, parent, channel, reply, memory, inbox, unsure>>

CloseCard ==
  /\ pc = "close"
  /\ \/ /\ card' = [card EXCEPT !.delivery = "delivered"]
        /\ pc' = IF outcome = "reply" THEN "finalize" ELSE "release"
        /\ UNCHANGED <<auth, receipt, parent, channel, reply, memory, inbox, unsure, bounds>>
     \/ Fault /\ Exit

AfterText(document) == pc' = IF document = "pending" THEN "document" ELSE "finalized"

\* performFinalize(), up to the first Telegram request.  An edit that changes
\* nothing is skipped.
Finalize ==
  /\ pc = "finalize"
  /\ \/ /\ stream \in {"new", "refused"} /\ ~Active(reply)
        /\ SaveReply("prepared", "pending", "none")
        /\ pc' = "finalSend"
        /\ UNCHANGED <<auth, receipt, parent, channel, card, memory, inbox, unsure, bounds>>
     \/ /\ stream = "open"
        /\ \E d \in {"none", "pending"} :
             \/ SaveReply("terminal", "pending", d) /\ pc' = "finalEdit"
             \/ SaveReply("terminal", "delivered", d) /\ AfterText(d)
        /\ UNCHANGED <<auth, receipt, parent, channel, card, memory, inbox, unsure, bounds>>
     \/ /\ stream = "uncertain" \/ (stream # "open" /\ Active(reply))
        /\ Exit /\ UNCHANGED bounds

SaveFinalText ==
  /\ pc = "finalSent"
  /\ \E d \in {"none", "pending"} : SaveReply("terminal", "delivered", d) /\ AfterText(d)
  /\ unsure' = unsure \ {turn} /\ stream' = "open"
  /\ UNCHANGED <<auth, receipt, parent, channel, card, turn, lease, outcome, retry, inbox, bounds>>

EditFinalText ==
  /\ pc = "finalEdit"
  /\ \/ /\ SaveReply("terminal", "delivered", reply.document) /\ AfterText(reply.document)
        /\ UNCHANGED <<stream, bounds>>
     \/ Fault /\ stream' = "uncertain" /\ pc' = "finalized" /\ UNCHANGED reply
  /\ UNCHANGED <<auth, receipt, parent, channel, card, turn, lease, outcome, retry, inbox, unsure>>

SendDocument ==
  /\ pc = "document" /\ pc' = "finalized"
  /\ \/ SaveReply("terminal", "delivered", "delivered") /\ UNCHANGED <<stream, bounds>>
     \/ Fault /\ stream' = "uncertain" /\ UNCHANGED reply
  /\ UNCHANGED <<auth, receipt, parent, channel, card, turn, lease, outcome, retry, inbox, unsure>>

\* finalizeWithReceipt() returned.  Only a delivery that the checkpoint on disk
\* confirms lets go of the authority.
Confirmed == stream # "uncertain" /\ reply.turn = turn /\ ~Active(reply)

ReleaseDurably ==
  /\ pc = "finalized"
  /\ \/ /\ Confirmed /\ link
        /\ Send(Frame("release-durable", lease.turn, lease.id, "unbound", reply), "durableWait")
        /\ UNCHANGED <<auth, receipt, parent, link, card, reply, memory, inbox, unsure, bounds>>
     \/ ~Confirmed /\ Exit /\ UNCHANGED bounds

\* retireTurn() and consumeReleaseReceipt()
ConsumeReceipt ==
  Answered("durableWait", "release-durable",
    /\ lease' = NoLease
    /\ Send(Frame("consume", 0, 0, "unbound", rep.evidence), "consumeWait")
    /\ UNCHANGED <<auth, receipt, parent, link, card, reply, turn, stream, outcome, retry, inbox, unsure,
                   bounds>>)

EndTurn ==
  /\ rep' = NoFrame /\ pc' = "idle" /\ Forget
  /\ seen' = IF turn \in Voice THEN turn ELSE seen
  /\ retry' = IF outcome = "failed" /\ turn \notin Voice THEN turn ELSE retry
  /\ UNCHANGED <<auth, receipt, parent, link, req, card, reply, acked, unsure, bounds>>

Consumed == Answered("consumeWait", "consume", EndTurn)

\* release() of a turn that was cancelled, stopped or failed.
Release ==
  /\ pc = "release" /\ link
  /\ Send(ReleaseFrame, "releaseWait")
  /\ UNCHANGED <<auth, receipt, parent, link, card, reply, memory, inbox, unsure, bounds>>

\* The panel of a capped turn cannot be sent: the turn fails, and its card is
\* closed once more.
PanelFailed ==
  /\ pc = "release" /\ outcome = "stopped" /\ Fault
  /\ outcome' = "failed" /\ pc' = "close"
  /\ card' = [card EXCEPT !.delivery = "pending"]
  /\ UNCHANGED <<auth, receipt, parent, channel, reply, turn, lease, stream, retry, inbox, unsure>>

Released == Answered("releaseWait", "release", EndTurn)

\* The operator taps the retry button under the card of a failed text: runTurn()
\* without the update's authority.
TapRetry ==
  /\ pc = "idle" /\ retry # 0
  /\ turn' = retry /\ retry' = 0 /\ pc' = "retry"
  /\ UNCHANGED <<auth, receipt, parent, channel, card, reply, lease, stream, outcome, inbox, unsure,
                 bounds>>

\* No lease is captured and no card prepared; the supervised runner is built from a
\* held lease only, so that runTurn() throws and offers to retry again.
RetryTurn ==
  /\ pc = "retry"
  /\ retry' = turn /\ turn' = 0 /\ pc' = "idle"
  /\ UNCHANGED <<auth, receipt, parent, channel, card, reply, lease, stream, outcome, inbox, unsure,
                 bounds>>

\* A new build does not read the card of the old one.
Upgrade ==
  /\ pc = "dead" /\ Within(MaxUpgrades, upgrades) /\ card.turn # 0 /\ card.readable
  /\ card' = [card EXCEPT !.readable = FALSE]
  /\ upgrades' = upgrades + 1
  /\ UNCHANGED <<auth, receipt, parent, channel, reply, pc, memory, inbox, unsure, crashes, faults,
                 failures>>
-----------------------------------------------------------------------------
ParentStep == Handle \/ ParentStart \/ Spawn \/ NoticeExit
BootStep ==
  \/ Hello \/ Recovered \/ ConsumedAtBoot \/ DiscardCard \/ BootUnleased \/ BootLeased
  \/ RecoverSend \/ BootRelease \/ ReleasedAtBoot
TurnStep ==
  \/ CaptureTurn \/ Captured \/ Prepare \/ BindCheckpoint \/ Bound \/ Ingress \/ Start
  \/ SendText \/ SaveText \/ EditText \/ CloseCard \/ Finalize \/ SaveFinalText \/ EditFinalText
  \/ SendDocument \/ ReleaseDurably \/ ConsumeReceipt \/ Consumed \/ Release \/ Released
  \/ PanelFailed \/ RetryTurn
WorkStep == EditCard \/ Append \/ EndWork
Accident == ParentCrash \/ ChildCrash \/ Timeout \/ Upgrade \/ OperatorRestart

Next ==
  \/ ParentStep \/ BootStep \/ TurnStep \/ WorkStep \/ Accident
  \/ ChildLost \/ Receive \/ TapRetry \/ Acknowledge

Spec == Init /\ [][Next]_vars

\* Both processes keep running, a child that lost its channel ends, messages are
\* fetched, and every provider run returns.
Fairness ==
  /\ WF_vars(ParentStep) /\ WF_vars(BootStep \/ TurnStep) /\ WF_vars(ChildLost)
  /\ WF_vars(Receive) /\ WF_vars(Acknowledge) /\ SF_vars(EndWork)

FairSpec == Spec /\ Fairness
-----------------------------------------------------------------------------
(***************************************************************************)
(* Properties.                                                             *)
(***************************************************************************)

\* Every variable has its type: state records, frames and checkpoints have the
\* shape of the code's types.
TypeOK ==
  /\ auth \in AuthType /\ receipt \in ReplyType
  /\ parent \in {"down", "ready", "serving", "closing", "broken"} /\ link \in BOOLEAN
  /\ req \in FrameType(Requests \cup {"none"})
  /\ rep \in FrameType(Requests \cup {"none", "refusal"})
  /\ card \in CardType /\ reply \in ReplyType
  /\ pc \in Waiting \cup
       {"dead", "hello", "boot", "recoverSend", "bootRelease", "idle", "capture", "prepare", "bind",
        "ingress", "start", "work", "deltaSend", "deltaSent", "deltaEdit", "close", "finalize",
        "finalSend", "finalSent", "finalEdit", "document", "finalized", "release",
        "retry"}
  /\ turn \in 0..MaxTurns /\ lease \in LeaseType
  /\ stream \in {"new", "open", "refused", "uncertain"}
  /\ outcome \in {"none", "reply", "stopped", "failed", "cancelled"} /\ retry \in 0..MaxTurns
  /\ seen \in 0..MaxTurns /\ acked \in 0..MaxTurns
  /\ unsure \subseteq Turns
  /\ crashes \in 0..MaxCrashes /\ faults \in 0..MaxFaults
  /\ failures \in 0..MaxPublish /\ upgrades \in 0..MaxUpgrades

\* A lease that the child may still use is the supervisor's durable authority,
\* under the same id and at least as far bound, whatever was lost, refused or
\* published halfway: only the answer to its own release may lag behind.
LeaseIsAuthority ==
  lease.turn # 0 /\ pc \notin {"releaseWait", "releaseBoot", "durableWait"} =>
    /\ auth.turn = lease.turn /\ auth.id = lease.id
    /\ lease.phase = "bound" => auth.phase = "bound"

\* The supervisor never refuses what its child asks, in whichever order the two
\* were stopped and started before: no capture finds an authority or a receipt
\* left over, no bind or release another lease.
NothingIsRefused ==
  rep.type # "refusal"

\* A card that is not closed belongs to the turn that has the authority, so a
\* restarted child can always close it; without an authority no card is open
\* and the boot without a lease never refuses.
OpenCardIsOwned ==
  Recoverable(card) => auth.turn = card.turn

\* A bound authority has its card on disk: as long as no card was moved aside, the
\* recovery never meets checkpoint-bound with a missing or a foreign card.
BoundCardExists ==
  upgrades = 0 /\ auth.turn # 0 /\ auth.phase = "bound" => card.turn = auth.turn

\* An unconsumed receipt comes with the delivered reply that it covers, and with
\* no authority: recoverDurableTelegramReplyRelease() finds its evidence.
ReceiptHasEvidence ==
  receipt.turn # 0 => auth.turn = 0 /\ reply = receipt /\ ~Active(reply)

\* The child downloads, shows, works and replies only while the supervisor
\* durably holds the turn as checkpoint-bound.
EffectsNeedBoundAuthority ==
  pc \in {"ingress", "start", "work", "deltaSend", "deltaSent", "deltaEdit", "close", "finalize",
          "finalSend", "finalSent", "finalEdit", "document"} =>
    auth.turn = turn /\ auth.phase = "bound" /\ ~auth.leased

\* A turn whose first reply message may have been sent without a durable
\* confirmation never comes to send one again, in this process or in a later one
\* that was delivered the same message.
NoBlindResend ==
  pc \in {"deltaSend", "finalSend"} => turn \notin unsure

\* The supervisor could not publish its state, or an upgrade cannot read the card: both end in
\* an operator's hands.
NeedsOperator == failures > 0 \/ upgrades > 0

\* A checkpoint-bound authority is eventually released, by the turn or by the
\* recovery of a restarted child, whichever checkpoint writes, frames and Telegram
\* requests were lost.
BoundTurnIsReleased ==
  auth.turn # 0 /\ auth.phase = "bound" ~> auth.turn = 0 \/ NeedsOperator

\* A durable release is eventually acknowledged: its receipt is consumed by the
\* child or, after a crash between release and consume, by the next boot.
ReceiptIsConsumed ==
  receipt.turn # 0 ~> receipt.turn = 0 \/ NeedsOperator

\* A captured turn, bound or not, is eventually released.  "captured-unbound +
\* missing" may be released and a crash before the first checkpoint is told apart
\* from a lost one (docs/specs/02-gateway-connectivity.md:307).
CapturedTurnIsReleased ==
  auth.turn # 0 ~> auth.turn = 0

\* The final reply of a turn is published by its checkpoint
\* (docs/specs/19-durable-subagent-resume.md:312).
FinalReplyIsPublished ==
  \A t \in Turns : pc = "finalize" /\ turn = t ~> reply.turn = t /\ ~Active(reply)

\* A tap on the retry button runs the failed turn again
\* (docs/specs/02-gateway-connectivity.md:1483).
RetryIsServed ==
  \A t \in Turns : pc = "retry" /\ turn = t ~> pc = "work" /\ turn = t

\* Whatever was stopped, lost or started again, a restarted child finds its way:
\* the leases agree with the authority, an open card and a bound authority belong
\* together, and a receipt comes with its evidence.
OwnershipIsConsistent ==
  TypeOK /\ LeaseIsAuthority /\ OpenCardIsOwned /\ BoundCardExists /\ ReceiptHasEvidence

\* No effect outside a bound authority, no second first message, and nothing the
\* child asks is refused.
EffectsAreAuthorized == EffectsNeedBoundAuthority /\ NoBlindResend /\ NothingIsRefused

\* Every bound turn is released and every receipt consumed in the end.
TurnIsReleased == BoundTurnIsReleased /\ ReceiptIsConsumed
=============================================================================
