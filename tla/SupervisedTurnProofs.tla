------------------------ MODULE SupervisedTurnProofs ------------------------
(***************************************************************************)
(* Proofs about SupervisedTurn for any number of turns, lease ids, crashes *)
(* and faults, any set of voice messages and any order of stops, starts    *)
(* and lost frames.                                                        *)
(***************************************************************************)
EXTENDS SupervisedTurn, TLAPS

Working == {"ingress", "start", "work", "deltaSend", "deltaSent", "deltaEdit", "close"}
Ending == {"finalize", "finalSend", "finalSent", "finalEdit", "document", "finalized", "release"}
Resting == {"idle", "capture", "retry"}

\* The request that the child awaits the answer of.
RequestOf(p) ==
  IF p = "helloWait" THEN "recovery"
  ELSE IF p \in {"consumeBoot", "consumeWait"} THEN "consume"
  ELSE IF p \in {"releaseBoot", "releaseWait"} THEN "release"
  ELSE IF p = "captureWait" THEN "capture"
  ELSE IF p = "bindWait" THEN "bind" ELSE "release-durable"

\* The authority is held under the lease.
Holds(l) == l.turn # 0 /\ auth.turn = l.turn /\ auth.id = l.id

\* The channel: frames exist only between a serving parent and its child, one at a time; a child
\* that awaits nothing has none in flight, and one that waits has its own request or its answer.
ChannelInv ==
  /\ link = (parent = "serving")
  /\ parent = "ready" => pc = "dead"
  /\ ~link => req = NoFrame /\ rep = NoFrame
  /\ req = NoFrame \/ (rep = NoFrame /\ req.type \in Requests)
  /\ rep = NoFrame \/ rep.type \in Requests
  /\ pc \notin Waiting \cup {"dead"} => req = NoFrame /\ rep = NoFrame
  /\ pc \in Waiting => /\ req # NoFrame => req.type = RequestOf(pc)
                       /\ rep # NoFrame => rep.type = RequestOf(pc)
  /\ pc = "captureWait" => /\ req # NoFrame => req.turn = turn
                           /\ rep # NoFrame => rep.turn = turn

\* A request in flight, even one whose child is gone, is one that the parent will grant.
RequestInv ==
  /\ req.type = "capture" =>
       auth.turn = 0 /\ receipt.turn = 0 /\ req.turn # 0 /\ ~Recoverable(card)
  /\ req.type = "bind" =>
       /\ Holds(req) /\ auth.phase = "unbound" /\ ~auth.leased
       /\ upgrades = 0 => card.turn = req.turn
  /\ req.type = "release" => Holds(req) /\ ~Recoverable(card)
  /\ req.type = "release-durable" =>
       /\ Holds(req) /\ ~Recoverable(card)
       /\ req.evidence = reply /\ reply.turn # 0 /\ ~Active(reply)
  /\ req.type = "consume" => auth.turn = 0 /\ receipt.turn # 0 /\ receipt = req.evidence

\* An answer in flight tells what the parent has on disk.
AnswerInv ==
  /\ rep.type = "recovery" =>
       IF rep.turn # 0
       THEN Holds(rep) /\ auth.phase = rep.phase /\ rep.evidence.turn = 0
       ELSE auth.turn = 0 /\ rep.evidence = receipt
  /\ rep.type = "capture" =>
       Holds(rep) /\ auth.phase = "unbound" /\ ~auth.leased /\ ~Recoverable(card)
  /\ rep.type = "bind" => auth.phase = "bound"
  /\ rep.type = "release" => auth.turn = 0 /\ receipt.turn = 0
  /\ rep.type = "release-durable" => auth.turn = 0 /\ receipt.turn # 0 /\ receipt = rep.evidence
  /\ rep.type = "consume" => auth.turn = 0 /\ receipt.turn = 0

\* Where the child is, and what it may rely on there.
ChildInv ==
  /\ pc \in {"dead", "hello", "helloWait", "consumeBoot"} => lease.turn = 0
  /\ pc \in {"dead", "hello", "helloWait", "consumeBoot", "boot", "recoverSend", "bootRelease",
             "releaseBoot", "idle"} => turn = 0 /\ stream = "new"
  /\ pc = "boot" => IF lease.turn = 0 THEN auth.turn = 0 /\ receipt.turn = 0
                    ELSE Holds(lease) /\ auth.phase = lease.phase
  /\ pc \in {"recoverSend", "bootRelease"} =>
       /\ Holds(lease) /\ auth.phase = lease.phase
       /\ pc = "recoverSend" => card.turn = lease.turn
       /\ pc = "bootRelease" => ~Recoverable(card)
  /\ pc \in Resting => auth.turn = 0 /\ receipt.turn = 0 /\ ~Recoverable(card)
  /\ pc \in Resting \cup {"captureWait", "consumeWait"} => lease.turn = 0
  /\ pc \in {"releaseBoot", "captureWait", "prepare", "releaseWait", "durableWait", "consumeWait"} =>
       ~Recoverable(card)
  /\ pc \in {"capture", "captureWait", "prepare", "retry"} => stream = "new"
  /\ pc \notin {"dead", "hello", "helloWait", "consumeBoot", "boot"} => card.readable
  /\ pc \in {"prepare", "bind", "bindWait"} =>
       /\ lease.turn = turn /\ lease.phase = "unbound" /\ Holds(lease) /\ ~auth.leased
       /\ stream = "new"
  /\ pc \in {"prepare", "bind"} => auth.phase = "unbound"
  /\ pc \in {"bind", "bindWait"} \cup Working \cup Ending => card.turn = turn
  /\ pc \in Working \cup Ending =>
       /\ lease.turn = turn /\ lease.phase = "bound"
       /\ Holds(lease) /\ auth.phase = "bound" /\ ~auth.leased
  /\ pc = "close" => card.phase = "terminal"
  /\ pc \in Ending => ~Recoverable(card) /\ card.phase = "terminal"
  /\ pc \in Waiting \ {"helloWait", "consumeBoot", "releaseBoot"} => turn # 0
  /\ pc \in {"capture", "retry"} => turn # 0

\* The reply stream: a first message that may have been sent and was not confirmed leaves the
\* reply's checkpoint prepared, and no other turn's reply is begun.
StreamInv ==
  /\ \A t \in unsure : reply.turn = t /\ reply.phase = "prepared"
  /\ stream = "open" => unsure = {}
  /\ pc \in {"deltaSend", "deltaSent", "finalSend", "finalSent"} =>
       reply.turn = turn /\ reply.phase = "prepared" /\ stream \in {"new", "refused"}
  /\ pc \in {"deltaSend", "finalSend"} => unsure = {}
  /\ pc \in {"deltaEdit", "finalEdit", "document"} => stream = "open"

\* The three stores: an open card is owned, a bound authority has its card unless one was moved
\* aside, and a receipt comes with its evidence.
StoresInv ==
  /\ OpenCardIsOwned /\ BoundCardExists /\ ReceiptHasEvidence
  /\ ~card.readable => upgrades > 0

Inv ==
  /\ TypeOK /\ ChannelInv /\ RequestInv /\ AnswerInv /\ ChildInv /\ StreamInv /\ StoresInv

-----------------------------------------------------------------------------
\* An accident is counted within its bound.
LEMMA FaultStep == ASSUME TypeOK, Fault PROVE bounds' \in (0..MaxCrashes) \X (0..MaxFaults) \X (0..MaxPublish) \X (0..MaxUpgrades) /\ upgrades' = upgrades
  BY SupervisedBounds DEF TypeOK, Fault, Within, bounds

\* The empty values have their types, and no turn.
LEMMA EmptyValues ==
  /\ NoAuth \in AuthType /\ NoAuth.turn = 0 /\ NoLease \in LeaseType /\ NoLease.turn = 0
  /\ NoCard \in CardType /\ NoCard.turn = 0 /\ NoCard.readable
  /\ NoReply \in ReplyType /\ NoReply.turn = 0 /\ 0 \in 0..MaxTurns
  BY SupervisedBounds DEF NoAuth, AuthType, NoLease, LeaseType, NoCard, CardType, NoReply, Reply, ReplyType,
     Phases

LEMMA EmptyFrame ==
  NoFrame \in FrameType(Requests \cup {"none"}) /\ NoFrame \in FrameType(Requests \cup {"none", "refusal"})
  BY EmptyValues, SupervisedBounds DEF NoFrame, Frame, FrameType, Phases

\* A step that leaves the three stores alone.
LEMMA StoresKept == ASSUME Inv, UNCHANGED <<auth, receipt, card, reply, upgrades>> PROVE StoresInv'
  BY Zenon DEF Inv, StoresInv, OpenCardIsOwned, BoundCardExists, ReceiptHasEvidence, Recoverable, Active

LEMMA ChildKept ==
  ASSUME ChildInv, UNCHANGED <<pc, lease, turn, stream, auth, receipt, card>>
  PROVE  ChildInv'
  BY ZenonT(60) DEF ChildInv, Holds, Recoverable

\* Init establishes the invariant.
LEMMA InitInv == Init => Inv
<1> SUFFICES ASSUME Init PROVE Inv
  BY Zenon DEF Init
<1>1. TypeOK
  <2>1. 0 \in 0..MaxCrashes /\ 0 \in 0..MaxFaults /\ 0 \in 0..MaxPublish /\ 0 \in 0..MaxUpgrades
    BY SupervisedBounds
  <2> QED
    BY Zenon, <2>1, EmptyValues, EmptyFrame DEF Init, TypeOK, Waiting
<1>2. ChannelInv
  BY Zenon DEF Init, ChannelInv, Waiting
<1>3. RequestInv /\ AnswerInv
  BY Zenon DEF Init, RequestInv, AnswerInv, NoFrame, Frame
<1>4. ChildInv
  BY Zenon DEF Init, ChildInv, NoLease, Waiting, Working, Ending, Resting
<1>5. StreamInv
  BY Zenon DEF Init, StreamInv
<1>6. StoresInv
  BY Zenon DEF Init, StoresInv, OpenCardIsOwned, BoundCardExists, ReceiptHasEvidence, NoReply, Reply, NoAuth,
     NoCard, Recoverable
<1> QED
  BY <1>1, <1>2, <1>3, <1>4, <1>5, <1>6 DEF Init, Inv

\* A step after which no frame is in flight and the child awaits none.
LEMMA SilentStep ==
  ASSUME Inv, pc # "dead", pc' \notin Waiting \cup {"dead"},
         req' = NoFrame, rep' = NoFrame, UNCHANGED <<parent, link>>
  PROVE  ChannelInv' /\ RequestInv' /\ AnswerInv'
<1>1. ChannelInv'
  BY Zenon DEF Inv, ChannelInv, Waiting
<1>2. RequestInv' /\ AnswerInv'
  BY Zenon DEF RequestInv, AnswerInv, NoFrame, Frame
<1> QED
  BY <1>1, <1>2

\* A step of a child that awaits nothing and sends nothing.
LEMMA QuietStep ==
  ASSUME Inv, pc \notin Waiting \cup {"dead"}, pc' \notin Waiting \cup {"dead"},
         UNCHANGED <<parent, channel>>
  PROVE  ChannelInv' /\ RequestInv' /\ AnswerInv'
<1>1. req' = NoFrame /\ rep' = NoFrame /\ UNCHANGED <<parent, link>>
  BY Zenon DEF Inv, ChannelInv, channel
<1> QED
  BY Zenon, <1>1, SilentStep

\* A step that sends a request, and then awaits its answer.
LEMMA SendStep ==
  ASSUME Inv, NEW f, NEW wait \in Waiting, Send(f, wait), link, UNCHANGED <<parent, link>>,
         f # NoFrame, f.type \in Requests, f.type = RequestOf(wait),
         wait = "captureWait" => f.turn = turn'
  PROVE  ChannelInv' /\ AnswerInv'
<1>1. ChannelInv'
  BY Zenon DEF Inv, ChannelInv, Waiting, Send
<1>2. AnswerInv'
  BY Zenon DEF AnswerInv, NoFrame, Frame, Send
<1> QED
  BY <1>1, <1>2

\* The child ends: its memory is gone, and what is in flight stays so.
LEMMA ExitStep ==
  ASSUME Inv, Exit, upgrades' = upgrades,
         bounds' \in (0..MaxCrashes) \X (0..MaxFaults) \X (0..MaxPublish) \X (0..MaxUpgrades)
  PROVE  Inv'
<1>0. /\ crashes' \in 0..MaxCrashes /\ faults' \in 0..MaxFaults
      /\ failures' \in 0..MaxPublish /\ upgrades' \in 0..MaxUpgrades
  BY DEF bounds
<1>1. TypeOK'
  BY Zenon, EmptyValues, <1>0 DEF Exit, Forget, channel, Inv, TypeOK
<1>2. ChannelInv'
  BY Zenon DEF Exit, Forget, channel, Inv, ChannelInv, Waiting
<1>3. RequestInv' /\ AnswerInv'
  BY Zenon DEF Exit, Forget, channel, Inv, RequestInv, AnswerInv, Holds, Recoverable, Active
<1>4. ChildInv'
  BY Zenon DEF Exit, Forget, channel, Inv, ChildInv, NoLease, Waiting, Working, Ending, Resting
<1>5. StreamInv'
  BY Zenon DEF Exit, Forget, channel, Inv, StreamInv
<1>6. StoresInv'
  BY Zenon DEF Exit, Forget, channel, Inv, StoresInv, OpenCardIsOwned, BoundCardExists, ReceiptHasEvidence,
     Recoverable, Active
<1> QED
  BY <1>1, <1>2, <1>3, <1>4, <1>5, <1>6 DEF Inv

LEMMA ExitKeepingBounds == ASSUME Inv, Exit, UNCHANGED bounds PROVE Inv'
  BY Zenon, ExitStep DEF bounds, Inv, TypeOK

LEMMA FaultyExit == ASSUME Inv, Exit, Fault PROVE Inv'
  BY Zenon, ExitStep, FaultStep DEF Inv
-----------------------------------------------------------------------------
\* The parent's steps beside its handler.

LEMMA ParentStartStep == ASSUME Inv, ParentStart PROVE Inv'
<1>1. TypeOK'
  BY Zenon DEF ParentStart, channel, memory, inbox, bounds, Inv, TypeOK
<1>2. ChannelInv'
  BY Zenon DEF ParentStart, channel, memory, inbox, bounds, Inv, ChannelInv, Waiting
<1>3. RequestInv' /\ AnswerInv'
  BY Zenon DEF ParentStart, channel, memory, inbox, bounds, Inv, RequestInv, AnswerInv, Holds, Recoverable,
     Active
<1>4. ChildInv' /\ StreamInv'
  BY Zenon DEF ParentStart, channel, memory, inbox, bounds, Inv, ChildInv, StreamInv, NoLease, Waiting,
     Working, Ending, Resting
<1>5. StoresInv'
  BY Zenon DEF ParentStart, channel, memory, inbox, bounds, Inv, StoresInv, OpenCardIsOwned, BoundCardExists,
     ReceiptHasEvidence, Recoverable, Active
<1> QED
  BY <1>1, <1>2, <1>3, <1>4, <1>5 DEF Inv

LEMMA SpawnStep == ASSUME Inv, Spawn PROVE Inv'
<1>0. pc = "dead" /\ req = NoFrame /\ rep = NoFrame
  BY Zenon DEF Spawn, memory, inbox, bounds, Inv, ChannelInv
<1>1. TypeOK'
  BY Zenon DEF Spawn, memory, inbox, bounds, Inv, TypeOK
<1>2. ChannelInv'
  BY Zenon, <1>0 DEF Spawn, memory, inbox, bounds, Inv, ChannelInv, Waiting
<1>3. RequestInv' /\ AnswerInv'
  BY Zenon, <1>0 DEF Spawn, memory, inbox, bounds, Inv, RequestInv, AnswerInv, NoFrame, Frame
<1>4. ChildInv' /\ StreamInv'
  BY Zenon, <1>0 DEF Spawn, memory, inbox, bounds, Inv, ChildInv, StreamInv, NoLease, Waiting, Working, Ending,
     Resting
<1>5. StoresInv'
  BY Zenon DEF Spawn, memory, inbox, bounds, Inv, StoresInv, OpenCardIsOwned, BoundCardExists,
     ReceiptHasEvidence, Recoverable, Active
<1> QED
  BY <1>1, <1>2, <1>3, <1>4, <1>5 DEF Inv

\* The parent loses or drops its channel: what was in flight is gone.
LEMMA DropStep ==
  ASSUME Inv, UNCHANGED <<auth, receipt, card, reply, pc, memory, inbox, unsure, upgrades>>,
         parent' \in {"ready", "down", "closing", "broken"}, parent' = "ready" => pc = "dead",
         link' = FALSE, req' = NoFrame, rep' = NoFrame,
         bounds' \in (0..MaxCrashes) \X (0..MaxFaults) \X (0..MaxPublish) \X (0..MaxUpgrades)
  PROVE  Inv'
<1>1. TypeOK'
  <2>1. /\ crashes' \in 0..MaxCrashes /\ faults' \in 0..MaxFaults
        /\ failures' \in 0..MaxPublish /\ upgrades' \in 0..MaxUpgrades
    BY DEF memory, inbox, Inv, bounds
  <2>2. /\ auth' \in AuthType /\ receipt' \in ReplyType /\ card' \in CardType /\ reply' \in ReplyType
        /\ parent' \in {"down", "ready", "serving", "closing", "broken"} /\ link' \in BOOLEAN
    BY Zenon DEF memory, inbox, Inv, TypeOK
  <2> QED
    BY ZenonT(60), EmptyFrame, <2>1, <2>2 DEF memory, inbox, Inv, TypeOK
<1>2. ChannelInv'
  BY Zenon DEF memory, inbox, Inv, ChannelInv, Waiting
<1>3. RequestInv' /\ AnswerInv'
  BY Zenon DEF memory, inbox, Inv, RequestInv, AnswerInv, NoFrame, Frame
<1>4. ChildInv'
  BY DEF memory, Inv, ChildInv, Holds
<1>5. StreamInv'
  BY Zenon DEF memory, inbox, Inv, StreamInv
<1>6. StoresInv'
  BY Zenon DEF memory, inbox, Inv, StoresInv, OpenCardIsOwned, BoundCardExists, ReceiptHasEvidence,
     Recoverable, Active
<1> QED
  BY <1>1, <1>2, <1>3, <1>4, <1>5, <1>6 DEF Inv

LEMMA NoticeExitStep == ASSUME Inv, NoticeExit PROVE Inv'
  BY Zenon, DropStep DEF NoticeExit, bounds, Inv, TypeOK

LEMMA OperatorRestartStep == ASSUME Inv, OperatorRestart PROVE Inv'
<1>1. link' = FALSE
  BY Zenon DEF OperatorRestart, Inv, TypeOK, ChannelInv
<1> QED
  BY Zenon, <1>1, DropStep DEF OperatorRestart, bounds, Inv, TypeOK

LEMMA ParentCrashStep == ASSUME Inv, ParentCrash PROVE Inv'
<1>1. crashes' \in 0..MaxCrashes
  BY SupervisedBounds DEF ParentCrash, Within, Inv, TypeOK
<1> QED
  BY Zenon, <1>1, DropStep DEF ParentCrash, bounds, Inv, TypeOK
-----------------------------------------------------------------------------
\* The parent's handler.

\* FreshId exists and is not the id in use.
LEMMA FreshIdIsNew == ASSUME TypeOK PROVE FreshId \in Ids /\ FreshId # auth.id
<1>1. auth.id \in Ids \cup {0}
  BY Zenon DEF TypeOK, AuthType
<1>2. \E i \in Ids : i # auth.id
  BY <1>1, SupervisedBounds
<1> QED
  BY <1>2 DEF FreshId

\* A publication that fails before the replacement only drops the channel; after it, and when it
\* succeeds, the stores agree if the new state does.
LEMMA PublishStep ==
  ASSUME Inv, NEW a \in AuthType, NEW r \in ReplyType, NEW answer \in FrameType(Requests),
         parent = "serving", req # NoFrame, req' = NoFrame, Publish(a, r, answer),
         UNCHANGED <<card, reply, pc, memory, inbox, unsure>>,
         answer.type = req.type, req.type = "capture" => answer.turn = req.turn,
         auth' = a /\ receipt' = r /\ upgrades' = upgrades => ChildInv' /\ StoresInv',
         auth' = a /\ receipt' = r /\ rep' = answer => AnswerInv'
  PROVE  Inv'
<1>a. CASE auth' = a /\ receipt' = r /\ rep' = answer /\ UNCHANGED <<parent, link, bounds>>
  <2>1. TypeOK'
    <3>1. answer \in FrameType(Requests \cup {"none", "refusal"})
      BY DEF FrameType
    <3> QED
      BY <1>a, EmptyFrame, <3>1 DEF Inv, TypeOK, memory, inbox, bounds
  <2>2. ChannelInv'
    <3>1. req.type \in Requests
      BY Zenon DEF Inv, ChannelInv
    <3> QED
      BY Zenon, <1>a, <3>1 DEF Inv, ChannelInv, memory, Waiting, RequestOf
  <2>3. RequestInv'
    BY Zenon DEF RequestInv, NoFrame, Frame
  <2>4. StreamInv'
    BY Zenon DEF Inv, StreamInv, memory
  <2> QED
    BY <1>a, <2>1, <2>2, <2>3, <2>4 DEF Inv, bounds
<1>b. CASE /\ Within(MaxPublish, failures) /\ failures' = failures + 1
           /\ rep' = NoFrame /\ link' = FALSE
           /\ \/ parent' = "closing" /\ UNCHANGED <<auth, receipt>>
              \/ parent' = "broken" /\ auth' = a /\ receipt' = r
           /\ UNCHANGED <<crashes, faults, upgrades>>
  <2>0. failures' \in 0..MaxPublish
    BY <1>b, SupervisedBounds DEF Inv, TypeOK, Within
  <2>1. CASE parent' = "closing" /\ UNCHANGED <<auth, receipt>>
    BY Zenon, <1>b, <2>0, <2>1, DropStep DEF Inv, TypeOK, bounds
  <2>2. CASE parent' = "broken" /\ auth' = a /\ receipt' = r
    <3>1. TypeOK'
      BY ZenonT(60), <1>b, EmptyFrame, <2>0, <2>2 DEF Inv, TypeOK, memory, inbox
    <3>2. ChannelInv'
      BY Zenon, <1>b, <2>2 DEF Inv, ChannelInv, Waiting
    <3>3. RequestInv' /\ AnswerInv'
      BY Zenon, <1>b DEF RequestInv, AnswerInv, NoFrame, Frame
    <3>4. StreamInv'
      BY Zenon DEF Inv, StreamInv, memory
    <3> QED
      BY <1>b, <2>2, <3>1, <3>2, <3>3, <3>4 DEF Inv
  <2> QED
    BY <1>b, <2>1, <2>2
<1> QED
  BY Zenon, <1>a, <1>b DEF Publish

LEMMA HandleRecoveryStep ==
  ASSUME Inv, Handle, req.type = "recovery" PROVE Inv'
<1>1. HandleRecovery
  BY DEF Handle, Inv
<1>2. CASE auth.turn # 0
  <2> DEFINE a == [auth EXCEPT !.id = FreshId, !.leased = TRUE]
             answer == Frame("recovery", auth.turn, FreshId, auth.phase, NoReply)
  <2>1. /\ a \in AuthType /\ a.turn = auth.turn /\ a.id = FreshId /\ a.phase = auth.phase
        /\ answer \in FrameType(Requests) /\ receipt \in ReplyType
    BY Zenon, EmptyValues, FreshIdIsNew DEF Handle, Inv, TypeOK, AuthType, Frame, FrameType, Requests, Phases
  <2>2. answer.type = "recovery" /\ answer.turn = auth.turn /\ answer.id = FreshId /\ answer.phase = auth.phase
        /\ answer.evidence = NoReply
    BY DEF Handle, Inv, Frame
  <2>3. Publish(a, receipt, answer)
    BY <1>1, <1>2 DEF Handle, Inv, HandleRecovery
  <2> HIDE DEF a, answer
  <2>4. ASSUME auth' = a, receipt' = receipt, upgrades' = upgrades PROVE ChildInv' /\ StoresInv'
    <3>1. ChildInv'
      BY Zenon, <2>4, <2>1 DEF Handle, Inv, ChannelInv, ChildInv, memory, Waiting, RequestOf, Holds,
         Recoverable, Working, Ending, Resting
    <3>2. StoresInv'
      BY Zenon, <2>4, <2>1 DEF Handle, Inv, StoresInv, OpenCardIsOwned, BoundCardExists, ReceiptHasEvidence,
         Recoverable, Active
    <3> QED
      BY <3>1, <3>2 DEF Inv
  <2>5. ASSUME auth' = a, receipt' = receipt, rep' = answer PROVE AnswerInv'
    BY <2>5, <1>2, <2>1, <2>2 DEF Handle, Inv, AnswerInv, Holds, NoReply, Reply
  <2> QED
    BY Zenon, <2>1, <2>2, <2>3, <2>4, <2>5, PublishStep DEF Handle, Inv
<1>3. CASE auth.turn = 0
  <2> DEFINE answer == Frame("recovery", 0, 0, "unbound", receipt)
  <2>1. rep' = answer /\ UNCHANGED <<auth, receipt, parent, link, bounds>>
    BY <1>1, <1>3 DEF Handle, Inv, HandleRecovery
  <2>2. answer \in FrameType(Requests) /\ receipt \in ReplyType /\ auth \in AuthType
    BY SupervisedBounds DEF Handle, Inv, TypeOK, Frame, FrameType, Requests, Phases
  <2>3. answer.type = "recovery" /\ answer.turn = 0 /\ answer.evidence = receipt
    BY DEF Handle, Inv, Frame
  <2> HIDE DEF answer
  <2>4. Publish(auth, receipt, answer)
    BY <2>1 DEF Handle, Inv, Publish
  <2>5. ChildInv' /\ StoresInv'
    <3>1. UNCHANGED <<card, pc, memory, bounds, auth, receipt>>
      BY Zenon, <2>1 DEF Handle
    <3>2. StoresInv'
      BY Zenon, <3>1, StoresKept DEF Handle, memory, bounds
    <3>3. ChildInv'
      BY Zenon, <3>1, ChildKept DEF memory, bounds, Inv
    <3> QED
      BY <3>2, <3>3
  <2>6. AnswerInv'
    BY Zenon, <1>3, <2>1, <2>3 DEF Handle, Inv, AnswerInv
  <2> QED
    BY Zenon, <2>2, <2>3, <2>4, <2>5, <2>6, PublishStep DEF Handle, Inv
<1> QED
  BY <1>2, <1>3 DEF Handle

LEMMA HandleCaptureStep == ASSUME Inv, Handle, req.type = "capture" PROVE Inv'
<1>1. HandleCapture /\ auth.turn = 0 /\ receipt.turn = 0 /\ req.turn # 0 /\ ~Recoverable(card)
  BY Zenon DEF Handle, Inv, RequestInv
<1> DEFINE a == [turn |-> req.turn, phase |-> "unbound", id |-> FreshId, leased |-> FALSE]
           answer == Frame("capture", req.turn, FreshId, "unbound", NoReply)
<1>2. /\ a \in AuthType /\ a.turn = req.turn /\ a.id = FreshId /\ a.phase = "unbound" /\ ~a.leased
      /\ answer \in FrameType(Requests) /\ receipt \in ReplyType
  BY Zenon, EmptyValues, FreshIdIsNew DEF Handle, Inv, TypeOK, AuthType, Frame, FrameType, Requests, Phases
<1>3. answer.type = "capture" /\ answer.turn = req.turn /\ answer.id = FreshId
  BY DEF Handle, Inv, Frame
<1>4. Publish(a, receipt, answer)
  BY <1>1 DEF Handle, Inv, HandleCapture
<1> HIDE DEF a, answer
<1>5. ASSUME auth' = a, receipt' = receipt, upgrades' = upgrades PROVE ChildInv' /\ StoresInv'
  <2>1. ChildInv'
    BY Zenon, <1>5, <1>2 DEF Handle, Inv, ChannelInv, ChildInv, memory, Waiting, RequestOf, Holds, Recoverable,
       Working, Ending, Resting
  <2>2. StoresInv'
    BY Zenon, <1>1, <1>5, <1>2 DEF Handle, Inv, StoresInv, OpenCardIsOwned, BoundCardExists,
       ReceiptHasEvidence, Recoverable, Active
  <2> QED
    BY <2>1, <2>2 DEF Inv
<1>6. ASSUME auth' = a, receipt' = receipt, rep' = answer PROVE AnswerInv'
  BY Zenon, <1>1, <1>2, <1>3, <1>6 DEF Handle, Inv, AnswerInv, Holds, Recoverable
<1> QED
  BY Zenon, <1>2, <1>3, <1>4, <1>5, <1>6, PublishStep DEF Handle, Inv

LEMMA HandleBindStep == ASSUME Inv, Handle, req.type = "bind" PROVE Inv'
<1>1. /\ HandleBind /\ Holds(req) /\ auth.phase = "unbound" /\ ~auth.leased
      /\ upgrades = 0 => card.turn = req.turn
  BY Zenon DEF Handle, Inv, RequestInv
<1> DEFINE a == [auth EXCEPT !.phase = "bound"]
<1>2. /\ a \in AuthType /\ a.turn = auth.turn /\ a.id = auth.id /\ a.phase = "bound" /\ ~a.leased
      /\ req \in FrameType(Requests) /\ receipt \in ReplyType
  BY Zenon, <1>1 DEF Handle, Inv, TypeOK, AuthType, FrameType, Requests, Phases
<1>3. Publish(a, receipt, req)
  BY <1>1 DEF Handle, Inv, HandleBind, Holds
<1> HIDE DEF a
<1>4. ASSUME auth' = a, receipt' = receipt, upgrades' = upgrades PROVE ChildInv' /\ StoresInv'
  <2>1. ChildInv'
    BY Zenon, <1>1, <1>2, <1>4 DEF Handle, Inv, ChannelInv, ChildInv, memory, Waiting, RequestOf, Holds,
       Recoverable, Working, Ending, Resting
  <2>2. StoresInv'
    BY Zenon, <1>1, <1>2, <1>4 DEF Handle, Inv, Holds, StoresInv, OpenCardIsOwned, BoundCardExists,
       ReceiptHasEvidence, Recoverable, Active
  <2> QED
    BY <2>1, <2>2 DEF Inv
<1>5. ASSUME auth' = a, receipt' = receipt, rep' = req PROVE AnswerInv'
  BY Zenon, <1>2, <1>5 DEF Handle, Inv, AnswerInv
<1> QED
  BY Zenon, <1>2, <1>3, <1>4, <1>5, PublishStep DEF Handle, Inv

LEMMA HandleReleaseStep == ASSUME Inv, Handle, req.type = "release" PROVE Inv'
<1>1. HandleRelease /\ Holds(req) /\ ~Recoverable(card) /\ receipt.turn = 0
  BY Zenon DEF Handle, Inv, RequestInv, StoresInv, ReceiptHasEvidence, Holds
<1>2. /\ NoAuth \in AuthType /\ NoAuth.turn = 0 /\ req \in FrameType(Requests) /\ receipt \in ReplyType
  BY EmptyValues DEF Inv, TypeOK, FrameType, Requests
<1>3. Publish(NoAuth, receipt, req)
  BY <1>1 DEF Handle, Inv, HandleRelease, Holds
<1>4. ASSUME auth' = NoAuth, receipt' = receipt, upgrades' = upgrades PROVE ChildInv' /\ StoresInv'
  <2>1. ChildInv'
    BY Zenon, <1>1, <1>2, <1>4 DEF Handle, Inv, ChannelInv, ChildInv, memory, Waiting, RequestOf, Holds,
       Recoverable, Working, Ending, Resting
  <2>2. StoresInv'
    BY Zenon, <1>1, <1>2, <1>4 DEF Handle, Inv, StoresInv, OpenCardIsOwned, BoundCardExists,
       ReceiptHasEvidence, Recoverable, Active
  <2> QED
    BY <2>1, <2>2 DEF Inv
<1>5. ASSUME auth' = NoAuth, receipt' = receipt, rep' = req PROVE AnswerInv'
  BY Zenon, <1>1, <1>2, <1>5 DEF Handle, Inv, AnswerInv
<1> QED
  BY Zenon, <1>2, <1>3, <1>4, <1>5, PublishStep DEF Handle, Inv

LEMMA HandleReleaseDurableStep == ASSUME Inv, Handle, req.type = "release-durable" PROVE Inv'
<1>1. /\ HandleReleaseDurable /\ Holds(req) /\ ~Recoverable(card)
      /\ req.evidence = reply /\ reply.turn # 0 /\ ~Active(reply)
  BY Zenon DEF Handle, Inv, RequestInv
<1>2. /\ NoAuth \in AuthType /\ NoAuth.turn = 0 /\ req \in FrameType(Requests) /\ req.evidence \in ReplyType
  BY EmptyValues DEF Inv, TypeOK, FrameType, Requests
<1>3. Publish(NoAuth, req.evidence, req)
  BY <1>1 DEF Handle, Inv, HandleReleaseDurable, Holds
<1>4. ASSUME auth' = NoAuth, receipt' = req.evidence, upgrades' = upgrades PROVE ChildInv' /\ StoresInv'
  <2>1. ChildInv'
    BY Zenon, <1>1, <1>2, <1>4 DEF Handle, Inv, ChannelInv, ChildInv, memory, Waiting, RequestOf, Holds,
       Recoverable, Working, Ending, Resting
  <2>2. StoresInv'
    BY Zenon, <1>1, <1>2, <1>4 DEF Handle, Inv, StoresInv, OpenCardIsOwned, BoundCardExists,
       ReceiptHasEvidence, Recoverable, Active
  <2> QED
    BY <2>1, <2>2 DEF Inv
<1>5. ASSUME auth' = NoAuth, receipt' = req.evidence, rep' = req PROVE AnswerInv'
  BY Zenon, <1>1, <1>2, <1>5 DEF Handle, Inv, AnswerInv
<1> QED
  BY Zenon, <1>2, <1>3, <1>4, <1>5, PublishStep DEF Handle, Inv

LEMMA HandleConsumeStep == ASSUME Inv, Handle, req.type = "consume" PROVE Inv'
<1>1. HandleConsume /\ auth.turn = 0 /\ receipt.turn # 0 /\ receipt = req.evidence
  BY Zenon DEF Handle, Inv, RequestInv
<1>2. /\ NoAuth \in AuthType /\ NoAuth.turn = 0 /\ NoReply \in ReplyType /\ NoReply.turn = 0
      /\ req \in FrameType(Requests)
  BY EmptyValues DEF Inv, TypeOK, FrameType, Requests
<1>3. Publish(NoAuth, NoReply, req)
  BY <1>1 DEF Handle, Inv, HandleConsume
<1>4. ASSUME auth' = NoAuth, receipt' = NoReply, upgrades' = upgrades PROVE ChildInv' /\ StoresInv'
  <2>1. ChildInv'
    BY Zenon, <1>1, <1>2, <1>4 DEF Handle, Inv, ChannelInv, ChildInv, memory, Waiting, RequestOf, Holds,
       Recoverable, Working, Ending, Resting
  <2>2. StoresInv'
    BY Zenon, <1>1, <1>2, <1>4 DEF Handle, Inv, StoresInv, OpenCardIsOwned, BoundCardExists,
       ReceiptHasEvidence, Recoverable, Active
  <2> QED
    BY <2>1, <2>2 DEF Inv
<1>5. ASSUME auth' = NoAuth, receipt' = NoReply, rep' = req PROVE AnswerInv'
  BY Zenon, <1>1, <1>2, <1>5 DEF Handle, Inv, AnswerInv
<1> QED
  BY Zenon, <1>2, <1>3, <1>4, <1>5, PublishStep DEF Handle, Inv

LEMMA HandleStep == ASSUME Inv, Handle PROVE Inv'
  BY HandleRecoveryStep, HandleCaptureStep, HandleBindStep, HandleReleaseStep,
     HandleReleaseDurableStep, HandleConsumeStep DEF Handle
-----------------------------------------------------------------------------
\* The start of the child.

LEMMA HelloStep == ASSUME Inv, Hello PROVE Inv'
<1> DEFINE f == Frame("recovery", 0, 0, "unbound", NoReply)
<1>1. /\ f.type = "recovery" /\ f # NoFrame /\ NoFrame \in FrameType(Requests \cup {"none", "refusal"})
      /\ f \in FrameType(Requests \cup {"none"})
  BY EmptyValues, EmptyFrame, SupervisedBounds DEF Hello, Inv, NoFrame, Frame, FrameType, Requests, Phases
<1>2. Send(f, "helloWait")
  BY DEF Hello, Inv
<1> HIDE DEF f
<1>3. TypeOK'
  BY Zenon, <1>1, <1>2 DEF Hello, Inv, Send, TypeOK, Waiting, memory, inbox, bounds
<1>4. ChannelInv' /\ AnswerInv'
  BY Zenon, <1>1, <1>2, SendStep DEF Hello, Inv, Waiting, RequestOf, Requests
<1>5. RequestInv'
  BY Zenon, <1>1, <1>2 DEF Hello, Inv, RequestInv, Send
<1>6. ChildInv' /\ StreamInv'
  BY Zenon, <1>2 DEF Hello, Inv, Send, ChildInv, StreamInv, memory, Waiting, Working, Ending, Resting
<1>7. StoresInv'
  BY Zenon DEF Hello, Inv, bounds, StoresInv, OpenCardIsOwned, BoundCardExists, ReceiptHasEvidence,
     Recoverable, Active
<1> QED
  BY <1>3, <1>4, <1>5, <1>6, <1>7 DEF Inv

LEMMA RecoveredStep == ASSUME Inv, Recovered PROVE Inv'
<1>0. pc = "helloWait" /\ link /\ rep # NoFrame /\ rep.type = "recovery" /\ req = NoFrame
  BY Zenon DEF Recovered, Answered, Inv, ChannelInv, Waiting, RequestOf
<1>1. CASE rep.evidence.turn = 0
  <2> DEFINE l == [turn |-> rep.turn, phase |-> rep.phase, id |-> rep.id]
  <2>1. /\ lease' = l /\ rep' = NoFrame /\ pc' = "boot"
        /\ UNCHANGED <<auth, receipt, parent, link, req, card, reply, turn, stream, outcome,
                       retry, inbox, unsure, bounds>>
    BY <1>0, <1>1 DEF Recovered, Answered, Inv
  <2>2. l \in LeaseType /\ l.turn = rep.turn /\ l.phase = rep.phase /\ l.id = rep.id
    BY Zenon DEF Recovered, Answered, Inv, TypeOK, FrameType, LeaseType
  <2> HIDE DEF l
  <2>3. TypeOK'
    BY Zenon, <2>1, <2>2, EmptyFrame DEF Recovered, Answered, Inv, TypeOK, Waiting, inbox, bounds
  <2>4. ChannelInv' /\ RequestInv' /\ AnswerInv'
    BY Zenon, <1>0, <2>1, SilentStep DEF Recovered, Answered, Inv, Waiting
  <2>5. ChildInv' /\ StreamInv'
    BY Zenon, <1>0, <1>1, <2>1, <2>2 DEF Recovered, Answered, Inv, AnswerInv, Holds, ChildInv, StreamInv,
       Waiting, Working, Ending, Resting
  <2>6. StoresInv'
    BY Zenon, <2>1 DEF Recovered, Answered, Inv, bounds, StoresInv, OpenCardIsOwned, BoundCardExists,
       ReceiptHasEvidence, Recoverable, Active
  <2> QED
    BY <2>3, <2>4, <2>5, <2>6 DEF Inv
<1>2. CASE rep.evidence.turn # 0 /\ rep.evidence = reply /\ ~Active(reply)
  <2> DEFINE f == Frame("consume", 0, 0, "unbound", rep.evidence)
  <2>1. Send(f, "consumeBoot") /\ UNCHANGED <<auth, receipt, parent, link, card, reply, memory, inbox, unsure, bounds>>
    BY <1>0, <1>2 DEF Recovered, Answered, Inv
  <2>2. /\ f.type = "consume" /\ f.evidence = rep.evidence /\ f # NoFrame
        /\ f \in FrameType(Requests \cup {"none"})
    BY SupervisedBounds DEF Recovered, Answered, Inv, TypeOK, NoFrame, Frame, FrameType, Requests,
       Phases
  <2> HIDE DEF f
  <2>3. TypeOK'
    BY Zenon, <2>1, <2>2, EmptyFrame DEF Recovered, Answered, Inv, Send, TypeOK, Waiting, memory, inbox, bounds
  <2>4. ChannelInv' /\ AnswerInv'
    BY Zenon, <1>0, <2>1, <2>2, SendStep DEF Recovered, Answered, Inv, Waiting, RequestOf, Requests
  <2>5. RequestInv'
    BY Zenon, <1>0, <1>2, <2>1, <2>2 DEF Recovered, Answered, Inv, RequestInv, AnswerInv, Send
  <2>6. ChildInv' /\ StreamInv'
    BY Zenon, <1>0, <2>1 DEF Recovered, Answered, Inv, Send, ChildInv, StreamInv, memory, Waiting, Working,
       Ending, Resting
  <2>7. StoresInv'
    BY Zenon, <2>1 DEF Recovered, Answered, Inv, bounds, StoresInv, OpenCardIsOwned, BoundCardExists,
       ReceiptHasEvidence, Recoverable, Active
  <2> QED
    BY <2>3, <2>4, <2>5, <2>6, <2>7 DEF Inv
<1>3. CASE Exit /\ UNCHANGED bounds
  BY <1>3, ExitKeepingBounds DEF Recovered, Answered, Inv
<1> QED
  BY Zenon, <1>0, <1>1, <1>2, <1>3 DEF Recovered, Answered

LEMMA ConsumedAtBootStep == ASSUME Inv, ConsumedAtBoot PROVE Inv'
<1>0. pc = "consumeBoot" /\ link /\ rep # NoFrame /\ rep.type = "consume" /\ req = NoFrame
  BY Zenon DEF ConsumedAtBoot, Answered, Inv, ChannelInv, Waiting, RequestOf
<1>1. /\ rep' = NoFrame /\ pc' = "boot"
      /\ UNCHANGED <<auth, receipt, parent, link, req, card, reply, memory, inbox, unsure, bounds>>
  BY <1>0 DEF ConsumedAtBoot, Answered, Inv
<1>2. TypeOK'
  BY Zenon, <1>1, EmptyFrame DEF ConsumedAtBoot, Answered, Inv, TypeOK, Waiting, memory, inbox, bounds
<1>3. ChannelInv' /\ RequestInv' /\ AnswerInv'
  BY Zenon, <1>0, <1>1, SilentStep DEF ConsumedAtBoot, Answered, Inv, Waiting
<1>4. ChildInv' /\ StreamInv'
  BY Zenon, <1>0, <1>1 DEF ConsumedAtBoot, Answered, Inv, AnswerInv, StreamInv, ChildInv, memory, Waiting,
     Holds, Recoverable, Working, Ending, Resting
<1>5. StoresInv'
  BY Zenon, <1>1, StoresKept DEF ConsumedAtBoot, Answered, Inv, bounds
<1> QED
  BY <1>2, <1>3, <1>4, <1>5 DEF Inv

LEMMA DiscardCardStep == ASSUME Inv, DiscardCard PROVE Inv'
<1>1. NoCard \in CardType /\ NoCard.turn = 0 /\ NoCard.readable
  BY EmptyValues
<1>2. TypeOK'
  BY Zenon, <1>1 DEF DiscardCard, Inv, TypeOK, channel, memory, inbox, bounds
<1>3. ChannelInv' /\ RequestInv' /\ AnswerInv'
  BY Zenon, QuietStep DEF DiscardCard, Inv, Waiting
<1>4. ChildInv' /\ StreamInv'
  BY Zenon, <1>1 DEF DiscardCard, Inv, StreamInv, ChildInv, memory, Waiting, Holds, Recoverable, Working,
     Ending, Resting
<1>5. StoresInv'
  BY <1>1, SupervisedBounds DEF DiscardCard, Inv, TypeOK, bounds, StoresInv, OpenCardIsOwned,
     BoundCardExists, ReceiptHasEvidence, Recoverable, Active
<1> QED
  BY <1>2, <1>3, <1>4, <1>5 DEF Inv

LEMMA BootUnleasedStep == ASSUME Inv, BootUnleased PROVE Inv'
<1>1. CASE ~Recoverable(card)
  <2>1. TypeOK'
    BY Zenon, <1>1 DEF BootUnleased, Inv, TypeOK, channel, memory, inbox, bounds
  <2>2. ChannelInv' /\ RequestInv' /\ AnswerInv'
    BY Zenon, <1>1, QuietStep DEF BootUnleased, Inv, Waiting
  <2>3. ChildInv' /\ StreamInv'
    BY Zenon, <1>1 DEF BootUnleased, Inv, StreamInv, ChildInv, memory, Waiting, Holds, Recoverable, Working,
       Ending, Resting
  <2>4. StoresInv'
    BY Zenon, <1>1, StoresKept DEF BootUnleased, Inv, bounds
  <2> QED
    BY <2>1, <2>2, <2>3, <2>4 DEF Inv
<1>2. CASE Recoverable(card)
  BY <1>2, ExitKeepingBounds DEF BootUnleased
<1> QED
  BY <1>1, <1>2 DEF BootUnleased

LEMMA BootLeasedStep == ASSUME Inv, BootLeased PROVE Inv'
<1>0. lease.turn # 0 /\ Holds(lease) /\ auth.phase = lease.phase
  BY Zenon DEF BootLeased, Inv, ChildInv
<1>1. CASE /\ RecoveryReleases /\ pc' = "bootRelease"
           /\ UNCHANGED <<auth, receipt, parent, channel, card, reply, memory, inbox, unsure, bounds>>
  <2>1. TypeOK'
    BY Zenon, <1>1 DEF BootLeased, Inv, TypeOK, channel, memory, inbox, bounds
  <2>2. ChannelInv' /\ RequestInv' /\ AnswerInv'
    BY Zenon, <1>1, QuietStep DEF BootLeased, Inv, Waiting
  <2>3. ChildInv' /\ StreamInv'
    BY Zenon, <1>0, <1>1 DEF BootLeased, Inv, RecoveryReleases, StreamInv, ChildInv, memory, Waiting, Holds,
       Recoverable, Working, Ending, Resting
  <2>4. StoresInv'
    BY Zenon, <1>1, StoresKept DEF BootLeased, Inv, bounds
  <2> QED
    BY <2>1, <2>2, <2>3, <2>4 DEF Inv
<1>2. CASE /\ card.turn = lease.turn /\ Recoverable(card)
           /\ card' = [card EXCEPT !.phase = IF card.message THEN "terminal" ELSE "prepared",
                                   !.delivery = "pending"]
           /\ pc' = "recoverSend"
           /\ UNCHANGED <<auth, receipt, parent, channel, reply, memory, inbox, unsure, bounds>>
  <2>0. card' \in CardType /\ card'.turn = card.turn /\ card'.readable = card.readable
    BY Zenon, <1>2 DEF BootLeased, Inv, TypeOK, CardType
  <2>1. TypeOK'
    BY Zenon, <1>2, <2>0 DEF BootLeased, Inv, TypeOK, channel, memory, inbox, bounds
  <2>2. ChannelInv' /\ RequestInv' /\ AnswerInv'
    BY Zenon, <1>2, QuietStep DEF BootLeased, Inv, Waiting
  <2>3. ChildInv' /\ StreamInv'
    BY Zenon, <1>0, <1>2, <2>0 DEF BootLeased, Inv, StreamInv, ChildInv, memory, Waiting, Holds, Recoverable,
       Working, Ending, Resting
  <2>4. StoresInv'
    BY Zenon, <1>0, <1>2, <2>0 DEF BootLeased, Inv, bounds, Holds, StoresInv, OpenCardIsOwned, BoundCardExists,
       ReceiptHasEvidence, Recoverable, Active
  <2> QED
    BY <2>1, <2>2, <2>3, <2>4 DEF Inv
<1>3. CASE Exit /\ UNCHANGED bounds
  BY <1>3, ExitKeepingBounds
<1> QED
  BY <1>1, <1>2, <1>3 DEF BootLeased

LEMMA RecoverSendStep == ASSUME Inv, RecoverSend PROVE Inv'
<1>1. CASE /\ card' = [card EXCEPT !.phase = "terminal", !.delivery = "delivered", !.message = TRUE]
           /\ pc' = "bootRelease"
           /\ UNCHANGED <<auth, receipt, parent, channel, reply, memory, inbox, unsure, bounds>>
  <2>0. card' \in CardType /\ card'.turn = card.turn /\ card'.readable = card.readable /\ card'.phase = "terminal" /\ card'.delivery = "delivered"
    BY Zenon, <1>1 DEF RecoverSend, Inv, TypeOK, CardType
  <2>1. TypeOK'
    BY Zenon, <1>1, <2>0 DEF RecoverSend, Inv, TypeOK, Turns, channel, memory, inbox, bounds
  <2>2. ChannelInv' /\ RequestInv' /\ AnswerInv'
    BY Zenon, <1>1, QuietStep DEF RecoverSend, Inv, Waiting
  <2>3. ChildInv'
    BY Zenon, <1>1, <2>0 DEF RecoverSend, Inv, ChildInv, memory, Waiting, Holds, Recoverable, Working, Ending,
       Resting
  <2>4. StreamInv'
    BY Zenon, <1>1, <2>0 DEF RecoverSend, Inv, StreamInv, ChildInv, Working, Ending, memory, Active
  <2>5. StoresInv'
    BY Zenon, <1>1, <2>0 DEF RecoverSend, Inv, bounds, ChildInv, Holds, Working, Ending, StoresInv,
       OpenCardIsOwned, BoundCardExists, ReceiptHasEvidence, Recoverable, Active
  <2> QED
    BY <2>1, <2>2, <2>3, <2>4, <2>5 DEF Inv
<1>2. CASE Fault /\ Exit
  BY <1>2, FaultyExit
<1> QED
  BY <1>1, <1>2 DEF RecoverSend

\* What a release frame says.
LEMMA ReleaseFrameFacts ==
  ASSUME TypeOK
  PROVE  /\ ReleaseFrame.type = "release" /\ ReleaseFrame.turn = lease.turn /\ ReleaseFrame.id = lease.id
         /\ ReleaseFrame # NoFrame /\ ReleaseFrame \in FrameType(Requests \cup {"none"})
  BY Zenon, EmptyFrame DEF ReleaseFrame, TypeOK, LeaseType, NoFrame, Frame, FrameType, Requests, Phases

LEMMA BootReleaseStep == ASSUME Inv, BootRelease PROVE Inv'
<1>1. TypeOK'
  BY Zenon, ReleaseFrameFacts, EmptyFrame DEF BootRelease, Inv, Send, TypeOK, Waiting, memory, inbox, bounds
<1>2. ChannelInv' /\ AnswerInv'
  BY Zenon, ReleaseFrameFacts, SendStep DEF BootRelease, Inv, Waiting, RequestOf, Requests
<1>3. RequestInv'
  BY Zenon, ReleaseFrameFacts DEF BootRelease, Inv, RequestInv, Send, ChildInv, Holds, Recoverable
<1>4. ChildInv' /\ StreamInv'
  BY Zenon DEF BootRelease, Inv, Send, StreamInv, ChildInv, memory, Waiting, Holds, Recoverable, Working,
     Ending, Resting
<1>5. StoresInv'
  BY Zenon, StoresKept DEF BootRelease, Inv, bounds
<1> QED
  BY <1>1, <1>2, <1>3, <1>4, <1>5 DEF Inv

LEMMA ReleasedAtBootStep == ASSUME Inv, ReleasedAtBoot PROVE Inv'
<1>0. pc = "releaseBoot" /\ link /\ rep # NoFrame /\ rep.type = "release" /\ req = NoFrame
  BY Zenon DEF ReleasedAtBoot, Answered, Inv, ChannelInv, Waiting, RequestOf
<1>1. /\ rep' = NoFrame /\ pc' = "idle" /\ lease' = NoLease
      /\ UNCHANGED <<auth, receipt, parent, link, req, card, reply, turn, stream, outcome, retry,
                     inbox, unsure, bounds>>
  BY <1>0 DEF ReleasedAtBoot, Answered, Inv
<1>2. TypeOK'
  BY Zenon, <1>1, EmptyFrame, EmptyValues DEF Inv, TypeOK, Waiting, inbox, bounds
<1>3. ChannelInv' /\ RequestInv' /\ AnswerInv'
  BY Zenon, <1>0, <1>1, SilentStep DEF ReleasedAtBoot, Answered, Inv, Waiting
<1>4. ChildInv' /\ StreamInv'
  BY Zenon, <1>0, <1>1 DEF ReleasedAtBoot, Answered, Inv, AnswerInv, NoLease, StreamInv, ChildInv, memory,
     Waiting, Holds, Recoverable, Working, Ending, Resting
<1>5. StoresInv'
  BY Zenon, <1>1, StoresKept DEF ReleasedAtBoot, Answered, Inv, bounds
<1> QED
  BY <1>2, <1>3, <1>4, <1>5 DEF Inv
-----------------------------------------------------------------------------
\* The turn, up to its work.

LEMMA ReceiveStep == ASSUME Inv, Receive PROVE Inv'
<1>0. turn' \in 0..MaxTurns /\ turn' # 0 /\ seen' \in 0..MaxTurns
  BY SupervisedBounds DEF Receive, Inv, TypeOK
<1>1. TypeOK'
  BY Zenon, <1>0 DEF Receive, Inv, TypeOK, channel, bounds
<1>2. ChannelInv' /\ RequestInv' /\ AnswerInv'
  BY Zenon, QuietStep DEF Receive, Inv, Waiting
<1>3. ChildInv' /\ StreamInv'
  BY Zenon, <1>0 DEF Receive, Inv, StreamInv, ChildInv, memory, Waiting, Holds, Recoverable, Working, Ending,
     Resting
<1>4. StoresInv'
  BY Zenon, StoresKept DEF Receive, Inv, bounds
<1> QED
  BY <1>1, <1>2, <1>3, <1>4 DEF Inv

LEMMA AcknowledgeStep == ASSUME Inv, Acknowledge PROVE Inv'
<1>1. TypeOK'
  BY DEF Acknowledge, channel, memory, Inv, TypeOK, bounds
<1>2. ChannelInv' /\ StreamInv'
  BY Zenon DEF Acknowledge, channel, memory, Inv, ChannelInv, StreamInv, Waiting
<1>3. RequestInv' /\ AnswerInv'
  BY Zenon DEF Acknowledge, channel, memory, Inv, RequestInv, AnswerInv, Holds, Recoverable, Active, bounds
<1>4. ChildInv'
  BY Zenon DEF Acknowledge, channel, Inv, ChildInv, memory, Waiting, Holds, Recoverable, Working, Ending,
     Resting
<1>5. StoresInv'
  BY Zenon, StoresKept DEF Acknowledge, channel, memory, Inv, bounds
<1> QED
  BY <1>1, <1>2, <1>3, <1>4, <1>5 DEF Inv

LEMMA CaptureTurnStep == ASSUME Inv, CaptureTurn PROVE Inv'
<1> DEFINE f == Frame("capture", turn, 0, "unbound", NoReply)
<1>1. f.type = "capture" /\ f.turn = turn /\ f # NoFrame /\ f \in FrameType(Requests \cup {"none"})
  BY Zenon, EmptyFrame DEF CaptureTurn, Inv, TypeOK, NoFrame, Frame, FrameType, Requests, Phases
<1>2. Send(f, "captureWait")
  BY DEF CaptureTurn, Inv
<1> HIDE DEF f
<1>3. TypeOK'
  BY Zenon, <1>1, <1>2, EmptyFrame DEF CaptureTurn, Inv, Send, TypeOK, Waiting, memory, inbox, bounds
<1>4. ChannelInv' /\ AnswerInv'
  BY Zenon, <1>1, <1>2, SendStep DEF CaptureTurn, Inv, Waiting, RequestOf, Requests, memory
<1>5. RequestInv'
  BY Zenon, <1>1, <1>2 DEF CaptureTurn, Inv, RequestInv, Send, ChildInv, Resting, Recoverable
<1>6. ChildInv' /\ StreamInv'
  BY Zenon, <1>2 DEF CaptureTurn, Inv, Send, StreamInv, ChildInv, memory, Waiting, Holds, Recoverable, Working,
     Ending, Resting
<1>7. StoresInv'
  BY Zenon, StoresKept DEF CaptureTurn, Inv, bounds
<1> QED
  BY <1>3, <1>4, <1>5, <1>6, <1>7 DEF Inv

LEMMA CapturedStep == ASSUME Inv, Captured PROVE Inv'
<1>0. pc = "captureWait" /\ link /\ rep # NoFrame /\ rep.type = "capture" /\ rep.turn = turn /\ req = NoFrame
  BY Zenon DEF Captured, Answered, Inv, ChannelInv, Waiting, RequestOf
<1> DEFINE l == [turn |-> rep.turn, phase |-> "unbound", id |-> rep.id]
<1>1. /\ lease' = l /\ rep' = NoFrame /\ pc' = "prepare"
      /\ UNCHANGED <<auth, receipt, parent, link, req, card, reply, turn, stream, outcome, retry,
                     inbox, unsure, bounds>>
  BY <1>0 DEF Captured, Answered, Inv
<1>2. l \in LeaseType /\ l.turn = rep.turn /\ l.phase = "unbound" /\ l.id = rep.id
  BY Zenon DEF Captured, Answered, Inv, TypeOK, FrameType, LeaseType, Phases
<1> HIDE DEF l
<1>3. TypeOK'
  BY Zenon, <1>1, <1>2, EmptyFrame DEF Captured, Answered, Inv, TypeOK, Waiting, inbox, bounds
<1>4. ChannelInv' /\ RequestInv' /\ AnswerInv'
  BY Zenon, <1>0, <1>1, SilentStep DEF Captured, Answered, Inv, Waiting
<1>5. ChildInv' /\ StreamInv'
  BY Zenon, <1>0, <1>1, <1>2 DEF Captured, Answered, Inv, AnswerInv, StreamInv, ChildInv, memory, Waiting,
     Holds, Recoverable, Working, Ending, Resting
<1>6. StoresInv'
  BY Zenon, <1>1, StoresKept DEF Captured, Answered, Inv, bounds
<1> QED
  BY <1>3, <1>4, <1>5, <1>6 DEF Inv

LEMMA PrepareStep == ASSUME Inv, Prepare PROVE Inv'
<1>1. CASE card.readable /\ ~Recoverable(card)
  <2>p. /\ card' = [NoCard EXCEPT !.turn = turn] /\ pc' = "bind"
        /\ UNCHANGED <<auth, receipt, parent, channel, reply, memory, inbox, unsure, bounds>>
    BY <1>1 DEF Prepare, Inv
  <2>0. card' \in CardType /\ card'.turn = turn /\ card'.readable = card.readable
    BY Zenon, <1>1, <2>p DEF Prepare, Inv, TypeOK, CardType, NoCard
  <2>1. TypeOK'
    BY Zenon, <1>1, <2>p, <2>0 DEF Prepare, Inv, TypeOK, Turns, channel, memory, inbox, bounds
  <2>2. ChannelInv' /\ RequestInv' /\ AnswerInv'
    BY Zenon, <1>1, <2>p, QuietStep DEF Prepare, Inv, Waiting
  <2>3. ChildInv'
    BY Zenon, <1>1, <2>p, <2>0 DEF Prepare, Inv, ChildInv, memory, Waiting, Holds, Recoverable, Working,
       Ending, Resting
  <2>4. StreamInv'
    BY Zenon, <1>1, <2>p, <2>0 DEF Prepare, Inv, StreamInv, ChildInv, Working, Ending, memory, Active
  <2>5. StoresInv'
    BY Zenon, <1>1, <2>p, <2>0 DEF Prepare, Inv, bounds, ChildInv, Holds, Working, Ending, StoresInv,
       OpenCardIsOwned, BoundCardExists, ReceiptHasEvidence, Recoverable, Active
  <2> QED
    BY <2>1, <2>2, <2>3, <2>4, <2>5 DEF Inv
<1>2. CASE ~(card.readable /\ ~Recoverable(card))
  BY <1>2, ExitKeepingBounds DEF Prepare
<1> QED
  BY <1>1, <1>2 DEF Prepare

LEMMA BindCheckpointStep == ASSUME Inv, BindCheckpoint PROVE Inv'
<1> DEFINE f == Frame("bind", lease.turn, lease.id, "unbound", NoReply)
<1>1. /\ f.type = "bind" /\ f.turn = lease.turn /\ f.id = lease.id /\ f # NoFrame
      /\ f \in FrameType(Requests \cup {"none"})
  BY Zenon, EmptyFrame DEF BindCheckpoint, Inv, TypeOK, LeaseType, NoFrame, Frame, FrameType, Requests, Phases
<1>2. Send(f, "bindWait")
  BY DEF BindCheckpoint, Inv
<1> HIDE DEF f
<1>3. TypeOK'
  BY Zenon, <1>1, <1>2, EmptyFrame DEF BindCheckpoint, Inv, Send, TypeOK, Waiting, memory, inbox, bounds
<1>4. ChannelInv' /\ AnswerInv'
  BY Zenon, <1>1, <1>2, SendStep DEF BindCheckpoint, Inv, Waiting, RequestOf, Requests
<1>5. RequestInv'
  BY Zenon, <1>1, <1>2 DEF BindCheckpoint, Inv, RequestInv, Send, ChildInv, Holds
<1>6. ChildInv' /\ StreamInv'
  <2>1. turn # 0
    BY Zenon DEF BindCheckpoint, Inv, ChildInv, Holds
  <2> QED
    BY Zenon, <1>2, <2>1 DEF BindCheckpoint, Inv, Send, StreamInv, ChildInv, memory, Waiting, Holds,
       Recoverable, Working, Ending, Resting
<1>7. StoresInv'
  BY Zenon, StoresKept DEF BindCheckpoint, Inv, bounds
<1> QED
  BY <1>3, <1>4, <1>5, <1>6, <1>7 DEF Inv

LEMMA BoundStep == ASSUME Inv, Bound PROVE Inv'
<1>0. pc = "bindWait" /\ link /\ rep # NoFrame /\ rep.type = "bind" /\ req = NoFrame
  BY Zenon DEF Bound, Inv, Answered, ChannelInv, Waiting, RequestOf
<1>1. /\ lease' = [lease EXCEPT !.phase = "bound"]
      /\ rep' = NoFrame /\ pc' = (IF turn \in Voice THEN "ingress" ELSE "start")
      /\ UNCHANGED <<auth, receipt, parent, link, req, card, reply, turn, stream, outcome, retry,
                     inbox, unsure, bounds>>
  BY <1>0 DEF Bound, Inv, Answered
<1>2. lease' \in LeaseType /\ lease'.turn = lease.turn /\ lease'.phase = "bound" /\ lease'.id = lease.id
  BY Zenon, <1>1 DEF Bound, Inv, Answered, TypeOK, LeaseType, Phases
<1>3. TypeOK'
  BY Zenon, <1>1, <1>2, EmptyFrame DEF Bound, Inv, Answered, TypeOK, Waiting, inbox, bounds
<1>4. ChannelInv' /\ RequestInv' /\ AnswerInv'
  BY Zenon, <1>0, <1>1, SilentStep DEF Bound, Inv, Answered, Waiting
<1>5. ChildInv' /\ StreamInv'
  BY Zenon, <1>0, <1>1, <1>2 DEF Bound, Inv, Answered, AnswerInv, StreamInv, ChildInv, memory, Waiting, Holds,
     Recoverable, Working, Ending, Resting
<1>6. StoresInv'
  BY Zenon, <1>1, StoresKept DEF Bound, Inv, Answered, bounds
<1> QED
  BY <1>3, <1>4, <1>5, <1>6 DEF Inv

LEMMA IngressStep == ASSUME Inv, Ingress PROVE Inv'
<1>1. CASE pc' = "start" /\ UNCHANGED <<card, outcome>>
  <2>1. TypeOK'
    BY Zenon, <1>1 DEF Ingress, Inv, TypeOK, Turns, channel, memory, inbox, bounds
  <2>2. ChannelInv' /\ RequestInv' /\ AnswerInv'
    BY Zenon, <1>1, QuietStep DEF Ingress, Inv, Waiting
  <2>3. ChildInv'
    BY Zenon, <1>1 DEF Ingress, Inv, ChildInv, memory, Waiting, Holds, Recoverable, Working, Ending, Resting
  <2>4. StreamInv'
    BY Zenon, <1>1 DEF Ingress, Inv, StreamInv, ChildInv, Working, Ending, memory, Active
  <2>5. StoresInv'
    BY Zenon, <1>1, StoresKept DEF Ingress, Inv, bounds
  <2> QED
    BY <2>1, <2>2, <2>3, <2>4, <2>5 DEF Inv
<1>2. CASE /\ card' = [card EXCEPT !.phase = "terminal", !.delivery = "delivered"]
           /\ pc' = "release" /\ outcome' = "cancelled"
  <2>0. card' \in CardType /\ card'.turn = card.turn /\ card'.readable = card.readable /\ card'.phase = "terminal" /\ card'.delivery = "delivered"
    BY Zenon, <1>2 DEF Ingress, Inv, TypeOK, CardType
  <2>1. TypeOK'
    BY Zenon, <1>2, <2>0 DEF Ingress, Inv, TypeOK, Turns, channel, memory, inbox, bounds
  <2>2. ChannelInv' /\ RequestInv' /\ AnswerInv'
    BY Zenon, <1>2, QuietStep DEF Ingress, Inv, Waiting
  <2>3. ChildInv'
    BY Zenon, <1>2, <2>0 DEF Ingress, Inv, ChildInv, memory, Waiting, Holds, Recoverable, Working, Ending,
       Resting
  <2>4. StreamInv'
    BY Zenon, <1>2, <2>0 DEF Ingress, Inv, StreamInv, ChildInv, Working, Ending, memory, Active
  <2>5. StoresInv'
    BY Zenon, <1>2, <2>0 DEF Ingress, Inv, bounds, ChildInv, Holds, Working, Ending, StoresInv,
       OpenCardIsOwned, BoundCardExists, ReceiptHasEvidence, Recoverable, Active
  <2> QED
    BY <2>1, <2>2, <2>3, <2>4, <2>5 DEF Inv
<1> QED
  BY <1>1, <1>2 DEF Ingress

LEMMA StartStep == ASSUME Inv, Start PROVE Inv'
<1>1. CASE /\ card' = [card EXCEPT !.phase = "bound", !.delivery = "delivered", !.message = TRUE]
           /\ pc' = "work"
           /\ UNCHANGED <<auth, receipt, parent, channel, reply, memory, inbox, unsure, bounds>>
  <2>0. card' \in CardType /\ card'.turn = card.turn /\ card'.readable = card.readable
    BY Zenon, <1>1 DEF Start, Inv, TypeOK, CardType
  <2>1. TypeOK'
    BY Zenon, <1>1, <2>0 DEF Start, Inv, TypeOK, Turns, channel, memory, inbox, bounds
  <2>2. ChannelInv' /\ RequestInv' /\ AnswerInv'
    BY Zenon, <1>1, QuietStep DEF Start, Inv, Waiting
  <2>3. ChildInv'
    BY Zenon, <1>1, <2>0 DEF Start, Inv, ChildInv, memory, Waiting, Holds, Recoverable, Working, Ending,
       Resting
  <2>4. StreamInv'
    BY Zenon, <1>1, <2>0 DEF Start, Inv, StreamInv, ChildInv, Working, Ending, memory, Active
  <2>5. StoresInv'
    BY Zenon, <1>1, <2>0 DEF Start, Inv, bounds, ChildInv, Holds, Working, Ending, StoresInv, OpenCardIsOwned,
       BoundCardExists, ReceiptHasEvidence, Recoverable, Active
  <2> QED
    BY <2>1, <2>2, <2>3, <2>4, <2>5 DEF Inv
<1>2. CASE Fault /\ Exit
  BY <1>2, FaultyExit
<1> QED
  BY <1>1, <1>2 DEF Start

LEMMA EditCardStep == ASSUME Inv, EditCard PROVE Inv'
<1>p. pc = "work" /\ pc' = "work" /\ \E d \in {"pending", "delivered"} : card' = [card EXCEPT !.delivery = d]
  BY DEF EditCard, Inv
<1>0. card' \in CardType /\ card'.turn = card.turn /\ card'.readable = card.readable
  BY Zenon, <1>p DEF EditCard, Inv, TypeOK, CardType
<1>1. TypeOK'
  BY <1>p, <1>0 DEF EditCard, Inv, TypeOK, Turns, channel, memory, inbox, bounds
<1>2. ChannelInv' /\ RequestInv' /\ AnswerInv'
  BY Zenon, <1>p, QuietStep DEF EditCard, Inv, Waiting
<1>3. ChildInv'
  BY Zenon, <1>p, <1>0 DEF EditCard, Inv, ChildInv, memory, Waiting, Holds, Recoverable, Working, Ending,
     Resting
<1>4. StreamInv'
  BY Zenon, <1>p, <1>0 DEF EditCard, Inv, StreamInv, ChildInv, Working, Ending, memory, Active
<1>5. StoresInv'
  BY <1>p, <1>0 DEF EditCard, Inv, bounds, ChildInv, Holds, Working, Ending, StoresInv, OpenCardIsOwned,
     BoundCardExists, ReceiptHasEvidence, Recoverable, Active
<1> QED
  BY <1>1, <1>2, <1>3, <1>4, <1>5 DEF Inv
-----------------------------------------------------------------------------
\* The reply stream.

\* A turn that was sent and not confirmed leaves an active reply.
LEMMA NothingUnsure == ASSUME Inv, ~Active(reply) PROVE unsure = {}
<1>1. \A t \in unsure : t # 0 /\ reply.turn = t /\ reply.phase = "prepared"
  BY SupervisedBounds DEF Inv, TypeOK, Turns, StreamInv
<1> QED
  BY <1>1 DEF Active

LEMMA AppendStep == ASSUME Inv, Append PROVE Inv'
<1>0. receipt.turn = 0 /\ turn # 0
  BY Zenon DEF Append, Inv, ChildInv, Working, Holds, StoresInv, ReceiptHasEvidence
<1>1. CASE stream = "new" /\ ~Active(reply) /\ SaveReply("prepared", "pending", "none") /\ pc' = "deltaSend" /\ UNCHANGED stream
  <2>r. reply' \in ReplyType /\ reply'.turn = turn /\ reply'.phase = "prepared"
    BY Zenon, <1>0, <1>1 DEF Append, Inv, TypeOK, SaveReply, Reply, ReplyType
  <2>1. TypeOK'
    BY Zenon, <1>0, <1>1, <2>r DEF Append, Inv, TypeOK, Turns, channel, memory, inbox, bounds
  <2>2. ChannelInv' /\ RequestInv' /\ AnswerInv'
    BY Zenon, <1>0, <1>1, QuietStep DEF Append, Inv, Waiting
  <2>3. ChildInv'
    BY Zenon, <1>0, <1>1, <2>r DEF Append, Inv, ChildInv, memory, Waiting, Holds, Recoverable, Working, Ending,
       Resting
  <2>4. StreamInv'
    BY Zenon, <1>0, <1>1, <2>r, NothingUnsure DEF Append, Inv, StreamInv
  <2>5. StoresInv'
    BY Zenon, <1>0, <1>1, <2>r DEF Append, Inv, bounds, ChildInv, Holds, Working, Ending, StoresInv,
       OpenCardIsOwned, BoundCardExists, ReceiptHasEvidence, Recoverable, Active
  <2> QED
    BY <2>1, <2>2, <2>3, <2>4, <2>5 DEF Inv
<1>2. CASE stream = "new" /\ Active(reply) /\ stream' = "refused" /\ UNCHANGED <<reply, pc>>
  <2>1. TypeOK'
    BY Zenon, <1>2 DEF Append, Inv, TypeOK, Turns, channel, memory, inbox, bounds
  <2>2. ChannelInv' /\ RequestInv' /\ AnswerInv'
    BY Zenon, <1>2, QuietStep DEF Append, Inv, Waiting
  <2>3. ChildInv'
    BY Zenon, <1>2 DEF Append, Inv, ChildInv, memory, Waiting, Holds, Recoverable, Working, Ending, Resting
  <2>4. StreamInv'
    BY Zenon, <1>2 DEF Append, Inv, StreamInv, ChildInv, Working, Ending, memory, Active
  <2>5. StoresInv'
    BY Zenon, <1>2, StoresKept DEF Append, Inv, bounds
  <2> QED
    BY <2>1, <2>2, <2>3, <2>4, <2>5 DEF Inv
<1>3. CASE stream = "open" /\ SaveReply("bound", "pending", "none") /\ pc' = "deltaEdit" /\ UNCHANGED stream
  <2>r. reply' \in ReplyType /\ reply'.turn = turn /\ reply'.phase = "bound"
    BY Zenon, <1>0, <1>3 DEF Append, Inv, TypeOK, SaveReply, Reply, ReplyType
  <2>1. TypeOK'
    BY Zenon, <1>0, <1>3, <2>r DEF Append, Inv, TypeOK, Turns, channel, memory, inbox, bounds
  <2>2. ChannelInv' /\ RequestInv' /\ AnswerInv'
    BY Zenon, <1>0, <1>3, QuietStep DEF Append, Inv, Waiting
  <2>3. ChildInv'
    BY Zenon, <1>0, <1>3, <2>r DEF Append, Inv, ChildInv, memory, Waiting, Holds, Recoverable, Working, Ending,
       Resting
  <2>4. StreamInv'
    BY Zenon, <1>0, <1>3, <2>r DEF Append, Inv, StreamInv, ChildInv, Working, Ending, memory, Active
  <2>5. StoresInv'
    BY Zenon, <1>0, <1>3, <2>r DEF Append, Inv, bounds, ChildInv, Holds, Working, Ending, StoresInv,
       OpenCardIsOwned, BoundCardExists, ReceiptHasEvidence, Recoverable, Active
  <2> QED
    BY <2>1, <2>2, <2>3, <2>4, <2>5 DEF Inv
<1> QED
  BY <1>1, <1>2, <1>3 DEF Append

LEMMA SendTextStep == ASSUME Inv, SendText PROVE Inv'
<1>0. turn \in Turns
  <2>1. turn # 0
    BY Zenon DEF SendText, Inv, ChildInv, Working, Ending, Holds
  <2> QED
    BY <2>1 DEF Inv, TypeOK, Turns
<1>f. ASSUME Fault PROVE bounds' \in (0..MaxCrashes) \X (0..MaxFaults) \X (0..MaxPublish) \X (0..MaxUpgrades) /\ upgrades' = upgrades
  BY <1>f, FaultStep DEF SendText, Inv
<1>1. CASE pc' = (IF pc = "deltaSend" THEN "deltaSent" ELSE "finalSent") /\ UNCHANGED <<stream, bounds>>
  <2>1. TypeOK'
    BY ZenonT(60), <1>0, <1>1 DEF SendText, Inv, TypeOK, Turns, channel, memory, inbox, bounds
  <2>2. ChannelInv' /\ RequestInv' /\ AnswerInv'
    BY Zenon, <1>0, <1>1, QuietStep DEF SendText, Inv, Waiting
  <2>3. ChildInv'
    BY Zenon, <1>0, <1>1 DEF SendText, Inv, ChildInv, memory, Waiting, Holds, Recoverable, Working, Ending,
       Resting
  <2>4. StreamInv'
    BY Zenon, <1>0, <1>1 DEF SendText, Inv, StreamInv, ChildInv, Working, Ending, memory, Active
  <2>5. StoresInv'
    BY Zenon, <1>0, <1>1, StoresKept DEF SendText, Inv, bounds
  <2> QED
    BY <2>1, <2>2, <2>3, <2>4, <2>5 DEF Inv
<1>2. CASE Fault /\ stream' = "uncertain" /\ pc' = (IF pc = "deltaSend" THEN "work" ELSE "finalized")
  <2>1. TypeOK'
    BY Zenon, <1>0, <1>2, <1>f DEF SendText, Inv, TypeOK, Turns, channel, memory, inbox, bounds
  <2>2. ChannelInv' /\ RequestInv' /\ AnswerInv'
    BY Zenon, <1>0, <1>2, <1>f, QuietStep DEF SendText, Inv, Waiting
  <2>3. ChildInv'
    BY Zenon, <1>0, <1>2, <1>f DEF SendText, Inv, ChildInv, memory, Waiting, Holds, Recoverable, Working,
       Ending, Resting
  <2>4. StreamInv'
    BY Zenon, <1>0, <1>2, <1>f DEF SendText, Inv, StreamInv, ChildInv, Working, Ending, memory, Active
  <2>5. StoresInv'
    BY Zenon, <1>0, <1>2, <1>f, StoresKept DEF SendText, Inv, bounds
  <2> QED
    BY <2>1, <2>2, <2>3, <2>4, <2>5 DEF Inv
<1> QED
  BY <1>1, <1>2 DEF SendText

LEMMA SaveTextStep == ASSUME Inv, SaveText PROVE Inv'
<1>0. receipt.turn = 0 /\ turn # 0
  BY Zenon DEF SaveText, Inv, ChildInv, Working, Ending, Holds, StoresInv, ReceiptHasEvidence
<1>u. unsure' = {} /\ unsure' \subseteq Turns
  BY Zenon DEF SaveText, Inv, StreamInv
<1>r. reply' \in ReplyType /\ reply'.turn = turn /\ reply'.phase = "bound"
  BY Zenon, <1>0, <1>u DEF SaveText, Inv, TypeOK, SaveReply, Reply, ReplyType
<1>1. TypeOK'
  BY Zenon, <1>0, <1>u, <1>r DEF SaveText, Inv, TypeOK, Turns, channel, memory, inbox, bounds
<1>2. ChannelInv' /\ RequestInv' /\ AnswerInv'
  BY Zenon, <1>0, <1>u, QuietStep DEF SaveText, Inv, Waiting
<1>3. ChildInv'
  BY Zenon, <1>0, <1>u, <1>r DEF SaveText, Inv, ChildInv, memory, Waiting, Holds, Recoverable, Working, Ending,
     Resting
<1>4. StreamInv'
  BY Zenon, <1>0, <1>u, <1>r DEF SaveText, Inv, StreamInv, ChildInv, Working, Ending, memory, Active
<1>5. StoresInv'
  BY Zenon, <1>0, <1>u, <1>r DEF SaveText, Inv, bounds, ChildInv, Holds, Working, Ending, StoresInv,
     OpenCardIsOwned, BoundCardExists, ReceiptHasEvidence, Recoverable, Active
<1> QED
  BY <1>1, <1>2, <1>3, <1>4, <1>5 DEF Inv

LEMMA EditTextStep == ASSUME Inv, EditText PROVE Inv'
<1>0. receipt.turn = 0 /\ turn # 0
  BY Zenon DEF EditText, Inv, ChildInv, Working, Ending, Holds, StoresInv, ReceiptHasEvidence
<1>f. ASSUME Fault PROVE bounds' \in (0..MaxCrashes) \X (0..MaxFaults) \X (0..MaxPublish) \X (0..MaxUpgrades) /\ upgrades' = upgrades
  BY <1>f, FaultStep DEF EditText, Inv
<1>u. unsure = {}
  BY Zenon DEF EditText, Inv, StreamInv
<1>1. CASE SaveReply("bound", "delivered", "none") /\ UNCHANGED <<stream, bounds>>
  <2>r. reply' \in ReplyType /\ reply'.turn = turn /\ reply'.phase = "bound"
    BY Zenon, <1>0, <1>1, <1>u DEF EditText, Inv, TypeOK, SaveReply, Reply, ReplyType
  <2>1. TypeOK'
    BY Zenon, <1>0, <1>1, <1>u, <2>r DEF EditText, Inv, TypeOK, Turns, channel, memory, inbox, bounds
  <2>2. ChannelInv' /\ RequestInv' /\ AnswerInv'
    BY Zenon, <1>0, <1>1, <1>u, QuietStep DEF EditText, Inv, Waiting
  <2>3. ChildInv'
    BY Zenon, <1>0, <1>1, <1>u, <2>r DEF EditText, Inv, ChildInv, memory, Waiting, Holds, Recoverable, Working,
       Ending, Resting
  <2>4. StreamInv'
    BY Zenon, <1>0, <1>1, <1>u, <2>r DEF EditText, Inv, StreamInv, ChildInv, Working, Ending, memory, Active
  <2>5. StoresInv'
    BY Zenon, <1>0, <1>1, <1>u, <2>r DEF EditText, Inv, bounds, ChildInv, Holds, Working, Ending, StoresInv,
       OpenCardIsOwned, BoundCardExists, ReceiptHasEvidence, Recoverable, Active
  <2> QED
    BY <2>1, <2>2, <2>3, <2>4, <2>5 DEF Inv
<1>2. CASE Fault /\ stream' = "uncertain" /\ UNCHANGED reply
  <2>1. TypeOK'
    BY Zenon, <1>2, <1>f DEF EditText, Inv, TypeOK, Turns, channel, memory, inbox, bounds
  <2>2. ChannelInv' /\ RequestInv' /\ AnswerInv'
    BY Zenon, <1>2, <1>f, QuietStep DEF EditText, Inv, Waiting
  <2>3. ChildInv'
    BY Zenon, <1>2, <1>f DEF EditText, Inv, ChildInv, memory, Waiting, Holds, Recoverable, Working, Ending,
       Resting
  <2>4. StreamInv'
    BY Zenon, <1>2, <1>f DEF EditText, Inv, StreamInv, ChildInv, Working, Ending, memory, Active
  <2>5. StoresInv'
    BY Zenon, <1>2, <1>f, StoresKept DEF EditText, Inv, bounds
  <2> QED
    BY <2>1, <2>2, <2>3, <2>4, <2>5 DEF Inv
<1> QED
  BY <1>1, <1>2 DEF EditText
-----------------------------------------------------------------------------
\* The end of the turn.

LEMMA EndWorkStep == ASSUME Inv, EndWork PROVE Inv'
<1>0. card' \in CardType /\ card'.turn = card.turn /\ card'.readable = card.readable /\ card'.phase = "terminal"
  BY Zenon DEF EndWork, Inv, TypeOK, CardType
<1>1. TypeOK'
  BY Zenon, <1>0 DEF EndWork, Inv, TypeOK, Turns, channel, memory, inbox, bounds
<1>2. ChannelInv' /\ RequestInv' /\ AnswerInv'
  BY Zenon, QuietStep DEF EndWork, Inv, Waiting
<1>3. ChildInv'
  BY Zenon, <1>0 DEF EndWork, Inv, ChildInv, memory, Waiting, Holds, Recoverable, Working, Ending, Resting
<1>4. StreamInv'
  BY Zenon, <1>0 DEF EndWork, Inv, StreamInv, ChildInv, Working, Ending, memory, Active
<1>5. StoresInv'
  BY Zenon, <1>0 DEF EndWork, Inv, bounds, ChildInv, Holds, Working, Ending, StoresInv, OpenCardIsOwned,
     BoundCardExists, ReceiptHasEvidence, Recoverable, Active
<1> QED
  BY <1>1, <1>2, <1>3, <1>4, <1>5 DEF Inv

LEMMA CloseCardStep == ASSUME Inv, CloseCard PROVE Inv'
<1>1. CASE /\ card' = [card EXCEPT !.delivery = "delivered"]
           /\ pc' = (IF outcome = "reply" THEN "finalize" ELSE "release")
           /\ UNCHANGED <<auth, receipt, parent, channel, reply, memory, inbox, unsure, bounds>>
  <2>0. card' \in CardType /\ card'.turn = card.turn /\ card'.readable = card.readable /\ card'.phase = card.phase /\ card'.delivery = "delivered"
    BY Zenon, <1>1 DEF CloseCard, Inv, TypeOK, CardType
  <2>1. TypeOK'
    BY Zenon, <1>1, <2>0 DEF CloseCard, Inv, TypeOK, Turns, channel, memory, inbox, bounds
  <2>2. ChannelInv' /\ RequestInv' /\ AnswerInv'
    BY Zenon, <1>1, QuietStep DEF CloseCard, Inv, Waiting
  <2>3. ChildInv'
    BY Zenon, <1>1, <2>0 DEF CloseCard, Inv, ChildInv, memory, Waiting, Holds, Recoverable, Working, Ending,
       Resting
  <2>4. StreamInv'
    BY Zenon, <1>1, <2>0 DEF CloseCard, Inv, StreamInv, ChildInv, Working, Ending, memory, Active
  <2>5. StoresInv'
    BY Zenon, <1>1, <2>0 DEF CloseCard, Inv, bounds, ChildInv, Holds, Working, Ending, StoresInv,
       OpenCardIsOwned, BoundCardExists, ReceiptHasEvidence, Recoverable, Active
  <2> QED
    BY <2>1, <2>2, <2>3, <2>4, <2>5 DEF Inv
<1>2. CASE Fault /\ Exit
  BY <1>2, FaultyExit
<1> QED
  BY <1>1, <1>2 DEF CloseCard

LEMMA PanelFailedStep == ASSUME Inv, PanelFailed PROVE Inv'
<1>p. bounds' \in (0..MaxCrashes) \X (0..MaxFaults) \X (0..MaxPublish) \X (0..MaxUpgrades) /\ upgrades' = upgrades
  BY FaultStep DEF PanelFailed, Inv
<1>0. card' \in CardType /\ card'.turn = card.turn /\ card'.readable = card.readable /\ card'.phase = card.phase
  BY Zenon, <1>p DEF PanelFailed, Inv, TypeOK, CardType
<1>1. TypeOK'
  BY Zenon, <1>p, <1>0 DEF PanelFailed, Inv, TypeOK, Turns, channel, memory, inbox, bounds
<1>2. ChannelInv' /\ RequestInv' /\ AnswerInv'
  BY Zenon, <1>p, QuietStep DEF PanelFailed, Inv, Waiting
<1>3. ChildInv'
  BY Zenon, <1>p, <1>0 DEF PanelFailed, Inv, ChildInv, memory, Waiting, Holds, Recoverable, Working, Ending,
     Resting
<1>4. StreamInv'
  BY Zenon, <1>p, <1>0 DEF PanelFailed, Inv, StreamInv, ChildInv, Working, Ending, memory, Active
<1>5. StoresInv'
  BY Zenon, <1>p, <1>0 DEF PanelFailed, Inv, bounds, ChildInv, Holds, Working, Ending, StoresInv,
     OpenCardIsOwned, BoundCardExists, ReceiptHasEvidence, Recoverable, Active
<1> QED
  BY <1>1, <1>2, <1>3, <1>4, <1>5 DEF Inv

LEMMA FinalizeStep == ASSUME Inv, Finalize PROVE Inv'
<1>0. receipt.turn = 0 /\ turn # 0
  BY Zenon DEF Finalize, Inv, ChildInv, Ending, Holds, StoresInv, ReceiptHasEvidence
<1>1. CASE /\ stream \in {"new", "refused"} /\ ~Active(reply)
           /\ SaveReply("prepared", "pending", "none") /\ pc' = "finalSend"
           /\ UNCHANGED <<auth, receipt, parent, channel, card, memory, inbox, unsure, bounds>>
  <2>r. reply' \in ReplyType /\ reply'.turn = turn /\ reply'.phase = "prepared"
    BY Zenon, <1>0, <1>1 DEF Finalize, Inv, TypeOK, SaveReply, Reply, ReplyType
  <2>1. TypeOK'
    BY Zenon, <1>0, <1>1, <2>r DEF Finalize, Inv, TypeOK, Turns, channel, memory, inbox, bounds
  <2>2. ChannelInv' /\ RequestInv' /\ AnswerInv'
    BY Zenon, <1>0, <1>1, QuietStep DEF Finalize, Inv, Waiting
  <2>3. ChildInv'
    BY Zenon, <1>0, <1>1, <2>r DEF Finalize, Inv, ChildInv, memory, Waiting, Holds, Recoverable, Working,
       Ending, Resting
  <2>4. StreamInv'
    BY Zenon, <1>0, <1>1, <2>r, NothingUnsure DEF Finalize, Inv, StreamInv, memory
  <2>5. StoresInv'
    BY Zenon, <1>0, <1>1, <2>r DEF Finalize, Inv, bounds, ChildInv, Holds, Working, Ending, StoresInv,
       OpenCardIsOwned, BoundCardExists, ReceiptHasEvidence, Recoverable, Active
  <2> QED
    BY <2>1, <2>2, <2>3, <2>4, <2>5 DEF Inv
<1>2. CASE /\ stream = "open"
           /\ \E d \in {"none", "pending"} :
                \/ SaveReply("terminal", "pending", d) /\ pc' = "finalEdit"
                \/ SaveReply("terminal", "delivered", d) /\ AfterText(d)
           /\ UNCHANGED <<auth, receipt, parent, channel, card, memory, inbox, unsure, bounds>>
  <2>u. unsure = {} /\ pc' \in {"finalEdit", "document", "finalized"}
    BY Zenon, <1>2 DEF Finalize, Inv, StreamInv, AfterText
  <2>r. reply' \in ReplyType /\ reply'.turn = turn /\ reply'.phase = "terminal"
    BY <1>0, <1>2, <2>u DEF Finalize, Inv, TypeOK, SaveReply, Reply, ReplyType
  <2>1. TypeOK'
    BY Zenon, <1>0, <1>2, <2>u, <2>r DEF Finalize, Inv, TypeOK, Turns, channel, memory, inbox, bounds
  <2>2. ChannelInv' /\ RequestInv' /\ AnswerInv'
    BY Zenon, <1>0, <1>2, <2>u, QuietStep DEF Finalize, Inv, Waiting
  <2>3. ChildInv'
    BY Zenon, <1>0, <1>2, <2>u, <2>r DEF Finalize, Inv, ChildInv, memory, Waiting, Holds, Recoverable, Working,
       Ending, Resting
  <2>4. StreamInv'
    BY Zenon, <1>0, <1>2, <2>u, <2>r DEF Finalize, Inv, StreamInv, ChildInv, Working, Ending, memory, Active
  <2>5. StoresInv'
    BY Zenon, <1>0, <1>2, <2>u, <2>r DEF Finalize, Inv, bounds, ChildInv, Holds, Working, Ending, StoresInv,
       OpenCardIsOwned, BoundCardExists, ReceiptHasEvidence, Recoverable, Active
  <2> QED
    BY <2>1, <2>2, <2>3, <2>4, <2>5 DEF Inv
<1>3. CASE Exit /\ UNCHANGED bounds
  BY <1>3, ExitKeepingBounds
<1> QED
  BY <1>1, <1>2, <1>3 DEF Finalize

LEMMA SaveFinalTextStep == ASSUME Inv, SaveFinalText PROVE Inv'
<1>0. receipt.turn = 0 /\ turn # 0
  BY Zenon DEF SaveFinalText, Inv, ChildInv, Ending, Holds, StoresInv, ReceiptHasEvidence
<1>u. unsure' = {} /\ unsure' \subseteq Turns /\ pc' \in {"document", "finalized"}
  BY Zenon DEF SaveFinalText, Inv, StreamInv, AfterText
<1>r. reply' \in ReplyType /\ reply'.turn = turn /\ reply'.phase = "terminal"
  BY <1>0, <1>u DEF SaveFinalText, Inv, TypeOK, SaveReply, Reply, ReplyType
<1>1. TypeOK'
  BY Zenon, <1>0, <1>u, <1>r DEF SaveFinalText, Inv, TypeOK, Turns, channel, memory, inbox, bounds
<1>2. ChannelInv' /\ RequestInv' /\ AnswerInv'
  BY Zenon, <1>0, <1>u, QuietStep DEF SaveFinalText, Inv, Waiting
<1>3. ChildInv'
  BY Zenon, <1>0, <1>u, <1>r DEF SaveFinalText, Inv, ChildInv, memory, Waiting, Holds, Recoverable, Working,
     Ending, Resting
<1>4. StreamInv'
  BY Zenon, <1>0, <1>u, <1>r DEF SaveFinalText, Inv, StreamInv, ChildInv, Working, Ending, memory, Active
<1>5. StoresInv'
  BY Zenon, <1>0, <1>u, <1>r DEF SaveFinalText, Inv, bounds, ChildInv, Holds, Working, Ending, StoresInv,
     OpenCardIsOwned, BoundCardExists, ReceiptHasEvidence, Recoverable, Active
<1> QED
  BY <1>1, <1>2, <1>3, <1>4, <1>5 DEF Inv

LEMMA EditFinalTextStep == ASSUME Inv, EditFinalText PROVE Inv'
<1>0. receipt.turn = 0 /\ turn # 0
  BY Zenon DEF EditFinalText, Inv, ChildInv, Ending, Holds, StoresInv, ReceiptHasEvidence
<1>f. ASSUME Fault PROVE bounds' \in (0..MaxCrashes) \X (0..MaxFaults) \X (0..MaxPublish) \X (0..MaxUpgrades) /\ upgrades' = upgrades
  BY <1>f, FaultStep DEF EditFinalText, Inv
<1>u. unsure = {}
  BY Zenon DEF EditFinalText, Inv, StreamInv
<1>1. CASE SaveReply("terminal", "delivered", reply.document) /\ AfterText(reply.document) /\ UNCHANGED <<stream, bounds>>
  <2>p. pc' \in {"document", "finalized"}
    BY <1>1 DEF EditFinalText, Inv, AfterText
  <2>r. reply' \in ReplyType /\ reply'.turn = turn /\ reply'.phase = "terminal"
    BY Zenon, <1>0, <1>1, <1>u, <2>p DEF EditFinalText, Inv, TypeOK, SaveReply, Reply, ReplyType
  <2>1. TypeOK'
    BY <1>0, <1>1, <1>u, <2>p, <2>r DEF EditFinalText, Inv, TypeOK, Turns, channel, memory, inbox,
       bounds
  <2>2. ChannelInv' /\ RequestInv' /\ AnswerInv'
    BY Zenon, <1>0, <1>1, <1>u, <2>p, QuietStep DEF EditFinalText, Inv, Waiting
  <2>3. ChildInv'
    BY Zenon, <1>0, <1>1, <1>u, <2>p, <2>r DEF EditFinalText, Inv, ChildInv, memory, Waiting, Holds,
       Recoverable, Working, Ending, Resting
  <2>4. StreamInv'
    BY Zenon, <1>0, <1>1, <1>u, <2>p, <2>r DEF EditFinalText, Inv, StreamInv, ChildInv, Working, Ending,
       memory, Active
  <2>5. StoresInv'
    BY Zenon, <1>0, <1>1, <1>u, <2>p, <2>r DEF EditFinalText, Inv, bounds, ChildInv, Holds, Working, Ending,
       StoresInv, OpenCardIsOwned, BoundCardExists, ReceiptHasEvidence, Recoverable, Active
  <2> QED
    BY <2>1, <2>2, <2>3, <2>4, <2>5 DEF Inv
<1>2. CASE Fault /\ stream' = "uncertain" /\ pc' = "finalized" /\ UNCHANGED reply
  <2>1. TypeOK'
    BY Zenon, <1>2, <1>f DEF EditFinalText, Inv, TypeOK, Turns, channel, memory, inbox, bounds
  <2>2. ChannelInv' /\ RequestInv' /\ AnswerInv'
    BY Zenon, <1>2, <1>f, QuietStep DEF EditFinalText, Inv, Waiting
  <2>3. ChildInv'
    BY Zenon, <1>2, <1>f DEF EditFinalText, Inv, ChildInv, memory, Waiting, Holds, Recoverable, Working,
       Ending, Resting
  <2>4. StreamInv'
    BY Zenon, <1>2, <1>f DEF EditFinalText, Inv, StreamInv, ChildInv, Working, Ending, memory, Active
  <2>5. StoresInv'
    BY Zenon, <1>2, <1>f, StoresKept DEF EditFinalText, Inv, bounds
  <2> QED
    BY <2>1, <2>2, <2>3, <2>4, <2>5 DEF Inv
<1> QED
  BY <1>1, <1>2 DEF EditFinalText

LEMMA SendDocumentStep == ASSUME Inv, SendDocument PROVE Inv'
<1>0. receipt.turn = 0 /\ turn # 0
  BY Zenon DEF SendDocument, Inv, ChildInv, Ending, Holds, StoresInv, ReceiptHasEvidence
<1>f. ASSUME Fault PROVE bounds' \in (0..MaxCrashes) \X (0..MaxFaults) \X (0..MaxPublish) \X (0..MaxUpgrades) /\ upgrades' = upgrades
  BY <1>f, FaultStep DEF SendDocument, Inv
<1>u. unsure = {}
  BY Zenon DEF SendDocument, Inv, StreamInv
<1>1. CASE SaveReply("terminal", "delivered", "delivered") /\ UNCHANGED <<stream, bounds>>
  <2>r. reply' \in ReplyType /\ reply'.turn = turn /\ reply'.phase = "terminal"
    BY Zenon, <1>0, <1>1, <1>u DEF SendDocument, Inv, TypeOK, SaveReply, Reply, ReplyType
  <2>1. TypeOK'
    BY Zenon, <1>0, <1>1, <1>u, <2>r DEF SendDocument, Inv, TypeOK, Turns, channel, memory, inbox, bounds
  <2>2. ChannelInv' /\ RequestInv' /\ AnswerInv'
    BY Zenon, <1>0, <1>1, <1>u, QuietStep DEF SendDocument, Inv, Waiting
  <2>3. ChildInv'
    BY Zenon, <1>0, <1>1, <1>u, <2>r DEF SendDocument, Inv, ChildInv, memory, Waiting, Holds, Recoverable,
       Working, Ending, Resting
  <2>4. StreamInv'
    BY Zenon, <1>0, <1>1, <1>u, <2>r DEF SendDocument, Inv, StreamInv, ChildInv, Working, Ending, memory,
       Active
  <2>5. StoresInv'
    BY Zenon, <1>0, <1>1, <1>u, <2>r DEF SendDocument, Inv, bounds, ChildInv, Holds, Working, Ending,
       StoresInv, OpenCardIsOwned, BoundCardExists, ReceiptHasEvidence, Recoverable, Active
  <2> QED
    BY <2>1, <2>2, <2>3, <2>4, <2>5 DEF Inv
<1>2. CASE Fault /\ stream' = "uncertain" /\ UNCHANGED reply
  <2>1. TypeOK'
    BY Zenon, <1>2, <1>f DEF SendDocument, Inv, TypeOK, Turns, channel, memory, inbox, bounds
  <2>2. ChannelInv' /\ RequestInv' /\ AnswerInv'
    BY Zenon, <1>2, <1>f, QuietStep DEF SendDocument, Inv, Waiting
  <2>3. ChildInv'
    BY Zenon, <1>2, <1>f DEF SendDocument, Inv, ChildInv, memory, Waiting, Holds, Recoverable, Working, Ending,
       Resting
  <2>4. StreamInv'
    BY Zenon, <1>2, <1>f DEF SendDocument, Inv, StreamInv, ChildInv, Working, Ending, memory, Active
  <2>5. StoresInv'
    BY Zenon, <1>2, <1>f, StoresKept DEF SendDocument, Inv, bounds
  <2> QED
    BY <2>1, <2>2, <2>3, <2>4, <2>5 DEF Inv
<1> QED
  BY <1>1, <1>2 DEF SendDocument

LEMMA ReleaseDurablyStep == ASSUME Inv, ReleaseDurably PROVE Inv'
<1>1. CASE /\ Confirmed /\ link
           /\ Send(Frame("release-durable", lease.turn, lease.id, "unbound", reply), "durableWait")
           /\ UNCHANGED <<auth, receipt, parent, link, card, reply, memory, inbox, unsure, bounds>>
  <2> DEFINE f == Frame("release-durable", lease.turn, lease.id, "unbound", reply)
  <2>1. /\ f.type = "release-durable" /\ f.turn = lease.turn /\ f.id = lease.id /\ f.evidence = reply
        /\ f # NoFrame /\ f \in FrameType(Requests \cup {"none"})
    BY Zenon DEF ReleaseDurably, Inv, TypeOK, LeaseType, NoFrame, Frame, FrameType, Requests, Phases
  <2>2. Send(f, "durableWait")
    BY <1>1 DEF ReleaseDurably, Inv
  <2> HIDE DEF f
  <2>3. TypeOK'
    BY Zenon, <1>1, <2>1, <2>2, EmptyFrame DEF ReleaseDurably, Inv, Send, TypeOK, Waiting, memory, inbox,
       bounds
  <2>4. ChannelInv' /\ AnswerInv'
    BY Zenon, <1>1, <2>1, <2>2, SendStep DEF ReleaseDurably, Inv, Waiting, RequestOf, Requests
  <2>5. RequestInv'
    BY Zenon, <1>1, <2>1, <2>2 DEF ReleaseDurably, Inv, RequestInv, Send, Confirmed, ChildInv, Ending, Holds,
       Recoverable, Active
  <2>6. ChildInv' /\ StreamInv'
    BY Zenon, <1>1, <2>2 DEF ReleaseDurably, Inv, Send, StreamInv, ChildInv, memory, Waiting, Holds,
       Recoverable, Working, Ending, Resting
  <2>7. StoresInv'
    BY Zenon, <1>1, StoresKept DEF ReleaseDurably, Inv, bounds
  <2> QED
    BY <2>3, <2>4, <2>5, <2>6, <2>7 DEF Inv
<1>2. CASE Exit /\ UNCHANGED bounds
  BY <1>2, ExitKeepingBounds
<1> QED
  BY <1>1, <1>2 DEF ReleaseDurably

LEMMA ConsumeReceiptStep == ASSUME Inv, ConsumeReceipt PROVE Inv'
<1>0. pc = "durableWait" /\ link /\ rep # NoFrame /\ rep.type = "release-durable" /\ req = NoFrame
  BY Zenon DEF ConsumeReceipt, Inv, Answered, ChannelInv, Waiting, RequestOf
<1> DEFINE f == Frame("consume", 0, 0, "unbound", rep.evidence)
<1>1. /\ lease' = NoLease /\ Send(f, "consumeWait")
      /\ UNCHANGED <<auth, receipt, parent, link, card, reply, turn, stream, outcome, retry, inbox,
                     unsure, bounds>>
  BY <1>0 DEF ConsumeReceipt, Inv, Answered
<1>2. /\ f.type = "consume" /\ f.evidence = rep.evidence /\ f # NoFrame
      /\ f \in FrameType(Requests \cup {"none"})
  BY SupervisedBounds DEF ConsumeReceipt, Inv, Answered, TypeOK, NoFrame, Frame, FrameType, Requests,
     Phases
<1> HIDE DEF f
<1>3. TypeOK'
  BY Zenon, <1>1, <1>2, EmptyFrame, EmptyValues DEF Inv, Send, TypeOK, Waiting, inbox, bounds
<1>4. ChannelInv' /\ AnswerInv'
  BY Zenon, <1>0, <1>1, <1>2, SendStep DEF ConsumeReceipt, Inv, Answered, Waiting, RequestOf, Requests
<1>5. RequestInv'
  BY Zenon, <1>0, <1>1, <1>2 DEF ConsumeReceipt, Inv, Answered, RequestInv, AnswerInv, Send
<1>6. ChildInv' /\ StreamInv'
  BY Zenon, <1>0, <1>1 DEF ConsumeReceipt, Inv, Answered, Send, NoLease, StreamInv, ChildInv, memory, Waiting,
     Holds, Recoverable, Working, Ending, Resting
<1>7. StoresInv'
  BY Zenon, <1>1, StoresKept DEF ConsumeReceipt, Inv, Answered, bounds
<1> QED
  BY <1>3, <1>4, <1>5, <1>6, <1>7 DEF Inv

\* The turn is over: the memory is as it was before, nothing is held and the card is closed.
LEMMA EndTurnStep ==
  ASSUME Inv, EndTurn, pc # "dead", req = NoFrame, rep # NoFrame,
         auth.turn = 0, receipt.turn = 0, ~Recoverable(card), card.readable
  PROVE  Inv'
<1>1. TypeOK'
  BY Zenon, EmptyFrame, EmptyValues DEF EndTurn, Forget, Inv, TypeOK, Waiting, bounds
<1>2. ChannelInv' /\ RequestInv' /\ AnswerInv'
  BY Zenon, SilentStep DEF EndTurn, Forget, Inv, Waiting
<1>3. ChildInv'
  BY Zenon DEF EndTurn, Forget, Inv, NoLease, ChildInv, memory, Waiting, Holds, Recoverable, Working, Ending,
     Resting
<1>4. StreamInv'
  BY Zenon DEF EndTurn, Forget, Inv, StreamInv
<1>5. StoresInv'
  BY Zenon, StoresKept DEF EndTurn, Forget, Inv, bounds
<1> QED
  BY <1>1, <1>2, <1>3, <1>4, <1>5 DEF Inv

LEMMA ConsumedStep == ASSUME Inv, Consumed PROVE Inv'
<1>1. pc = "consumeWait" /\ rep # NoFrame /\ rep.type = "consume" /\ req = NoFrame
  BY Zenon DEF Consumed, Answered, Inv, ChannelInv, Waiting, RequestOf
<1>2. auth.turn = 0 /\ receipt.turn = 0 /\ ~Recoverable(card) /\ card.readable
  BY Zenon, <1>1 DEF Inv, AnswerInv, ChildInv
<1> QED
  BY Zenon, <1>1, <1>2, EndTurnStep DEF Consumed, Answered

LEMMA ReleasedStep == ASSUME Inv, Released PROVE Inv'
<1>1. pc = "releaseWait" /\ rep # NoFrame /\ rep.type = "release" /\ req = NoFrame
  BY Zenon DEF Released, Answered, Inv, ChannelInv, Waiting, RequestOf
<1>2. auth.turn = 0 /\ receipt.turn = 0 /\ ~Recoverable(card) /\ card.readable
  BY Zenon, <1>1 DEF Inv, AnswerInv, ChildInv
<1> QED
  BY Zenon, <1>1, <1>2, EndTurnStep DEF Released, Answered

LEMMA ReleaseStep == ASSUME Inv, Release PROVE Inv'
<1>1. TypeOK'
  BY Zenon, ReleaseFrameFacts, EmptyFrame DEF Release, Inv, Send, TypeOK, Waiting, memory, inbox, bounds
<1>2. ChannelInv' /\ AnswerInv'
  BY Zenon, ReleaseFrameFacts, SendStep DEF Release, Inv, Waiting, RequestOf, Requests
<1>3. RequestInv'
  BY Zenon, ReleaseFrameFacts DEF Release, Inv, RequestInv, Send, ChildInv, Ending, Holds, Recoverable
<1>4. ChildInv' /\ StreamInv'
  BY Zenon DEF Release, Inv, Send, StreamInv, ChildInv, memory, Waiting, Holds, Recoverable, Working, Ending,
     Resting
<1>5. StoresInv'
  BY Zenon, StoresKept DEF Release, Inv, bounds
<1> QED
  BY <1>1, <1>2, <1>3, <1>4, <1>5 DEF Inv

LEMMA TapRetryStep == ASSUME Inv, TapRetry PROVE Inv'
<1>1. TypeOK'
  BY Zenon, EmptyValues DEF TapRetry, Inv, TypeOK, Turns, channel, memory, inbox, bounds
<1>2. ChannelInv' /\ RequestInv' /\ AnswerInv'
  BY Zenon, QuietStep DEF TapRetry, Inv, Waiting
<1>3. ChildInv'
  BY Zenon DEF TapRetry, Inv, ChildInv, memory, Waiting, Holds, Recoverable, Working, Ending, Resting
<1>4. StreamInv'
  BY Zenon DEF TapRetry, Inv, StreamInv, ChildInv, Working, Ending, memory, Active
<1>5. StoresInv'
  BY Zenon, StoresKept DEF TapRetry, Inv, bounds
<1> QED
  BY <1>1, <1>2, <1>3, <1>4, <1>5 DEF Inv

LEMMA RetryTurnStep == ASSUME Inv, RetryTurn PROVE Inv'
<1>0. 0 \in 0..MaxTurns
  BY EmptyValues
<1>1. TypeOK'
  BY Zenon, <1>0 DEF RetryTurn, Inv, TypeOK, Turns, channel, memory, inbox, bounds
<1>2. ChannelInv' /\ RequestInv' /\ AnswerInv'
  BY Zenon, <1>0, QuietStep DEF RetryTurn, Inv, Waiting
<1>3. ChildInv'
  BY Zenon, <1>0 DEF RetryTurn, Inv, ChildInv, memory, Waiting, Holds, Recoverable, Working, Ending, Resting
<1>4. StreamInv'
  BY Zenon, <1>0 DEF RetryTurn, Inv, StreamInv, ChildInv, Working, Ending, memory, Active
<1>5. StoresInv'
  BY Zenon, <1>0, StoresKept DEF RetryTurn, Inv, bounds
<1> QED
  BY <1>1, <1>2, <1>3, <1>4, <1>5 DEF Inv

LEMMA UpgradeStep == ASSUME Inv, Upgrade PROVE Inv'
<1>0. /\ card' \in CardType /\ card'.turn = card.turn /\ card'.phase = card.phase /\ card'.delivery = card.delivery
      /\ ~card'.readable
  BY Zenon DEF Upgrade, channel, memory, inbox, Inv, TypeOK, CardType
<1>1. upgrades' \in 0..MaxUpgrades /\ upgrades' > 0
  BY SupervisedBounds DEF Upgrade, channel, memory, inbox, Inv, Within, TypeOK
<1>2. TypeOK'
  BY Zenon, <1>0, <1>1 DEF Upgrade, channel, memory, inbox, Inv, TypeOK
<1>3. ChannelInv' /\ StreamInv'
  BY Zenon DEF Upgrade, channel, memory, inbox, Inv, ChannelInv, StreamInv, Waiting
<1>4. RequestInv' /\ AnswerInv'
  BY <1>0, <1>1 DEF Upgrade, channel, memory, inbox, Inv, RequestInv, AnswerInv, Holds, Recoverable,
     Active
<1>5. ChildInv'
  BY Zenon, <1>0 DEF Upgrade, channel, inbox, Inv, ChildInv, memory, Waiting, Holds, Recoverable, Working,
     Ending, Resting
<1>6. StoresInv'
  BY <1>0, <1>1 DEF Upgrade, channel, memory, inbox, Inv, StoresInv, OpenCardIsOwned, BoundCardExists,
     ReceiptHasEvidence, Recoverable, Active
<1> QED
  BY <1>2, <1>3, <1>4, <1>5, <1>6 DEF Inv

LEMMA ChildEndsStep == ASSUME Inv, ChildCrash \/ ChildLost \/ Timeout PROVE Inv'
<1>1. CASE ChildCrash
  <2>1. crashes' \in 0..MaxCrashes
    BY <1>1, SupervisedBounds DEF ChildCrash, Within, Inv, TypeOK
  <2> QED
    BY Zenon, <1>1, <2>1, ExitStep DEF ChildCrash, bounds, Inv, TypeOK
<1>2. CASE ChildLost
  BY <1>2, ExitKeepingBounds DEF ChildLost
<1>3. CASE Timeout
  <2>1. faults' \in 0..MaxFaults
    BY <1>3, SupervisedBounds DEF Timeout, Within, Inv, TypeOK
  <2> QED
    BY Zenon, <1>3, <2>1, ExitStep DEF Timeout, bounds, Inv, TypeOK
<1> QED
  BY <1>1, <1>2, <1>3
-----------------------------------------------------------------------------
\* A step that changes nothing.
LEMMA StutterStep == ASSUME Inv, UNCHANGED vars PROVE Inv'
<1> USE DEF vars, channel, memory, inbox, bounds, Inv
<1>1. TypeOK'
  BY DEF TypeOK
<1>2. ChannelInv' /\ StreamInv'
  BY Zenon DEF ChannelInv, StreamInv
<1>3. RequestInv' /\ AnswerInv'
  BY Zenon DEF RequestInv, AnswerInv, Holds
<1>4. ChildInv'
  BY Zenon, ChildKept
<1>5. StoresInv'
  BY Zenon, StoresKept
<1> QED
  BY Zenon, <1>1, <1>2, <1>3, <1>4, <1>5

\* Every step preserves the invariant.
LEMMA NextInv == Inv /\ [Next]_vars => Inv'
<1> SUFFICES ASSUME Inv, [Next]_vars PROVE Inv'
  OBVIOUS
<1>1. CASE ParentStep
  BY <1>1, HandleStep, ParentStartStep, SpawnStep, NoticeExitStep DEF ParentStep
<1>2. CASE BootStep
  BY <1>2, HelloStep, RecoveredStep, ConsumedAtBootStep, DiscardCardStep, BootUnleasedStep,
     BootLeasedStep, RecoverSendStep, BootReleaseStep, ReleasedAtBootStep DEF BootStep
<1>3. CASE TurnStep
  BY <1>3, CaptureTurnStep, CapturedStep, PrepareStep, BindCheckpointStep, BoundStep, IngressStep,
     StartStep, SendTextStep, SaveTextStep, EditTextStep, CloseCardStep, FinalizeStep,
     SaveFinalTextStep, EditFinalTextStep, SendDocumentStep, ReleaseDurablyStep, ConsumeReceiptStep,
     ConsumedStep, ReleaseStep, ReleasedStep, PanelFailedStep, RetryTurnStep DEF TurnStep
<1>4. CASE WorkStep
  BY <1>4, EditCardStep, AppendStep, EndWorkStep DEF WorkStep
<1>5. CASE Accident \/ ChildLost \/ Receive \/ TapRetry \/ Acknowledge
  BY <1>5, ParentCrashStep, ChildEndsStep, UpgradeStep, OperatorRestartStep, ReceiveStep,
     TapRetryStep, AcknowledgeStep DEF Accident
<1>6. CASE UNCHANGED vars
  BY <1>6, StutterStep
<1> QED
  BY <1>1, <1>2, <1>3, <1>4, <1>5, <1>6 DEF Next

LEMMA InvImpliesOwnership == Inv => OwnershipIsConsistent
<1> SUFFICES ASSUME Inv PROVE LeaseIsAuthority
  BY Zenon DEF Inv, OwnershipIsConsistent, StoresInv
<1>1. CASE pc \in {"dead", "hello", "helloWait", "consumeBoot", "captureWait", "consumeWait"} \cup Resting
  BY Zenon, <1>1 DEF Inv, ChildInv, LeaseIsAuthority
<1>2. CASE pc \in {"boot", "recoverSend", "bootRelease"}
  BY Zenon, <1>2 DEF Inv, ChildInv, Holds, LeaseIsAuthority
<1>3. CASE pc \in {"prepare", "bind", "bindWait"} \cup Working \cup Ending
  BY Zenon, <1>3 DEF Inv, ChildInv, Holds, LeaseIsAuthority
<1>4. CASE pc \in {"releaseWait", "releaseBoot", "durableWait"}
  BY <1>4 DEF LeaseIsAuthority
<1> QED
  BY Zenon, <1>1, <1>2, <1>3, <1>4 DEF Inv, TypeOK, Waiting, Working, Ending, Resting

LEMMA InvImpliesAuthorized == Inv => EffectsAreAuthorized
<1> SUFFICES ASSUME Inv PROVE EffectsAreAuthorized
  OBVIOUS
<1>1. EffectsNeedBoundAuthority
  BY Zenon DEF Inv, ChildInv, Working, Ending, Holds, EffectsNeedBoundAuthority
<1>2. NoBlindResend
  BY Zenon DEF Inv, StreamInv, NoBlindResend
<1>3. NothingIsRefused
  BY DEF Inv, ChannelInv, NoFrame, Frame, Requests, NothingIsRefused
<1> QED
  BY <1>1, <1>2, <1>3 DEF EffectsAreAuthorized

\* Whatever was stopped, lost, refused or published halfway, and however often: a lease that the
\* child may use is the supervisor's authority, an open card belongs to the turn in authority, a bound
\* authority has its card unless one was moved aside, and a receipt comes with the reply it covers.
THEOREM Ownership == Spec => []OwnershipIsConsistent
<1>1. Inv => OwnershipIsConsistent
  BY InvImpliesOwnership
<1> QED
  BY <1>1, InitInv, NextInv, PTL DEF Spec

\* The child acts outside only for a turn that the supervisor durably holds as bound, a first
\* message that may have been sent is never sent again, and the supervisor refuses nothing.
THEOREM Effects == Spec => []EffectsAreAuthorized
<1>1. Inv => EffectsAreAuthorized
  BY InvImpliesAuthorized
<1> QED
  BY <1>1, InitInv, NextInv, PTL DEF Spec
=============================================================================
