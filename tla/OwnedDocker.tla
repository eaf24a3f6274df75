----------------------------- MODULE OwnedDocker -----------------------------
(***************************************************************************)
(* Containers and networks that the parent process owns: the SQLite ledger  *)
(* of execution-owned-docker-resources.ts, the brokers that talk to the     *)
(* Docker Engine (docker-engine-pinned-session.ts) and the recovery that    *)
(* runs before the first child (owned-docker-parent-recovery-manager.ts).   *)
(*                                                                         *)
(* The intent to create is durable before the request is sent, and an       *)
(* answer may be lost, so after a crash an object may appear in the Engine  *)
(* that nobody is waiting for.  A row leaves the ledger only when its       *)
(* object was seen and removed, or when its request was never sent.         *)
(*                                                                         *)
(* One process at a time holds the ledger (its writer lease).  It is either *)
(* the recovery manager or a direct user of the ledger's interface; each    *)
(* slot of `task' is one call in progress, and a step of it runs from one   *)
(* await to the next.  At most one create request is sent for a resource,   *)
(* so a name stands for the object identifier as well.  Hashes, labels,     *)
(* endpoint identity and the wire format are left out: an answer that does  *)
(* not match them is an ambiguous answer here.                              *)
(***************************************************************************)
EXTENDS Naturals, Sequences, FiniteSets

CONSTANTS KindOf,    \* the sidecar kind of each operation, in order of preparation
          Slots,     \* calls that may be in progress at once
          MaxEpoch,  \* largest manager epoch (MAX_OPERATION_SEQUENCE)
          MaxBoots,  \* how often a process opens the ledger
          MaxLost    \* objects that somebody else removes from the Engine

VARIABLES mgr,     \* ledger_meta: state and epoch
          rows,    \* phase of each resource; "none" when the row is absent
          seq,     \* operation_seq of ledger_meta
          obj,     \* the Engine's objects
          flight,  \* create requests on their way to the Engine
          who,     \* the process that holds the ledger
          pc,      \* progress of recoverBeforeFirstChild
          handle,  \* the process holds the handle of the current active epoch
          owned,   \* operations whose handle the process holds
          noDisc,  \* noDiscoveryOutcomeRoles of those handles
          task,    \* calls in progress
          boots, lost

vars == <<mgr, rows, seq, obj, flight, who, pc, handle, owned, noDisc, task, boots, lost>>
ledger == <<mgr, rows, seq>>
engine == <<obj, flight, lost>>
memory == <<who, pc, handle, owned, noDisc, boots>>

Ops == 1 .. Len(KindOf)
Roles == {"worker", "gateway", "network"}
Names == Ops \X Roles
Absent == [n \in Names |-> "none"]

expectedRoles(o) == IF KindOf[o] = "restricted-clone" THEN Roles ELSE {"worker"}

Present(f) == {n \in Names : f[n] # "none"}
\* The questions asked of the Engine, and what a removal leaves.
scanInstallation == Present(obj)
inspectById(n) == obj[n]
removeById(n) == [obj EXCEPT ![n] = "none"]
\* listOperations: the operations that have a row.
listOperations == {n[1] : n \in Present(rows)}
ResourcesOf(o) == {n \in Present(rows) : n[1] = o}

Idle == [kind |-> "idle", op |-> 0, role |-> "worker", step |-> "none", epoch |-> 0,
         snap |-> Absent, found |-> {}, todo |-> <<>>]
Call(k, o, r, st) == [Idle EXCEPT !.kind = k, !.op = o, !.role = r, !.step = st, !.epoch = mgr.epoch]
Running(kinds) == {s \in Slots : task[s].kind \in kinds}

Init ==
  /\ mgr = [state |-> "recovery", epoch |-> 1]
  /\ rows = Absent /\ seq = 0
  /\ obj = Absent /\ flight = {} /\ lost = 0
  /\ who = "none" /\ pc = "none" /\ handle = FALSE /\ owned = {} /\ noDisc = {}
  /\ task = [s \in Slots |-> Idle]
  /\ boots = 0

-----------------------------------------------------------------------------
(* makeLedger: what every operation of the ledger checks and changes. *)

assertState(state, epoch) == mgr.state = state /\ mgr.epoch = epoch

Dispatching == Running({"create", "use", "complete", "attempted", "bound", "activate"}) # {}

enterRecovery ==
  /\ ~Dispatching
  /\ IF mgr.state = "recovery"
     THEN UNCHANGED <<mgr, handle, owned, noDisc>>
     ELSE /\ mgr.epoch < MaxEpoch
          /\ mgr' = [state |-> "recovery", epoch |-> mgr.epoch + 1]
          /\ handle' = FALSE /\ owned' = {} /\ noDisc' = {}

activateAfterZero(epoch) ==
  /\ assertState("recovery", epoch) /\ Running({"create", "use", "complete", "attempted", "bound"}) = {}
  /\ listOperations = {} /\ epoch < MaxEpoch
  /\ mgr' = [state |-> "active", epoch |-> epoch + 1]

\* bind: an attempted row takes the object's identifier; a bound one keeps it.
CanBind(n, epoch) == mgr.epoch = epoch /\ rows[n] \in {"attempted", "bound"}
Bound(names) == [n \in Names |-> IF n \in names THEN "bound" ELSE rows[n]]
Deleted(o) == [n \in Names |-> IF n[1] = o THEN "none" ELSE rows[n]]

-----------------------------------------------------------------------------
(* The process: opening, the end of a call, and the recovery manager. *)

Off == /\ who' = "none" /\ pc' = "none" /\ handle' = FALSE /\ owned' = {} /\ noDisc' = {}
       /\ task' = [s \in Slots |-> Idle] /\ UNCHANGED boots

\* A call ends; a recovery manager whose call failed closes its ledger.
End(s, ok) == IF who = "manager" /\ ~ok THEN Off
              ELSE task' = [task EXCEPT ![s] = Idle] /\ UNCHANGED memory
\* An exchange that is refused, cut, late or malformed fails the call.
exchangeFails(s) == End(s, FALSE)
Step(s, st) == task' = [task EXCEPT ![s].step = st] /\ UNCHANGED memory

openActivatedOwnedDockerResourceLedger ==
  /\ who = "none" /\ boots < MaxBoots
  /\ \E w \in {"manager", "direct"} :
       who' = w /\ pc' = (IF w = "manager" THEN "probe" ELSE "none")
  /\ boots' = boots + 1
  /\ UNCHANGED <<ledger, engine, handle, owned, noDisc, task>>

\* The process ends, at any moment; what it sent stays sent.
Crash == who # "none" /\ Off /\ UNCHANGED <<ledger, engine>>

\* enterOwnedDockerParentRecoveryAfterPinnedProbe, or a probe that fails.
ManagerProbe ==
  /\ who = "manager" /\ pc = "probe"
  /\ \/ enterRecovery /\ pc' = "run" /\ UNCHANGED <<rows, seq, who, task, boots>>
     \/ Off /\ UNCHANGED ledger
  /\ UNCHANGED engine

Unsupported == \/ Cardinality(listOperations) > 1
               \/ \E o \in listOperations : ResourcesOf(o) # {<<o, "worker">>}

\* recoverBeforeFirstChild: the one call that the only row asks for.
recoverBeforeFirstChild(s) ==
  /\ who = "manager" /\ pc = "run" /\ task[s] = Idle /\ Running({"idle"}) = Slots
  /\ IF Unsupported THEN Off /\ UNCHANGED <<ledger, engine>>
     ELSE \/ /\ listOperations = {}
             /\ task' = [task EXCEPT ![s] = Call("activate", 0, "worker", "containers")]
             /\ UNCHANGED <<ledger, engine, memory>>
          \/ \E o \in listOperations :
               LET phase == rows[<<o, "worker">>] IN
               IF phase = "prepared"
               THEN rows' = Deleted(o) /\ UNCHANGED <<mgr, seq, engine, memory, task>>
               ELSE /\ task' = [task EXCEPT ![s] = Call(phase, o, "worker", "inspect")]
                    /\ UNCHANGED <<ledger, engine, memory>>

-----------------------------------------------------------------------------
(* Recovery of one operation, and activation. *)

\* recoverPreparedOperation: no create request of it was ever sent.
recoverPreparedOperation(o) ==
  /\ who = "direct" /\ mgr.state = "recovery" /\ Running({"activate"}) = {}
  /\ o \in listOperations /\ \A n \in ResourcesOf(o) : rows[n] = "prepared"
  /\ rows' = Deleted(o)
  /\ UNCHANGED <<mgr, seq, engine, memory, task>>

\* recoverAttemptedContainer begins: one look at a time for an operation.
recoverAttemptedContainer(s, o) ==
  /\ who = "direct" /\ task[s] = Idle /\ mgr.state = "recovery" /\ Running({"activate"}) = {}
  /\ rows[<<o, "worker">>] = "attempted"
  /\ ~ \E t \in Running({"attempted"}) : task[t].op = o
  /\ task' = [task EXCEPT ![s] = Call("attempted", o, "worker", "inspect")]
  /\ UNCHANGED <<ledger, engine, memory>>

\* recoverBoundContainer begins: operations of one resource, one at a time.
recoverBoundContainer(s, o) ==
  /\ who = "direct" /\ task[s] = Idle /\ mgr.state = "recovery" /\ Running({"activate", "bound"}) = {}
  /\ ResourcesOf(o) = {<<o, "worker">>} /\ rows[<<o, "worker">>] = "bound"
  /\ task' = [task EXCEPT ![s] = Call("bound", o, "worker", "inspect")]
  /\ UNCHANGED <<ledger, engine, memory>>

\* activateAfterInstallationZero begins: no row and no other call.
activateAfterInstallationZero(s) ==
  /\ who = "direct" /\ task[s] = Idle /\ mgr.state = "recovery" /\ ~Dispatching /\ listOperations = {}
  /\ task' = [task EXCEPT ![s] = Call("activate", 0, "worker", "containers")]
  /\ UNCHANGED <<ledger, engine, memory>>

\* Each permit is consumed once, after the connection was attested, and only
\* while the ledger is still as it was when the permit was given.
AttemptedPermit(t) == assertState("recovery", t.epoch) /\ rows[<<t.op, "worker">>] = "attempted"
CleanupPermit(t) == assertState("recovery", t.epoch) /\ ResourcesOf(t.op) = {<<t.op, "worker">>}
ActivationPermit(t) == assertState("recovery", t.epoch) /\ listOperations = {}
assertExpectedRecoveryBinding(n) == rows[n] = "bound"
\* What a broker checks before and after every await of a recovery call.
assertRecoveryAuthority(t) == assertState("recovery", t.epoch)
assertInstallationWideZero(roles) == {n \in scanInstallation : n[2] \in roles} = {}

\* inspectExactAttemptedContainer and the bind of what it found.  An object
\* that is not visible yet leaves the durable intent where it is.
inspectExact(s) ==
  LET t == task[s]  n == <<t.op, "worker">> IN
  /\ t.kind = "attempted"
  /\ \/ /\ t.step = "inspect" /\ AttemptedPermit(t)
        /\ IF inspectById(n) = "none" THEN End(s, FALSE) ELSE Step(s, "bind")
        /\ UNCHANGED rows
     \/ /\ t.step = "bind" /\ assertState("recovery", t.epoch) /\ rows[n] = "attempted"
        /\ rows' = Bound({n}) /\ End(s, TRUE)
     \/ exchangeFails(s) /\ UNCHANGED rows
  /\ UNCHANGED <<mgr, seq, engine>>

\* removeExactOwnedDockerResource with requireInstallationZero, then the row.
removeBoundContainer(s) ==
  LET t == task[s]  n == <<t.op, "worker">> IN
  /\ t.kind = "bound"
  /\ \/ /\ t.step = "inspect" /\ CleanupPermit(t) /\ assertExpectedRecoveryBinding(n)
        /\ Step(s, IF inspectById(n) = "none" THEN "zero" ELSE "delete")
        /\ UNCHANGED <<rows, obj>>
     \/ /\ t.step = "delete" /\ assertRecoveryAuthority(t)
        /\ obj' = removeById(n)
        /\ Step(s, "zero") \/ End(s, FALSE)
        /\ UNCHANGED rows
     \/ /\ t.step = "zero" /\ assertRecoveryAuthority(t) /\ assertInstallationWideZero(Roles) /\ Step(s, "row") /\ UNCHANGED <<rows, obj>>
     \/ /\ t.step = "row" /\ assertState("recovery", t.epoch) /\ rows[n] = "bound"
        /\ rows' = Deleted(t.op) /\ End(s, TRUE) /\ UNCHANGED obj
     \/ exchangeFails(s) /\ UNCHANGED <<rows, obj>>
  /\ UNCHANGED <<mgr, seq, flight, lost>>

\* commitOwnedDockerRecoveryActivationOutcomeV1: the durable commit point.
commitActivation(s) ==
  /\ activateAfterZero(task[s].epoch)
  /\ handle' = TRUE /\ pc' = (IF who = "manager" THEN "ready" ELSE pc)
  /\ task' = [task EXCEPT ![s] = Idle]
  /\ UNCHANGED <<who, owned, noDisc, boots>>

\* proveInstallationZeroAndActivate: no container, then no network, and the
\* commit in the same continuation as the second answer.
proveInstallationZeroAndActivate(s) ==
  LET t == task[s] IN
  /\ t.kind = "activate"
  /\ \/ /\ t.step = "containers" /\ ActivationPermit(t) /\ assertInstallationWideZero({"worker", "gateway"})
        /\ Step(s, "networks") /\ UNCHANGED mgr
     \/ t.step = "networks" /\ assertInstallationWideZero({"network"}) /\ commitActivation(s)
     \/ exchangeFails(s) /\ UNCHANGED mgr
  /\ UNCHANGED <<rows, seq, engine>>

-----------------------------------------------------------------------------
(* The active epoch: prepare, create, use. *)

\* prepare: every resource of the operation gets a prepared row.
prepare ==
  /\ who = "direct" /\ handle /\ seq < Len(KindOf)
  /\ seq' = seq + 1
  /\ rows' = [n \in Names |-> IF n[1] = seq' /\ n[2] \in expectedRoles(seq') THEN "prepared" ELSE rows[n]]
  /\ owned' = owned \union {seq'}
  /\ UNCHANGED <<mgr, engine, who, pc, handle, noDisc, task, boots>>

\* beginOperationDispatch: the handle is open and its epoch is current.
beginOperationDispatch(s, o) ==
  /\ who = "direct" /\ task[s] = Idle /\ o \in owned /\ mgr.state = "active"
  /\ ~ \E t \in Running({"complete"}) : task[t].op = o

\* create: the intent is durable before anything is sent.
create(s, o, r) ==
  LET n == <<o, r>> IN
  /\ beginOperationDispatch(s, o) /\ rows[n] # "none"
  /\ ~(rows[n] = "attempted" /\ n \in noDisc)
  /\ rows' = IF rows[n] = "prepared" THEN [rows EXCEPT ![n] = "attempted"] ELSE rows
  /\ task' = [task EXCEPT ![s] = Call("create", o, r, IF rows[n] = "prepared" THEN "send" ELSE "list")]
  /\ UNCHANGED <<mgr, seq, engine, memory>>

\* consumeOwnedDockerAttemptedCreatePermitV1.
CreatePermit(t) == assertState("active", t.epoch) /\ rows[<<t.op, t.role>>] = "attempted"
\* A transport that fails while it is prepared leaves the permit unused.
prepareTransportFails(s) == Step(s, "list")

\* runPreparedContainerCreate: the permit is consumed and the request sent.
runPreparedContainerCreate(s) ==
  LET t == task[s]  n == <<t.op, t.role>> IN
  /\ t.kind = "create" /\ t.step = "send"
  /\ \/ CreatePermit(t) /\ flight' = flight \union {n} /\ Step(s, "answer")
     \/ prepareTransportFails(s) /\ UNCHANGED flight
  /\ UNCHANGED <<ledger, obj, lost>>

\* The outcome of a consumed permit: an attested object is bound, any other
\* answer leaves the create unresolved, and this handle never looks again.
createOutcome(s) ==
  LET t == task[s]  n == <<t.op, t.role>> IN
  /\ t.kind = "create" /\ t.step = "answer"
  /\ \/ inspectById(n) # "none" /\ rows[n] = "attempted" /\ CanBind(n, t.epoch) /\ rows' = Bound({n})
     \/ UNCHANGED rows
  /\ noDisc' = noDisc \union {n} /\ task' = [task EXCEPT ![s] = Idle]
  /\ UNCHANGED <<mgr, seq, engine, who, pc, handle, owned, boots>>

\* scanAndValidate: every object of the installation has a row past prepared.
scanAndValidate(all) == \A n \in scanInstallation : all[n] \in {"attempted", "bound"}

\* discover: the scan, the name and the identifier must agree.
discover(s) ==
  LET t == task[s]  n == <<t.op, t.role>> IN
  /\ t.kind = "create"
  /\ \/ /\ t.step = "list" /\ rows[n] = "attempted"
        /\ task' = [task EXCEPT ![s].step = "scan", ![s].snap = rows]
        /\ UNCHANGED <<rows, memory>>
     \/ t.step = "scan" /\ scanAndValidate(t.snap) /\ inspectById(n) # "none" /\ Step(s, "named") /\ UNCHANGED rows
     \/ /\ t.step = "named" /\ inspectById(n) # "none" /\ assertState("active", t.epoch) /\ CanBind(n, t.epoch)
        /\ rows' = Bound({n}) /\ End(s, TRUE)
     \/ /\ t.step \in {"list", "scan", "named"} /\ exchangeFails(s) /\ UNCHANGED rows
  /\ UNCHANGED <<mgr, seq, engine>>

\* useContainer begins on a bound container.
useContainer(s, o, r) ==
  /\ beginOperationDispatch(s, o) /\ r # "network" /\ rows[<<o, r>>] = "bound"
  /\ task' = [task EXCEPT ![s] = Call("use", o, r, "inspect")]
  /\ UNCHANGED <<ledger, engine, memory>>

\* consumeOwnedDockerBoundContainerUsePermitV1.
UsePermit(t) == assertState("active", t.epoch) /\ rows[<<t.op, t.role>>] = "bound"
\* Only a container that never ran is started, and only an exited one counts.
assertBoundUseCreated(n) == inspectById(n) = "created"
assertBoundUseTerminal(n) == inspectById(n) = "exited"

\* The broker's run: the container is inspected, the permit consumed, the
\* container must be fresh, it is started and waited for.
BoundUse(s) ==
  LET t == task[s]  n == <<t.op, t.role>> IN
  /\ t.kind = "use"
  /\ \/ t.step = "inspect" /\ inspectById(n) # "none" /\ Step(s, "fresh") /\ UNCHANGED obj
     \/ t.step = "fresh" /\ UsePermit(t) /\ assertBoundUseCreated(n) /\ Step(s, "start") /\ UNCHANGED obj
     \/ /\ t.step = "start"
        /\ IF inspectById(n) = "created"
           THEN obj' = [obj EXCEPT ![n] = "running"] /\ Step(s, "wait")
           ELSE UNCHANGED obj /\ End(s, FALSE)
     \/ t.step = "wait" /\ assertBoundUseTerminal(n) /\ End(s, TRUE) /\ UNCHANGED obj
     \/ exchangeFails(s) /\ UNCHANGED obj
  /\ UNCHANGED <<ledger, flight, lost>>

-----------------------------------------------------------------------------
(* reconcileScope: completion of one operation, or recovery of all. *)

\* complete: no other call of this operation is in progress.
complete(s, o) ==
  /\ beginOperationDispatch(s, o)
  /\ ~ \E t \in Running({"create", "use"}) : task[t].op = o
  /\ task' = [task EXCEPT ![s] = [Call("complete", o, "worker", "scan") EXCEPT !.snap = rows]]
  /\ UNCHANGED <<ledger, engine, memory>>

\* reconcileOwnedDockerResources.  It holds no dispatch of the ledger.
reconcileOwnedDockerResources(s) ==
  /\ who = "direct" /\ task[s] = Idle /\ enterRecovery
  /\ task' = [task EXCEPT ![s] = [Idle EXCEPT !.kind = "reconcile", !.step = "scan",
                                              !.epoch = mgr'.epoch, !.snap = rows]]
  /\ UNCHANGED <<rows, seq, engine, who, pc, boots>>

StateOf(t) == IF t.kind = "complete" THEN "active" ELSE "recovery"
TargetOps(t) == {n[1] : n \in Present(t.snap)} \cap (IF t.kind = "complete" THEN {t.op} ELSE Ops)
TargetNames(t) == {n \in Present(t.snap) : n[1] \in TargetOps(t)}

\* Removal order: workers, gateways, networks; then by operation.
rank(n) == (CASE n[2] = "worker" -> 1 [] n[2] = "gateway" -> 2 [] OTHER -> 3) * (Len(KindOf) + 1) + n[1]
Sorted(S) == CHOOSE q \in [1 .. Cardinality(S) -> S] :
               \A i, j \in 1 .. Cardinality(S) : i < j => rank(q[i]) < rank(q[j])

\* The first scan, and the bind of every attempted row whose object it found.
reconcileScan(s) ==
  LET t == task[s]
      found == scanInstallation \cap TargetNames(t)
      bound == {n \in found : t.snap[n] = "attempted"} IN
  /\ t.kind \in {"complete", "reconcile"} /\ t.step = "scan"
  /\ scanAndValidate(t.snap) /\ assertState(StateOf(t), t.epoch) /\ \A n \in bound : CanBind(n, t.epoch)
  /\ rows' = Bound(bound)
  /\ task' = [task EXCEPT ![s].step = "absent", ![s].found = found, ![s].snap = rows', ![s].todo = Sorted(found)]
  /\ UNCHANGED <<mgr, seq, engine, memory>>

\* Mutant: an attempted create that is not visible counts as absent.
reconcileAbsentLenient(s) ==
  LET t == task[s] IN
  /\ t.kind \in {"complete", "reconcile"} /\ t.step = "absent"
  /\ \A n \in TargetNames(t) \ t.found : inspectById(n) = "none"
  /\ Step(s, "remove")
  /\ UNCHANGED <<ledger, engine>>

\* What the scan did not find must be absent by name and by identifier too;
\* a create that was attempted and is not visible stays unresolved.
reconcileAbsent(s) ==
  LET t == task[s] IN
  /\ t.kind \in {"complete", "reconcile"} /\ t.step = "absent"
  /\ \A n \in TargetNames(t) \ t.found : inspectById(n) = "none" /\ t.snap[n] # "attempted"
  /\ Step(s, "remove")
  /\ UNCHANGED <<ledger, engine>>

Endpoints(n) == {m \in Names : m[1] = n[1] /\ m[2] # "network" /\ obj[m] = "running"}

\* One removal: inspect, remove by identifier, inspect again.
reconcileRemove(s) ==
  LET t == task[s]  n == Head(t.todo) IN
  /\ t.kind \in {"complete", "reconcile"}
  /\ \/ /\ t.step = "remove" /\ t.todo # <<>> /\ inspectById(n) # "none"
        /\ n[2] = "network" => Endpoints(n) = {}
        /\ assertState(StateOf(t), t.epoch)
        /\ Step(s, "delete") /\ UNCHANGED obj
     \/ /\ t.step = "remove" /\ t.todo # <<>> /\ inspectById(n) = "none"
        /\ task' = [task EXCEPT ![s].todo = Tail(@)] /\ UNCHANGED <<obj, memory>>
     \/ /\ t.step = "delete"
        /\ obj' = removeById(n)
        /\ \/ task' = [task EXCEPT ![s].step = "remove", ![s].todo = Tail(@)] /\ UNCHANGED memory
           \/ End(s, FALSE)
     \/ /\ t.step = "remove" /\ t.todo = <<>>
        /\ assertState(StateOf(t), t.epoch) /\ scanAndValidate(rows)
        /\ \A n2 \in scanInstallation : n2[1] \notin TargetOps(t)
        /\ Step(s, "rows") /\ UNCHANGED obj
  /\ UNCHANGED <<ledger, flight, lost>>

\* The rows of the targets go one operation after the other.
reconcileRows(s) ==
  LET t == task[s] IN
  /\ t.kind \in {"complete", "reconcile"} /\ t.step = "rows"
  /\ IF TargetOps(t) = {} THEN /\ (t.kind = "reconcile" => scanInstallation = {})
                               /\ End(s, TRUE) /\ UNCHANGED rows
     ELSE LET o == CHOOSE x \in TargetOps(t) : \A y \in TargetOps(t) : x <= y IN
          /\ \A n \in TargetNames(t) : n[1] = o => inspectById(n) = "none"
          /\ assertState(StateOf(t), t.epoch) /\ ResourcesOf(o) # {}
          /\ rows' = Deleted(o)
          /\ task' = [task EXCEPT ![s].snap = [n \in Names |-> IF n[1] = o THEN "none" ELSE @[n]]]
          /\ UNCHANGED memory
  /\ UNCHANGED <<mgr, seq, engine>>

\* Every other answer on the way ends the call with an error.
reconcileFails(s) ==
  /\ task[s].kind \in {"complete", "reconcile"} /\ End(s, FALSE)
  /\ UNCHANGED <<ledger, engine>>

reconcileScope(s) ==
  reconcileScan(s) \/ reconcileAbsent(s) \/ reconcileRemove(s) \/ reconcileRows(s) \/ reconcileFails(s)

-----------------------------------------------------------------------------
(* The Docker Engine (external). *)

EngineCreates == \E n \in flight : /\ flight' = flight \ {n}
                                   /\ obj' = [obj EXCEPT ![n] = "created"] /\ UNCHANGED lost
EngineDrops == \E n \in flight : flight' = flight \ {n} /\ UNCHANGED <<obj, lost>>
EngineExits == \E n \in Names : /\ obj[n] = "running" /\ obj' = [obj EXCEPT ![n] = "exited"]
                                /\ UNCHANGED <<flight, lost>>
EngineLoses == \E n \in Present(obj) : /\ lost < MaxLost /\ lost' = lost + 1
                                       /\ obj' = [obj EXCEPT ![n] = "none"] /\ UNCHANGED flight
Engine == /\ EngineCreates \/ EngineDrops \/ EngineExits \/ EngineLoses
          /\ UNCHANGED <<ledger, memory, task>>

Next ==
  \/ openActivatedOwnedDockerResourceLedger \/ Crash \/ ManagerProbe \/ prepare \/ Engine
  \/ \E o \in Ops : recoverPreparedOperation(o)
  \/ \E s \in Slots :
       \/ recoverBeforeFirstChild(s) \/ inspectExact(s) \/ removeBoundContainer(s)
       \/ proveInstallationZeroAndActivate(s) \/ activateAfterInstallationZero(s)
       \/ runPreparedContainerCreate(s) \/ createOutcome(s) \/ discover(s) \/ BoundUse(s)
       \/ reconcileOwnedDockerResources(s) \/ reconcileScope(s)
       \/ \E o \in Ops : recoverAttemptedContainer(s, o) \/ recoverBoundContainer(s, o) \/ complete(s, o)
       \/ \E n \in Names : create(s, n[1], n[2]) \/ useContainer(s, n[1], n[2])

Spec == Init /\ [][Next]_vars

-----------------------------------------------------------------------------
(* Properties. *)

Phases == {"none", "prepared", "attempted", "bound"}
TypeOK ==
  /\ mgr \in [state : {"recovery", "active"}, epoch : 1 .. MaxEpoch] /\ seq \in 0 .. Len(KindOf)
  /\ rows \in [Names -> Phases] /\ obj \in [Names -> {"none", "created", "running", "exited"}]
  /\ flight \subseteq Names /\ owned \subseteq Ops /\ noDisc \subseteq Names
  /\ who \in {"none", "manager", "direct"} /\ pc \in {"none", "probe", "run", "ready"}

\* Every object in the Engine, and every request that may still become one,
\* is covered by a durable row that recovery will look at.
NothingIsOrphaned == \A n \in Present(obj) \union flight : rows[n] \in {"attempted", "bound"}

\* A container that was started is bound: it is never run on an unproven row.
StartedIsBound == \A n \in Names : obj[n] \in {"running", "exited"} => rows[n] = "bound"

\* What is about to be removed is exactly what a bound row names.
Removing(t) == IF t.kind = "bound" THEN <<t.op, "worker">> ELSE Head(t.todo)
RemovalIsExact == \A s \in Slots :
  task[s].step = "delete" /\ obj[Removing(task[s])] # "none" => rows[Removing(task[s])] = "bound"

\* No container is removed under a call that is using or creating it.  (A
\* reconciliation is not counted as a dispatch and may outlive its epoch; by
\* then it removes nothing.)
UseIsUndisturbed == \A s, u \in Slots :
  /\ task[s].step = "delete" /\ task[u].kind \in {"create", "use"}
       => Removing(task[s])[1] # task[u].op
  /\ task[s].kind = "complete" /\ task[u].kind \in {"create", "use"} => task[s].op # task[u].op

\* A call of the active epoch, and a counted call of recovery, never outlives
\* the epoch it was granted in.
CallsAreCurrent == \A s \in Slots :
  /\ task[s].kind \in {"create", "use", "complete"} => mgr = [state |-> "active", epoch |-> task[s].epoch]
  /\ task[s].kind \in {"attempted", "bound", "activate"} => mgr = [state |-> "recovery", epoch |-> task[s].epoch]

\* While an activation is in progress, and when the manager reports ready,
\* no row, no object and no request of the installation is left.
ReadyMeansZero ==
  Running({"activate"}) # {} \/ (who = "manager" /\ pc = "ready")
    => listOperations = {} /\ Present(obj) = {} /\ flight = {}

\* The ledger owns what is in the Engine: nothing is orphaned, started or
\* removed without a bound row, no call is disturbed or outlives its epoch,
\* and an epoch is activated from zero, whatever is late, lost or crashed.
OwnershipHolds == /\ TypeOK /\ NothingIsOrphaned /\ StartedIsBound /\ RemovalIsExact
                  /\ UseIsUndisturbed /\ CallsAreCurrent /\ ReadyMeansZero
=============================================================================
