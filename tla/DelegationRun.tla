---------------------------- MODULE DelegationRun ----------------------------
(***************************************************************************)
(* One durable delegation run: the manager of the goal DAG                  *)
(* (core-ts/src/orchestration/index.ts), the bounded driver                 *)
(* (runtime/delegation-driver.ts), the files of the run                     *)
(* (app/src/delegation-persistence.ts) and the runtime that executes,       *)
(* verifies and recovers the run (app/src/durable-delegation-runtime.ts).   *)
(*                                                                          *)
(* A delegation has three files (shard, checkpoint, manifest) and the run   *)
(* has one ledger; persist writes the four in that order, and a write may   *)
(* throw (the manager rolls its memory back) or the process may die between *)
(* two of them.  A persist is synchronous, so it is one step that chooses   *)
(* how many of its writes were done.                                        *)
(*                                                                          *)
(* DelegationManager.resume has no caller in the program and is left out.   *)
(***************************************************************************)
EXTENDS Naturals, Sequences, FiniteSets, FiniteSetsExt, SequencesExt

CONSTANTS
  Order,           \* the tasks of the plan, in input order
  DependsOn,       \* task -> the tasks it depends on
  Lane,            \* task -> its write lane; lanes overlap when they are equal
  Refused,         \* tasks whose card is unknown or whose skills leave the lane
  MaxConcurrency,
  MaxFaults        \* failed writes and crashes

VARIABLES
  files,    \* task -> its shard, checkpoint and manifest
  ledger,   \* run-state.json
  lock,     \* .runtime.lock exists
  mem,      \* the manager: task -> status, shard entries, cost of its observation
  budget,   \* the manager's run budget
  pc,       \* where execute stands
  todo,     \* recovered handles, or the chunks of the current ready set
  queue,    \* tasks of the chunk that are not spawned yet
  at,       \* task -> where its handle stands
  attempted,
  signal,   \* "run", "aborted" (cancel) or "driver" (a sibling's runtime error)
  unsafe,   \* an operation whose cancellation was not confirmed
  ran,      \* history: tasks whose child was started
  used,     \* history: cost the children really caused
  faults

vars == <<files, ledger, lock, mem, budget, pc, todo, queue, at, attempted, signal, unsafe,
          ran, used, faults>>
driver == <<todo, queue, attempted>>

Tasks == Range(Order)
Absent == <<"absent">>
NoFiles == [shard |-> Absent, checkpoint |-> Absent, manifest |-> Absent, status |-> "none",
            cost |-> 0]
NoLedger == [known |-> FALSE, active |-> {}, completed |-> {}, failed |-> {}, skipped |-> {},
             budget |-> 0]
NoState == [status |-> "none", entries |-> <<>>, cost |-> 0]
Drafts == {"verified", "denied"}
Settled == {"observation", "task-failure", "denied", "interrupted"}

Is(status, m) == {t \in Tasks : m[t].status = status}
overlap(t, u) == t # u /\ Lane[t] = Lane[u]

Aborted == signal # "run"

----------------------------------------------------------------------------
(* The files.                                                              *)

persistedRunState(m, b) ==
  [known |-> TRUE, active |-> Is("active", m), completed |-> Is("completed", m),
   failed |-> Is("failed", m), skipped |-> Is("skipped", m), budget |-> b]

\* save: the first k of the shard, the checkpoint and the manifest.
save(f, s, k) ==
  [shard      |-> IF k >= 1 THEN s.entries ELSE f.shard,
   checkpoint |-> IF k >= 2 THEN s.entries ELSE f.checkpoint,
   manifest   |-> IF k >= 3 THEN s.entries ELSE f.manifest,
   status     |-> IF k >= 3 THEN s.status ELSE f.status,
   cost       |-> IF k >= 3 THEN s.cost ELSE f.cost]

Written(t, m, b, k) ==
  /\ files' = [files EXCEPT ![t] = save(@, m[t], k)]
  /\ ledger' = IF k = 4 THEN persistedRunState(m, b) ELSE ledger

\* Child first, shared ledger second.
persist(t, m, b) ==
  /\ Written(t, m, b, 4)
  /\ mem' = m /\ budget' = b
  /\ UNCHANGED faults

\* A write throws: the manager restores its memory, the files keep what was written.
persistThrows(t, m, b) ==
  /\ faults < MaxFaults
  /\ faults' = faults + 1
  /\ \E k \in 0..3 : Written(t, m, b, k)
  /\ UNCHANGED <<mem, budget>>

load(t) ==
  LET f == files[t]
  IN IF f.shard = Absent /\ f.checkpoint = Absent /\ f.manifest = Absent THEN "none"
     ELSE IF f.manifest # Absent /\ f.shard = f.manifest /\ f.checkpoint = f.manifest THEN f.status
     ELSE "torn"

----------------------------------------------------------------------------
(* Recovery.                                                                *)

\* parseTerminalDraft: only the last entry of the shard counts.
parseTerminalDraft(entries) ==
  IF entries # <<>> /\ Last(entries) \in Drafts THEN Last(entries) ELSE "none"

terminalSnapshotMatchesRuntimeDraft(t) ==
  LET d == parseTerminalDraft(files[t].manifest)
  IN CASE files[t].status = "completed" -> d = "verified" /\ files[t].cost = 1
       [] files[t].status = "failed" -> d = "denied" /\ files[t].cost = 1
       [] OTHER -> TRUE

validatePersistedDelegation(t) ==
  load(t) = (CASE t \in ledger.active -> "active"
               [] t \in ledger.completed -> "completed"
               [] t \in ledger.failed -> "failed"
               [] OTHER -> "none")

CostOf(ts) == FoldSet(LAMBDA t, n : files[t].cost + n, 0, ts)

validatePersistedRun ==
  /\ ledger.active \cap (ledger.completed \cup ledger.failed \cup ledger.skipped) = {}
  /\ ledger.completed \cap (ledger.failed \cup ledger.skipped) = {}
  /\ ledger.failed \cap ledger.skipped = {}

Durable == ledger.active \cup ledger.completed \cup ledger.failed

\* The runtime's own look at the files: exactly the tasks of the ledger have files, and a
\* terminal one agrees with the draft on its shard.
inspectDurableDelegationRecoveryState ==
  /\ \A t \in Tasks : load(t) # "none" <=> t \in Durable
  /\ ledger.known => Durable # {}
  /\ \A t \in Durable : terminalSnapshotMatchesRuntimeDraft(t)

\* The manager's look: nothing is recovered unless every delegation agrees with the ledger,
\* the active lanes are disjoint and the costs add up.
preflightRecovery ==
  ledger.known =>
    /\ validatePersistedRun
    /\ \A t \in Tasks : validatePersistedDelegation(t)
    /\ \A t, u \in ledger.active : ~overlap(t, u)
    /\ CostOf(ledger.completed \cup ledger.failed) = ledger.budget

\* installRun and installSnapshots.
Restored ==
  [t \in Tasks |->
     IF t \in ledger.skipped THEN [NoState EXCEPT !.status = "skipped"]
     ELSE IF load(t) = "none" THEN NoState
     ELSE [status |-> files[t].status, entries |-> files[t].manifest, cost |-> files[t].cost]]

\* The exact active set of the ledger, as handles in plan order.
recoverActive == SelectSeq(Order, LAMBDA t : t \in ledger.active)

acquire == ~lock /\ lock' = TRUE

\* execute: the lock, the inspection, the terminals replayed and every active handle recovered.
execute ==
  /\ pc = "off"
  /\ acquire
  /\ inspectDurableDelegationRecoveryState /\ preflightRecovery
  /\ mem' = Restored
  /\ budget' = ledger.budget
  /\ pc' = "resume"
  /\ todo' = recoverActive
  /\ at' = [t \in Tasks |-> IF t \in ledger.active THEN "start" ELSE "none"]
  /\ signal' = "run"
  /\ UNCHANGED <<files, ledger, queue, attempted, unsafe, ran, used, faults>>

\* The end of execute: the lock goes unless a cancellation is unconfirmed; the next call of
\* execute belongs to a new runtime with a cold manager.
Leave ==
  /\ lock' = unsafe
  /\ pc' = "off"
  /\ todo' = <<>> /\ queue' = <<>> /\ attempted' = {}
  /\ at' = [t \in Tasks |-> "none"]
  /\ signal' = "run"
Cold == mem' = [t \in Tasks |-> NoState] /\ budget' = 0

exit ==
  /\ pc = "exit"
  /\ Leave /\ Cold
  /\ UNCHANGED <<files, ledger, unsafe, ran, used, faults>>

----------------------------------------------------------------------------
(* A handle: runHandle.                                                    *)

\* The handles that may take a step: the recovered ones one after the other, a chunk at once.
Running(t) ==
  \/ pc = "resume" /\ todo # <<>> /\ t = Head(todo)
  \/ pc = "run"

Goes(t, step) == at' = [at EXCEPT ![t] = step]

\* An error that is not a runtime error: in the driver the task is failed, a recovered handle
\* ends execute.
PlainError(t) ==
  /\ UNCHANGED <<signal, unsafe, ran, used>>
  /\ \/ pc = "resume" /\ pc' = "exit" /\ UNCHANGED at
     \/ pc = "run" /\ Goes(t, IF Aborted THEN "interrupted" ELSE "failTask") /\ UNCHANGED pc

\* A runtime error: the driver is aborted and the delegation stays active.
RuntimeError(t, confirmed) ==
  /\ unsafe' = (unsafe \/ ~confirmed)
  /\ \/ pc = "resume" /\ pc' = "exit" /\ UNCHANGED <<at, signal>>
     \/ /\ pc = "run" /\ Goes(t, "interrupted") /\ UNCHANGED pc
        /\ signal' = IF signal = "run" THEN "driver" ELSE signal

\* A cancelled operation whose cancel call failed: nobody knows whether it still runs.
awaitOperation(t) == Aborted /\ RuntimeError(t, FALSE)
\* The cost meter fails or goes backwards, or the child reports an ambiguous operation.
measuredCost(t) == RuntimeError(t, TRUE)

\* Mutant: the draft on the shard is not looked at.
runHandleAfresh(t) ==
  /\ Running(t) /\ at[t] = "start"
  /\ Goes(t, IF Aborted THEN "deny" ELSE "child")
  /\ ran' = IF Aborted THEN ran ELSE ran \cup {t}
  /\ used' = IF Aborted THEN used ELSE [used EXCEPT ![t] = 1]
  /\ UNCHANGED <<files, ledger, lock, mem, budget, pc, driver, signal, unsafe, faults>>

\* A terminal draft left by an earlier process is applied, not executed again.
runHandle(t) ==
  /\ Running(t) /\ at[t] = "start"
  /\ LET draft == parseTerminalDraft(mem[t].entries)
         step == CASE draft = "verified" -> "complete"
                   [] draft = "denied" -> "fail"
                   [] OTHER -> IF Aborted THEN "deny" ELSE "child"
     IN /\ Goes(t, step)
        /\ ran' = IF step = "child" THEN ran \cup {t} ELSE ran
        /\ used' = IF step = "child" THEN [used EXCEPT ![t] = 1] ELSE used
  /\ UNCHANGED <<files, ledger, lock, mem, budget, pc, driver, signal, unsafe, faults>>

\* The child ends with a candidate, with an error or over its budget; its operation is
\* ambiguous or the meter fails; or it was cancelled, confirmed or not.
childSettles(t) ==
  /\ Running(t) /\ at[t] = "child"
  /\ \/ ~Aborted /\ Goes(t, "verify") /\ UNCHANGED <<pc, signal, unsafe>>
     \/ Goes(t, "deny") /\ UNCHANGED <<pc, signal, unsafe>>
     \/ measuredCost(t)
     \/ awaitOperation(t)
  /\ UNCHANGED <<files, ledger, lock, mem, budget, driver, ran, used, faults>>

verifySettles(t) ==
  /\ Running(t) /\ at[t] = "verify"
  /\ \/ ~Aborted /\ Goes(t, "accept") /\ UNCHANGED <<pc, signal, unsafe>>
     \/ Goes(t, "deny") /\ UNCHANGED <<pc, signal, unsafe>>
     \/ measuredCost(t)
     \/ awaitOperation(t)
  /\ UNCHANGED <<files, ledger, lock, mem, budget, driver, ran, used, faults>>

\* A handle works while its delegation is active.
assertCurrent(t) == mem[t].status = "active"

\* handle.append of runtime.verified-result, runtime.denied or runtime.cancelled.
appendShard(t) ==
  /\ Running(t) /\ at[t] \in {"accept", "deny"} /\ assertCurrent(t)
  /\ LET draft == IF at[t] = "accept" THEN "verified" ELSE "denied"
         m == [mem EXCEPT ![t].entries = Append(@, draft)]
     IN \/ /\ persist(t, m, budget)
           /\ Goes(t, IF draft = "verified" THEN "complete" ELSE "fail")
           /\ UNCHANGED <<pc, signal, unsafe, ran, used>>
        \/ persistThrows(t, m, budget) /\ PlainError(t)
  /\ UNCHANGED <<lock, driver>>

\* handle.complete and handle.fail: status, observation and run budget in one persist.
Closed(t, status, cost) == [mem EXCEPT ![t].status = status, ![t].cost = cost]
closeHandle(t) ==
  /\ Running(t) /\ at[t] \in {"complete", "fail"} /\ assertCurrent(t)
  /\ LET status == IF at[t] = "complete" THEN "completed" ELSE "failed"
         m == Closed(t, status, 1)
     IN \/ /\ persist(t, m, budget + 1)
           /\ Goes(t, IF status = "completed" THEN "observation" ELSE "task-failure")
           /\ todo' = IF pc = "resume" THEN Tail(todo) ELSE todo
           /\ UNCHANGED <<pc, signal, unsafe, ran, used>>
        \/ persistThrows(t, m, budget + 1) /\ PlainError(t) /\ UNCHANGED todo
  /\ UNCHANGED <<lock, queue, attempted>>

\* failTask of the driver: the handle is failed with a zero cost.
failTask(t) ==
  /\ pc = "run" /\ at[t] = "failTask"
  /\ LET m == Closed(t, "failed", 0)
     IN \/ persist(t, m, budget) /\ Goes(t, "task-failure")
        \/ persistThrows(t, m, budget) /\ Goes(t, "interrupted")
  /\ UNCHANGED <<lock, pc, driver, signal, unsafe, ran, used>>

----------------------------------------------------------------------------
(* The driver: runBoundedDelegation.                                       *)

readySet ==
  SelectSeq(Order, LAMBDA t : /\ mem[t].status = "none" /\ t \notin attempted
                              /\ \A d \in DependsOn[t] : mem[d].status = "completed")

\* Each task joins the first batch it is disjoint from.
Place(batches, t) ==
  LET fits == {i \in DOMAIN batches : \A j \in DOMAIN batches[i] : ~overlap(t, batches[i][j])}
  IN IF fits = {} THEN Append(batches, <<t>>)
     ELSE [batches EXCEPT ![Min(fits)] = Append(@, t)]
greedyDisjointBatches(ts) == FoldLeft(Place, <<>>, ts)

Chunks(batch) ==
  [i \in 1..((Len(batch) + MaxConcurrency - 1) \div MaxConcurrency) |->
     SubSeq(batch, (i - 1) * MaxConcurrency + 1,
            IF i * MaxConcurrency < Len(batch) THEN i * MaxConcurrency ELSE Len(batch))]

\* The recovered handles are through: a failed terminal ends the call, otherwise the driver
\* looks for ready tasks.
startDriver ==
  /\ pc = "resume" /\ todo = <<>>
  /\ pc' = IF Is("failed", mem) # {} THEN "exit" ELSE "loop"
  /\ attempted' = Is("completed", mem)
  /\ UNCHANGED <<files, ledger, lock, mem, budget, todo, queue, at, signal, unsafe, ran, used,
                 faults>>

driverLoop ==
  /\ pc = "loop"
  /\ IF Aborted \/ readySet = <<>>
     THEN pc' = "exit" /\ UNCHANGED todo
     ELSE /\ pc' = "chunks"
          /\ todo' = FlattenSeq([i \in DOMAIN greedyDisjointBatches(readySet) |->
                                   Chunks(greedyDisjointBatches(readySet)[i])])
  /\ UNCHANGED <<files, ledger, lock, mem, budget, queue, at, attempted, signal, unsafe, ran,
                 used, faults>>

startChunk ==
  /\ pc = "chunks" /\ todo # <<>>
  /\ IF Aborted
     THEN pc' = "exit" /\ UNCHANGED driver
     ELSE /\ pc' = "spawn"
          /\ queue' = Head(todo)
          /\ todo' = Tail(todo)
          /\ attempted' = attempted \cup Range(Head(todo))
  /\ UNCHANGED <<files, ledger, lock, mem, budget, at, signal, unsafe, ran, used, faults>>

\* manager.spawn: a refused card, an overlapping active lane or a failed persist is a denial.
spawn ==
  /\ pc = "spawn" /\ queue # <<>>
  /\ LET t == Head(queue)
         m == [mem EXCEPT ![t] = [NoState EXCEPT !.status = "active"]]
     IN \/ /\ t \in Refused \/ \E u \in Is("active", mem) : overlap(t, u)
           /\ Goes(t, "denied")
           /\ UNCHANGED <<files, ledger, mem, budget, faults>>
        \/ /\ t \notin Refused /\ \A u \in Is("active", mem) : ~overlap(t, u)
           /\ \/ persist(t, m, budget) /\ Goes(t, "start")
              \/ persistThrows(t, m, budget) /\ Goes(t, "denied")
  /\ queue' = Tail(queue)
  /\ UNCHANGED <<lock, pc, todo, attempted, signal, unsafe, ran, used>>

spawned ==
  /\ pc = "spawn" /\ queue = <<>>
  /\ pc' = "run"
  /\ UNCHANGED <<files, ledger, lock, mem, budget, driver, at, signal, unsafe, ran, used, faults>>

\* Every task of the chunk has settled.
settleChunk ==
  /\ pc = "run"
  /\ \A t \in Tasks : at[t] \in Settled \cup {"none"}
  /\ LET of(kinds) == \E t \in Tasks : at[t] \in kinds
     IN pc' = IF of({"interrupted"}) \/ Aborted THEN "exit"
              ELSE IF of({"denied", "task-failure"}) THEN "failed"
              ELSE "chunks"
  /\ at' = [t \in Tasks |-> "none"]
  /\ UNCHANGED <<files, ledger, lock, mem, budget, driver, signal, unsafe, ran, used, faults>>

\* schedule: every task below a failed or skipped one is skipped.
RECURSIVE Skipped(_)
Skipped(m) ==
  LET next == {t \in Tasks : /\ m[t].status \in {"none", "active"}
                             /\ \E d \in DependsOn[t] : m[d].status \in {"failed", "skipped"}}
  IN IF next = {} THEN m
     ELSE Skipped([t \in Tasks |-> IF t \in next THEN [m[t] EXCEPT !.status = "skipped"] ELSE m[t]])

schedule ==
  /\ pc = "failed" \/ (pc = "chunks" /\ todo = <<>>)
  /\ LET m == Skipped(mem)
     IN \/ /\ m = mem
           /\ UNCHANGED <<ledger, mem, faults>>
           /\ pc' = IF pc = "failed" THEN "exit" ELSE "loop"
        \/ /\ m # mem
           /\ mem' = m
           /\ ledger' = persistedRunState(m, budget)
           /\ pc' = IF pc = "failed" THEN "exit" ELSE "loop"
           /\ UNCHANGED faults
        \/ /\ m # mem /\ faults < MaxFaults
           /\ faults' = faults + 1
           /\ pc' = "exit"
           /\ UNCHANGED <<ledger, mem>>
  /\ UNCHANGED <<files, lock, budget, driver, at, signal, unsafe, ran, used>>

----------------------------------------------------------------------------
(* The environment.                                                        *)

cancel ==
  /\ pc \notin {"off", "exit"} /\ signal = "run"
  /\ signal' = "aborted"
  /\ UNCHANGED <<files, ledger, lock, mem, budget, pc, driver, at, unsafe, ran, used, faults>>

\* The process dies, possibly inside a persist; the lock file stays.
Crash ==
  /\ pc # "off" /\ faults < MaxFaults
  /\ faults' = faults + 1
  /\ \/ UNCHANGED <<files, ledger>>
     \/ \E t \in Tasks, k \in 1..3 :
          LET draft == IF at[t] = "accept" THEN "verified" ELSE "denied"
              m == CASE pc = "spawn" /\ queue # <<>> /\ t = Head(queue) /\ t \notin Refused ->
                          [NoState EXCEPT !.status = "active"]
                     [] Running(t) /\ at[t] \in {"accept", "deny"} ->
                          [mem[t] EXCEPT !.entries = Append(@, draft)]
                     [] Running(t) /\ at[t] \in {"complete", "fail"} ->
                          Closed(t, IF at[t] = "complete" THEN "completed" ELSE "failed", 1)[t]
                     [] Running(t) /\ at[t] = "failTask" -> Closed(t, "failed", 0)[t]
                     [] OTHER -> NoState
          IN /\ m.status # "none"
             /\ files' = [files EXCEPT ![t] = save(@, m, k)]
             /\ UNCHANGED ledger
  /\ lock' = TRUE
  /\ unsafe' = FALSE
  /\ pc' = "off"
  /\ todo' = <<>> /\ queue' = <<>> /\ attempted' = {}
  /\ at' = [t \in Tasks |-> "none"]
  /\ signal' = "run"
  /\ Cold
  /\ UNCHANGED <<ran, used>>

\* Startup recovery under the parent supervisor: the earlier process is gone, its lock goes.
recoverNodeDelegationRunLockAfterQuiescence ==
  /\ pc = "off" /\ lock
  /\ lock' = FALSE
  /\ unsafe' = FALSE
  /\ UNCHANGED <<files, ledger, mem, budget, pc, driver, at, signal, ran, used, faults>>

Init ==
  /\ files = [t \in Tasks |-> NoFiles]
  /\ ledger = NoLedger
  /\ lock = FALSE
  /\ mem = [t \in Tasks |-> NoState]
  /\ budget = 0
  /\ pc = "off"
  /\ todo = <<>> /\ queue = <<>> /\ attempted = {}
  /\ at = [t \in Tasks |-> "none"]
  /\ signal = "run"
  /\ unsafe = FALSE
  /\ ran = {}
  /\ used = [t \in Tasks |-> 0]
  /\ faults = 0

HandleSteps(t) == \/ runHandle(t) \/ childSettles(t) \/ verifySettles(t) \/ appendShard(t)
                  \/ closeHandle(t) \/ failTask(t)

Next ==
  \/ execute \/ exit
  \/ \E t \in Tasks : HandleSteps(t)
  \/ startDriver \/ driverLoop \/ startChunk \/ spawn \/ spawned \/ settleChunk \/ schedule
  \/ cancel \/ Crash \/ recoverNodeDelegationRunLockAfterQuiescence

Spec == Init /\ [][Next]_vars

----------------------------------------------------------------------------
(* Properties.                                                             *)

\* The values the variables take.
TypeOK ==
  /\ \A t \in Tasks : /\ mem[t].status \in {"none", "active", "completed", "failed", "skipped"}
                      /\ Range(mem[t].entries) \subseteq Drafts
  /\ pc \in {"off", "exit", "resume", "loop", "chunks", "spawn", "run", "failed"}
  /\ signal \in {"run", "aborted", "driver"}
  /\ budget \in 0..Cardinality(Tasks)
  /\ ran \subseteq Tasks

\* Two children with overlapping lanes never work at the same time, recovered ones included
\* (greedyDisjointBatches, activeOwns, validateActiveSnapshots).
LanesAreDisjoint ==
  \A t, u \in Tasks :
    at[t] \in {"child", "verify"} /\ at[u] \in {"child", "verify"} => ~overlap(t, u)

\* A child is started only below finished work: every task it depends on has a completed
\* record on disk, whatever was lost in between (readySet, spawn).
DependenciesAreDurable ==
  \A t \in ran : \A d \in DependsOn[t] : load(d) = "completed"

\* While the manager runs, its budget is what its terminal observations cost, so a write that
\* threw half way neither lost nor doubled a charge (complete, fail, nextRunBudget).
BudgetIsTheSumOfCosts ==
  budget = FoldSet(LAMBDA t, n : mem[t].cost + n, 0, Is("completed", mem) \cup Is("failed", mem))

\* A run that recovery accepts has no ready task below an unfinished one, and a verified
\* result on its shard is never executed again (runHandle, parseTerminalDraft).
VerifiedIsNotExecutedAgain ==
  \A t \in Tasks : at[t] \in {"child", "verify"} => load(t) = "active" /\ files[t].manifest = <<>>

\* The delegation run as a whole: lanes, dependencies, budget and verified results.
RunIsAccounted ==
  TypeOK /\ LanesAreDisjoint /\ DependenciesAreDurable /\ BudgetIsTheSumOfCosts
    /\ VerifiedIsNotExecutedAgain

\* What the runtime says of a failed write: it "keeps persistence/meter uncertainty
\* recoverable instead of rewriting it as a synthetic terminal task failure"
\* (durable-delegation-runtime.ts): no failed task is recorded with no cost after its child ran.
UncertaintyStaysRecoverable ==
  \A t \in ran : mem[t].status = "failed" => mem[t].cost = used[t]
=============================================================================
