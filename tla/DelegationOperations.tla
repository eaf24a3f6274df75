------------------------ MODULE DelegationOperations ------------------------
(***************************************************************************)
(* The external operations of delegated tasks: the live adapter            *)
(* (durable-delegation-live-adapter.ts), its ledger of slots, attempts and *)
(* budgets (durable-delegation-operation-control.ts) and the file journal  *)
(* of prepared and settled operations                                      *)
(* (durable-delegation-operation-journal.ts), as                           *)
(* durable-delegation-production.ts puts them together: one journal for a  *)
(* run, one ledger for the installation, one adapter for a task.           *)
(*                                                                         *)
(* A child's turn is a fixed program of operations, replayed from its      *)
(* start by every runtime that resumes the run.  Iterations and USD nanos  *)
(* obey one rule, so one amount stands for both.  Hashes, payloads and the *)
(* files' formats are left out; a crash may fall between any two writes.   *)
(***************************************************************************)
EXTENDS Naturals, Sequences, FiniteSets, FiniteSetsExt

CONSTANTS
  Tasks,       \* the delegated tasks
  RunOf,       \* the run (one journal) of each task
  Program,     \* per task, its operations: [phase, retry, max]
  TaskCeiling, RunCeiling, Daily, \* the ceilings of the budget scopes
  Spends,      \* what an operation may really cost
  MaxDays,
  MaxMishaps   \* crashes and failed calls

VARIABLES
  control,  \* the ledger: per task its inventory
  journal,  \* the files: per operation attempt
  locks,    \* family mutation locks left on disk
  child,    \* per task, the adapter and the turn that calls it
  run,      \* the run that executes, and the daily epoch its dispatcher captured
  starts,   \* history: how often an attempt reached the outside world
  budget    \* days and mishaps that happened

vars == <<control, journal, locks, child, run, starts, budget>>

Max2 == 1..2
Seqs == 1..Max({Len(Program[t]) : t \in Tasks})
Runs == {RunOf[t] : t \in Tasks}
Keys == [task : Tasks, seq : Seqs, attempt : Max2]
Key(t, s, a) == [task |-> t, seq |-> s, attempt |-> a]

\* The rows of operation_attempts, operation_slots and task_inventories, and a file of the journal.
Attempt == [budget : {"held", "charged", "overrun", "conservative"}, prepared : BOOLEAN,
            ambiguous : BOOLEAN, receipt : {"none", "completed", "unverified", "stopped"},
            spend : Spends \cup {0}]
IsSlot(x) ==
  /\ x.phase \in {"provider", "tool"} /\ x.retry \in {"retry-once", "new-task-only"}
  /\ x.max \in Nat /\ x.resolution \in {"none", "retry-once", "cancel"} /\ x.consumed \in BOOLEAN
  /\ Len(x.attempts) \in Max2 /\ \A a \in DOMAIN x.attempts : x.attempts[a] \in Attempt
IsInventory(x) ==
  /\ x.state \in {"none", "open", "sealed"} /\ x.day \in 0..MaxDays
  /\ \A s \in DOMAIN x.slots : IsSlot(x.slots[s])
File == [state : {"absent", "prepared", "settled"}, outcome : {"none", "completed", "unverified", "stopped"},
         spend : Spends \cup {0}]
Absent == [state |-> "absent", outcome |-> "none", spend |-> 0]

attemptRow == [budget |-> "held", prepared |-> FALSE, ambiguous |-> FALSE, receipt |-> "none", spend |-> 0]
slotRow(o) == [phase |-> o.phase, retry |-> o.retry, max |-> o.max, resolution |-> "none",
               consumed |-> FALSE, attempts |-> <<attemptRow>>]
taskRow == [state |-> "open", day |-> run.day, slots |-> <<>>]
NoTask == [state |-> "none", day |-> 0, slots |-> <<>>]
EmptyLedger == [t \in Tasks |-> NoTask]
EmptyJournal == [k \in Keys |-> Absent]

Init ==
  /\ control = EmptyLedger
  /\ journal = EmptyJournal
  /\ locks = {}
  /\ child = [t \in Tasks |-> [pc |-> "unbound", cursor |-> 1, result |-> Absent]]
  /\ run \in [name : Runs, day : {0}]
  /\ starts = [k \in Keys |-> 0]
  /\ budget = [days |-> 0, mishaps |-> 0]

----------------------------------------------------------------------------
(* The ledger *)

Slots(t) == control[t].slots
LastAttempt(x) == x.attempts[Len(x.attempts)]

\* What an attempt weighs in every scope it belongs to.
amountFor(x, a) == IF a.budget \in {"held", "conservative"} THEN x.max ELSE a.spend

Spent(t) ==
  LET pairs == {<<s, a>> \in Seqs \X Max2 : s <= Len(Slots(t)) /\ a <= Len(Slots(t)[s].attempts)}
  IN  MapThenSumSet(LAMBDA p : amountFor(Slots(t)[p[1]], Slots(t)[p[1]].attempts[p[2]]), pairs)

ScopeOf(kind, t) ==
  CASE kind = "task" -> {t}
    [] kind = "run" -> {u \in Tasks : RunOf[u] = RunOf[t]}
    [] kind = "global" -> Tasks
    [] kind = "daily" -> {u \in Tasks : control[u].state # "none" /\ control[u].day = control[t].day}
Ceiling(kind) ==
  CASE kind = "task" -> TaskCeiling [] kind = "run" -> RunCeiling [] OTHER -> Daily
Kinds == {"task", "run", "global", "daily"}
attemptsForScope(kind, t) == MapThenSumSet(Spent, ScopeOf(kind, t))

assertBudgetAvailable(t, charge) ==
  \A kind \in Kinds : attemptsForScope(kind, t) + charge <= Ceiling(kind)

SetAttempt(t, s, a, row) == control' = [control EXCEPT ![t].slots[s].attempts[a] = row]

recoverInterruptedAttempts(slots) ==
  [s \in DOMAIN slots |-> [slots[s] EXCEPT !.attempts =
    [a \in DOMAIN @ |-> [@[a] EXCEPT !.ambiguous =
      @ \/ (slots[s].attempts[a].budget = "held" /\ slots[s].attempts[a].prepared
            /\ slots[s].attempts[a].receipt = "none")]]]]

\* What a settled file makes of an attempt row.
Settled(max, row, f) ==
  [row EXCEPT !.budget = IF f.spend > max THEN "overrun" ELSE "charged",
              !.ambiguous = FALSE, !.receipt = f.outcome, !.spend = f.spend]

----------------------------------------------------------------------------
(* The adapter reads both records before every operation *)

Goto(t, l) == child' = [child EXCEPT ![t].pc = l]
Advance(t) == child' = [child EXCEPT ![t].pc = "idle", ![t].cursor = @ + 1, ![t].result = Absent]
Running(t) == run.name = RunOf[t]

\* A file of another task of the run matches no slot of this one.
ForeignFiles(t) ==
  \E k \in Keys : k.task # t /\ RunOf[k.task] = RunOf[t] /\ journal[k].state # "absent"

\* How hydrate leaves an attempt that has a file, and when it refuses the pair.
WithFile(x, row, f) ==
  IF f.state = "prepared" THEN [row EXCEPT !.prepared = TRUE, !.ambiguous = TRUE]
  ELSE IF row.receipt = "none" THEN Settled(x.max, [row EXCEPT !.prepared = TRUE], f) ELSE row
FileAgrees(x, row, f) ==
  /\ ~row.prepared => (row.budget = "held" /\ row.receipt = "none" /\ ~row.ambiguous)
  /\ (f.state = "prepared" /\ ~row.ambiguous) => (row.budget = "held" /\ row.receipt = "none")
  /\ (f.state = "settled" /\ row.receipt = "none") => row.budget = "held"
  /\ (f.state = "settled" /\ row.receipt # "none") => (row.receipt = f.outcome /\ row.spend = f.spend)

exactPrePermitRestart(x, a) ==
  /\ a = 1 /\ Len(x.attempts) = 1 /\ x.resolution = "none"
  /\ x.attempts[1].budget = "held" /\ x.attempts[1].prepared
exactRetryPrePermitRestart(t, s, x, a) ==
  /\ a = 2 /\ x.resolution = "retry-once" /\ x.consumed
  /\ journal[Key(t, s, 1)].state = "prepared"
  /\ x.attempts[2].budget = "held" /\ x.attempts[2].prepared

NoFileAgrees(t, s, x, a) ==
  /\ x.attempts[a].receipt = "none"
  /\ x.attempts[a].ambiguous => (exactPrePermitRestart(x, a) \/ exactRetryPrePermitRestart(t, s, x, a))
  /\ x.attempts[a].budget \notin {"charged", "overrun"}

FilesHaveRows(t) ==
  \A k \in Keys : (k.task = t /\ journal[k].state # "absent") =>
    (k.seq <= Len(Slots(t)) /\ k.attempt <= Len(Slots(t)[k.seq].attempts))

Agrees(t) ==
  /\ ~ForeignFiles(t)
  /\ FilesHaveRows(t)
  /\ \A s \in DOMAIN Slots(t) : \A a \in DOMAIN Slots(t)[s].attempts :
       LET f == journal[Key(t, s, a)] IN
       IF f.state = "absent" THEN NoFileAgrees(t, s, Slots(t)[s], a)
       ELSE FileAgrees(Slots(t)[s], Slots(t)[s].attempts[a], f)

Reconciled(t) ==
  [s \in DOMAIN Slots(t) |-> [Slots(t)[s] EXCEPT !.attempts =
    [a \in DOMAIN @ |-> IF journal[Key(t, s, a)].state = "absent" THEN @[a]
                        ELSE WithFile(Slots(t)[s], @[a], journal[Key(t, s, a)])]]]

----------------------------------------------------------------------------
(* Binding a task, and the steps of one operation *)

bindTask(t) ==
  /\ Running(t) /\ child[t].pc = "unbound"
  /\ \/ /\ control[t].state = "none"
        /\ control' = [control EXCEPT ![t] = taskRow]
        /\ Goto(t, "idle")
     \/ /\ control[t].state # "none" /\ control[t].day = run.day
        /\ control' = [control EXCEPT ![t].slots = recoverInterruptedAttempts(@)]
        /\ Goto(t, "idle")
     \/ /\ control[t].state # "none" /\ control[t].day # run.day \* BINDING_DRIFT
        /\ Goto(t, "drift") /\ UNCHANGED control
  /\ UNCHANGED <<journal, locks, run, starts, budget>>

hydrate(t) ==
  /\ child[t].pc = "idle" /\ child[t].cursor <= Len(Program[t])
  /\ IF Agrees(t) THEN control' = [control EXCEPT ![t].slots = Reconciled(t)] /\ Goto(t, "hydrated")
     ELSE Goto(t, "drift") /\ UNCHANGED control
  /\ UNCHANGED <<journal, locks, run, starts, budget>>

\* The child asks its provider, or one of its tools.
complete(t) == Program[t][Min({child[t].cursor, Len(Program[t])})].phase = "provider" /\ hydrate(t)
executeTool(t) == Program[t][Min({child[t].cursor, Len(Program[t])})].phase = "tool" /\ hydrate(t)

\* The turn was stopped before the operation: nothing is written.
abortBefore(t) ==
  /\ child[t].pc = "idle" /\ child[t].cursor <= Len(Program[t])
  /\ Goto(t, "failed")
  /\ UNCHANGED <<control, journal, locks, run, starts, budget>>

Cursor(t) == child[t].cursor
Here(t) == Slots(t)[Cursor(t)]
AttemptNo(t) == Len(Here(t).attempts)
Row(t) == LastAttempt(Here(t))
HereKey(t) == Key(t, Cursor(t), AttemptNo(t))
HereFile(t) == journal[HereKey(t)]

expect(t) ==
  /\ child[t].pc = "hydrated"
  /\ LET s == Cursor(t) o == Program[t][s] IN
     \/ /\ s <= Len(Slots(t))
        /\ Goto(t, "expected") /\ UNCHANGED control
     \/ /\ s = Len(Slots(t)) + 1 /\ control[t].state = "open"
        /\ IF assertBudgetAvailable(t, o.max)
           THEN control' = [control EXCEPT ![t].slots = Append(@, slotRow(o))] /\ Goto(t, "expected")
           ELSE Goto(t, "failed") /\ UNCHANGED control
  /\ UNCHANGED <<journal, locks, run, starts, budget>>

\* Mutant: a file that is only prepared counts as no file.
replayPrepared(t) ==
  /\ child[t].pc = "expected"
  /\ \/ Here(t).resolution = "cancel" /\ Goto(t, "failed")
     \/ /\ Here(t).resolution # "cancel" /\ HereFile(t).state = "settled"
        /\ IF HereFile(t).outcome = "stopped" \/ Row(t).budget = "overrun" THEN Goto(t, "failed")
           ELSE Advance(t)
     \/ /\ Here(t).resolution # "cancel" /\ HereFile(t).state # "settled"
        /\ Goto(t, "ready")
  /\ UNCHANGED <<control, journal, locks, run, starts, budget>>

\* The operation was resolved as cancelled, settled earlier, or has no file yet.
replay(t) ==
  /\ child[t].pc = "expected"
  /\ \/ Here(t).resolution = "cancel" /\ Goto(t, "failed")
     \/ /\ Here(t).resolution # "cancel" /\ HereFile(t).state = "settled"
        /\ IF HereFile(t).outcome = "stopped" \/ Row(t).budget = "overrun" THEN Goto(t, "failed")
           ELSE Advance(t)
     \/ /\ Here(t).resolution # "cancel" /\ HereFile(t).state = "absent"
        /\ Goto(t, "ready")
  /\ UNCHANGED <<control, journal, locks, run, starts, budget>>

AtAmbiguity(t) ==
  child[t].pc = "expected" /\ Here(t).resolution # "cancel" /\ HereFile(t).state = "prepared"

\* A mutation is never retried here; otherwise no answer yet means a pause.
requestResolution(t) ==
  /\ AtAmbiguity(t)
  /\ Goto(t, IF Here(t).retry = "new-task-only" THEN "manual" ELSE "paused")
  /\ UNCHANGED <<control, journal, locks, run, starts, budget>>

Resolvable(t) == Row(t).budget = "held" /\ Row(t).ambiguous

resolveRetry(t) ==
  /\ AtAmbiguity(t) /\ Here(t).retry = "retry-once" /\ Resolvable(t)
  /\ AttemptNo(t) = 1 /\ Here(t).resolution = "none"
  /\ IF assertBudgetAvailable(t, Here(t).max)
     THEN /\ control' = [control EXCEPT ![t].slots[Cursor(t)] =
               [@ EXCEPT !.attempts = Append(@, attemptRow), !.resolution = "retry-once", !.consumed = FALSE]]
          /\ Goto(t, "ready")
     ELSE Goto(t, "failed") /\ UNCHANGED control
  /\ UNCHANGED <<journal, locks, run, starts, budget>>

resolveCancel(t) ==
  /\ AtAmbiguity(t) /\ Here(t).retry = "retry-once" /\ Resolvable(t)
  /\ \/ Here(t).resolution = "none"
     \/ AttemptNo(t) = 2 /\ Here(t).resolution = "retry-once" /\ Here(t).consumed
  /\ control' = [control EXCEPT ![t].slots[Cursor(t)] =
       [@ EXCEPT !.attempts[AttemptNo(t)].budget = "conservative", !.resolution = "cancel", !.consumed = TRUE]]
  /\ Goto(t, "failed")
  /\ UNCHANGED <<journal, locks, run, starts, budget>>

markPrepared(t) ==
  /\ child[t].pc = "ready"
  /\ control' = [control EXCEPT ![t].slots[Cursor(t)] =
       [@ EXCEPT !.attempts[AttemptNo(t)].prepared = TRUE,
                 !.consumed = @ \/ (AttemptNo(t) = 2 /\ Here(t).resolution = "retry-once")]]
  /\ Goto(t, "marked")
  /\ UNCHANGED <<journal, locks, run, starts, budget>>

Family(t) == <<t, Cursor(t)>>
Prepared == [state |-> "prepared", outcome |-> "none", spend |-> 0]

\* A lock that a crash left is never taken over: the operation stays ambiguous.
prepare(t) ==
  /\ child[t].pc = "marked"
  /\ IF Family(t) \in locks THEN Goto(t, "paused") /\ UNCHANGED journal
     ELSE journal' = [journal EXCEPT ![HereKey(t)] = Prepared] /\ Goto(t, "prepared")
  /\ UNCHANGED <<control, locks, run, starts, budget>>

interruptAmbiguous(t) ==
  /\ SetAttempt(t, Cursor(t), AttemptNo(t), [Row(t) EXCEPT !.ambiguous = TRUE])
  /\ Goto(t, IF Here(t).retry = "new-task-only" THEN "manual" ELSE "paused")

start(t) ==
  /\ child[t].pc = "prepared"
  /\ starts' = [starts EXCEPT ![HereKey(t)] = @ + 1]
  /\ Goto(t, "running")
  /\ UNCHANGED <<control, journal, locks, run, budget>>

startThrows(t) ==
  /\ child[t].pc = "prepared" /\ budget.mishaps < MaxMishaps
  /\ budget' = [budget EXCEPT !.mishaps = @ + 1]
  /\ interruptAmbiguous(t)
  /\ UNCHANGED <<journal, locks, run, starts>>

\* The provider or the tool answers, is cancelled with a receipt, or is lost.
\* A mutation's receipt is never verified here: its proof is left to the action contract.
Outcomes(o) ==
  {[state |-> "settled", outcome |-> x, spend |-> c] :
    x \in {"stopped", IF o.retry = "new-task-only" THEN "unverified" ELSE "completed"},
    c \in (IF o.phase = "tool" THEN {0} ELSE Spends)}

awaitOwnedOperation(t) ==
  /\ child[t].pc = "running"
  /\ \/ /\ \E f \in Outcomes(Here(t)) :
             child' = [child EXCEPT ![t].pc = "settling", ![t].result = f]
        /\ UNCHANGED control
     \/ interruptAmbiguous(t)
  /\ UNCHANGED <<journal, locks, run, starts, budget>>

settle(t) ==
  /\ child[t].pc = "settling"
  /\ journal' = [journal EXCEPT ![HereKey(t)] = child[t].result]
  /\ Goto(t, "settled")
  /\ UNCHANGED <<control, locks, run, starts, budget>>

\* The write or the release of the lock fails: the permit is spent.
settleFails(t) ==
  /\ child[t].pc = "settling" /\ budget.mishaps < MaxMishaps
  /\ budget' = [budget EXCEPT !.mishaps = @ + 1]
  /\ journal' \in {journal, [journal EXCEPT ![HereKey(t)] = child[t].result]}
  /\ locks' \in {locks, locks \cup {Family(t)}}
  /\ Goto(t, "paused")
  /\ UNCHANGED <<control, run, starts>>

reconcileSettled(t) ==
  /\ child[t].pc = "settled"
  /\ LET row == Settled(Here(t).max, Row(t), HereFile(t)) IN
     /\ SetAttempt(t, Cursor(t), AttemptNo(t), row)
     /\ IF row.receipt = "stopped" \/ row.budget = "overrun" THEN Goto(t, "failed") ELSE Advance(t)
  /\ UNCHANGED <<journal, locks, run, starts, budget>>

----------------------------------------------------------------------------
(* Verifying the child's candidate and sealing its inventory *)

Final(x) == x.attempts[IF x.resolution = "retry-once" THEN 2 ELSE 1]

\* The child is over: every operation must have its charged receipt.
verify(t) ==
  /\ child[t].pc = "idle" /\ child[t].cursor = Len(Program[t]) + 1
  /\ IF ~Agrees(t) THEN Goto(t, "drift") /\ UNCHANGED control
     ELSE /\ control' = [control EXCEPT ![t].slots = Reconciled(t)]
          /\ Goto(t, IF \A s \in DOMAIN Slots(t) :
                          /\ Slots(t)[s].resolution # "cancel"
                          /\ Final(Slots(t)[s]).budget = "charged" /\ ~Final(Slots(t)[s]).ambiguous
                          /\ Final(Slots(t)[s]).receipt # "stopped"
                       THEN "verifying" ELSE "failed")
  /\ UNCHANGED <<journal, locks, run, starts, budget>>

Sealable(x) ==
  /\ x.resolution # "cancel" /\ (x.resolution = "retry-once" => x.consumed)
  /\ Final(x).budget = "charged" /\ Final(x).receipt = "completed" /\ ~Final(x).ambiguous
  /\ \A a \in DOMAIN x.attempts : x.attempts[a].budget # "overrun" /\ x.attempts[a].receipt \in {"none", "completed"}

\* The verifier's verdict depends on the candidate alone, so a sealed one is verified again.
seal(t) ==
  /\ child[t].pc = "verifying"
  /\ \/ control[t].state = "open" /\ Goto(t, "failed") /\ UNCHANGED control \* not verified
     \/ control[t].state = "sealed" /\ Goto(t, "done") /\ UNCHANGED control
     \/ /\ control[t].state = "open" /\ \A s \in DOMAIN Slots(t) : Sealable(Slots(t)[s])
        /\ control' = [control EXCEPT ![t].state = "sealed"]
        /\ Goto(t, "sealed")
  /\ UNCHANGED <<journal, locks, run, starts, budget>>

afterSeal(t) ==
  /\ child[t].pc = "sealed"
  /\ Goto(t, IF Agrees(t) THEN "done" ELSE "failed")
  /\ UNCHANGED <<control, journal, locks, run, starts, budget>>

----------------------------------------------------------------------------
(* Runs, pauses, crashes and midnight *)

Terminal == {"failed", "done", "drift", "manual"}
Members == {t \in Tasks : Running(t)}
Afresh == [t \in Tasks |-> IF t \in Members /\ child[t].pc \notin Terminal
                           THEN [pc |-> "unbound", cursor |-> 1, result |-> Absent] ELSE child[t]]

\* A new runtime for the paused run replays each child from its start.
resumeRun ==
  /\ \E t \in Members : child[t].pc = "paused"
  /\ \A t \in Members : child[t].pc \in Terminal \cup {"paused", "unbound", "idle"}
  /\ child' = Afresh
  /\ run' = [run EXCEPT !.day = budget.days]
  /\ UNCHANGED <<control, journal, locks, starts, budget>>

\* One top-level execution at a time: the next run starts when this one is over.
RunIsOver == (\A t \in Members : child[t].pc \in Terminal) \/ (\E t \in Members : child[t].pc = "manual")
nextRun ==
  /\ RunIsOver
  /\ \E r \in Runs :
       /\ \A t \in Tasks : RunOf[t] = r => child[t].pc = "unbound" /\ control[t].state = "none"
       /\ run' = [name |-> r, day |-> budget.days]
  /\ UNCHANGED <<control, journal, locks, child, starts, budget>>

\* What the journal's write under way may have left behind.
Cut(t) ==
  CASE child[t].pc = "marked" -> {Absent, Prepared}
    [] child[t].pc = "settling" -> {Prepared, child[t].result}
    [] OTHER -> {}

Crash ==
  /\ budget.mishaps < MaxMishaps
  /\ budget' = [budget EXCEPT !.mishaps = @ + 1]
  /\ \/ UNCHANGED <<journal, locks>>
     \/ \E t \in Members : \E f \in Cut(t) :
          /\ Family(t) \notin locks
          /\ journal' = [journal EXCEPT ![HereKey(t)] = f]
          /\ locks' = locks \cup {Family(t)}
  /\ child' = Afresh
  /\ run' = [run EXCEPT !.day = budget.days]
  /\ UNCHANGED <<control, starts>>

Midnight ==
  /\ budget.days < MaxDays
  /\ budget' = [budget EXCEPT !.days = @ + 1]
  /\ UNCHANGED <<control, journal, locks, child, run, starts>>

Next ==
  \/ \E t \in Tasks :
       \/ bindTask(t) \/ complete(t) \/ executeTool(t) \/ abortBefore(t) \/ expect(t) \/ replay(t)
       \/ requestResolution(t) \/ resolveRetry(t) \/ resolveCancel(t)
       \/ markPrepared(t) \/ prepare(t) \/ start(t) \/ startThrows(t)
       \/ awaitOwnedOperation(t) \/ settle(t) \/ settleFails(t) \/ reconcileSettled(t)
       \/ verify(t) \/ seal(t) \/ afterSeal(t)
  \/ resumeRun \/ nextRun \/ Crash \/ Midnight

Spec == Init /\ [][Next]_vars

----------------------------------------------------------------------------
(* Properties *)

TypeOK ==
  /\ \A t \in Tasks : IsInventory(control[t])
  /\ journal \in [Keys -> File] /\ locks \subseteq (Tasks \X Seqs)
  /\ run.name \in Runs /\ starts \in [Keys -> 0..2]

Has(k) == k.seq <= Len(Slots(k.task)) /\ k.attempt <= Len(Slots(k.task)[k.seq].attempts)
RowOf(k) == Slots(k.task)[k.seq].attempts[k.attempt]

\* No attempt reaches the provider or the tool twice, and a second attempt only after
\* the operator chose to retry an operation that may be retried.
StartsAreAuthorised ==
  \A k \in Keys : /\ starts[k] <= 1
                  /\ (k.attempt = 2 /\ starts[k] = 1) =>
                       (/\ Slots(k.task)[k.seq].resolution # "none"
                        /\ Slots(k.task)[k.seq].retry = "retry-once"
                        /\ journal[[k EXCEPT !.attempt = 1]].state = "prepared")

\* Nothing that was started is forgotten by the budget: it is held in full, or its receipt counts.
StartsAreCharged ==
  \A k \in Keys : starts[k] = 1 =>
    (/\ Has(k) /\ RowOf(k).prepared /\ journal[k].state # "absent"
     /\ RowOf(k).receipt # "none" => (journal[k].outcome = RowOf(k).receipt /\ journal[k].spend = RowOf(k).spend)
     /\ RowOf(k).receipt = "none" => RowOf(k).budget \in {"held", "conservative"})

\* Every scope stays within its ceiling unless an operation itself cost more than its quote.
BudgetIsKept ==
  \A t \in Tasks, kind \in Kinds :
    \/ attemptsForScope(kind, t) <= Ceiling(kind)
    \/ \E k \in Keys : k.task \in ScopeOf(kind, t) /\ Has(k) /\ RowOf(k).budget = "overrun"

\* A sealed inventory is complete and no operation of it is under way.
SealIsFinal ==
  \A t \in Tasks : control[t].state = "sealed" =>
    (/\ Len(Slots(t)) = Len(Program[t]) /\ \A s \in DOMAIN Slots(t) : Sealable(Slots(t)[s])
     /\ child[t].pc \notin {"ready", "marked", "prepared", "running", "settling", "settled", "manual"})

\* The two records disagree only because of a sibling's files; a task is refused only for that or for its day.
DriftIsExplained ==
  \A t \in Tasks : child[t].pc = "drift" => (ForeignFiles(t) \/ control[t].day # budget.days)

\* The operations of the live adapter, its ledger and its journal stay accounted for
\* across crashes, failed writes, retries and midnight.
OperationsAreAccounted ==
  TypeOK /\ StartsAreAuthorised /\ StartsAreCharged /\ BudgetIsKept /\ SealIsFinal /\ DriftIsExplained

\* A mutation without a verified receipt does not reach the verifier.
VerifierSeesProof ==
  \A t \in Tasks : child[t].pc = "verifying" => \A s \in DOMAIN Slots(t) : Final(Slots(t)[s]).receipt = "completed"

\* A task is never refused as drifted: the children of one turn may run side by side, and
\* a paused one may be resumed on another day.
NoTaskDrifts == \A t \in Tasks : child[t].pc # "drift"
=============================================================================
