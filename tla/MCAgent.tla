------------------------------- MODULE MCAgent -------------------------------
(***************************************************************************)
(* One run for the work of an agent: its turn, the delegation of tasks and *)
(* their operations, the approval gate, learned autonomy and learned       *)
(* skills. They share no state here. A behaviour is a behaviour of one of  *)
(* them, chosen by subject in the initial state; the others are not there. *)
(***************************************************************************)
EXTENDS Integers, Sequences, FiniteSets, TLC

CONSTANTS
    AutonomySessions

VARIABLES
    subject,
    ckpt, history, session, input, pc, turn, provider, stopped, forgot, quoted, result, used,
    reused, turns, crashes,
    files, ledger, lock, mem, budget, runPc, todo, queue, at, attempted, signal, unsafe, ran,
    runUsed, faults,
    control, journal, locks, child, run, starts, operationsBudget,
    xm, overlay, handle, grants, usable, floor, gateRun, card, taught, required, gateFaults,
    now, autonomySession, autonomyLedger, reg, buffer, offers, cards, cascade, lost, autonomyFaults,
    disk, artifacts, markers, epoch, barrier, bot, updater, release, archived, notified,
    skillsBudget

(* A turn: one call that inspects and one that mutates with tainted arguments; plans that are long,   *)
(* short, empty or refused by the linter; inputs of the operator and of an untrusted source.          *)
TurnCalls ==
    {[family |-> "inspect", tainted |-> FALSE, quotes |-> FALSE],
     [family |-> "mutate", tainted |-> TRUE, quotes |-> TRUE]}
TurnPlan(steps, lint) == [steps |-> steps, lint |-> lint]
TurnPlans == {TurnPlan(<<FALSE, TRUE>>, TRUE), TurnPlan(<<FALSE>>, TRUE), TurnPlan(<<>>, TRUE), TurnPlan(<<FALSE>>, FALSE)}
TurnInput(contract, token, from, forget) ==
    [contract |-> contract, token |-> token, from |-> from, forget |-> forget]
TurnInputs ==
    {TurnInput("mutate-required", TurnPlan(<<FALSE, TRUE>>, TRUE), "operator", FALSE),
     TurnInput("answer-only", TurnPlan(<<>>, FALSE), "untrusted", FALSE),
     TurnInput("mutate-required", TurnPlan(<<>>, FALSE), "operator", TRUE)}

(* A delegation of four tasks in two lanes; c depends on a, and d is refused. *)
RunOrder == <<"a", "b", "c", "d">>
RunDependsOn == [t \in {"a", "b", "c", "d"} |-> IF t = "c" THEN {"a"} ELSE {}]
RunLane == [t \in {"a", "b", "c", "d"} |-> IF t \in {"a", "d"} THEN 1 ELSE 2]
RunRefused == {"d"}

(* Two delegated tasks in runs of their own: a provider call and a mutation, and a provider call. *)
OperationTasks == {"t1", "t2"}
OperationRunOf == [t \in OperationTasks |-> IF t = "t1" THEN "r1" ELSE "r2"]
ProviderCall == [phase |-> "provider", retry |-> "retry-once", max |-> 1]
Mutation == [phase |-> "tool", retry |-> "new-task-only", max |-> 0]
OperationProgram == [t \in OperationTasks |-> IF t = "t1" THEN <<ProviderCall, Mutation>> ELSE <<ProviderCall>>]
OperationSpends == {1, 2}

(* The gate: a write that can be remembered, a destructive command, and the two calls that change *)
(* the agent's own strictness.                                                                     *)
GateCall(tool, op, tier, del, path, key, mode) ==
    [tool |-> tool, op |-> op, tier |-> tier, acting |-> TRUE, del |-> del, outbound |-> del,
     path |-> path, hard |-> del, key |-> key, mode |-> mode]
GateCalls ==
    {GateCall("write_file", "call", 2, FALSE, TRUE, "k", "none"),
     GateCall("bash", "call", 2, TRUE, FALSE, "none", "none"),
     GateCall("configure_agent", "tighten", 1, FALSE, TRUE, "none", "read-only"),
     GateCall("configure_agent", "relax", 1, FALSE, TRUE, "none", "read-only")}
GateContexts == {[narrowed |-> narrowed, tainted |-> FALSE] : narrowed \in BOOLEAN}
GateModes == {"confirm", "bypass"}
GatePolicyModes == {"read-only"}
GateOldGrants == {}

(* Learned skills: one recipe seen in two sessions, one of which may be deleted. *)
SkillEvidence == {[session |-> s, recipe |-> "r1", turn |-> 1] : s \in {"s1", "s2"}}
SkillSources == {"s1"}
SkillProject == "project"

loopVars ==
    <<ckpt, history, session, input, pc, turn, provider, stopped, forgot, quoted, result, used,
      reused, turns, crashes>>
runVars ==
    <<files, ledger, lock, mem, budget, runPc, todo, queue, at, attempted, signal, unsafe, ran,
      runUsed, faults>>
operationsVars ==
    <<control, journal, locks, child, run, starts, operationsBudget>>
gateVars ==
    <<xm, overlay, handle, grants, usable, floor, gateRun, card, taught, required, gateFaults>>
autonomyVars ==
    <<now, autonomySession, autonomyLedger, reg, buffer, offers, cards, cascade, lost,
      autonomyFaults>>
skillsVars ==
    <<disk, artifacts, markers, epoch, barrier, bot, updater, release, archived, notified,
      skillsBudget>>
vars == <<subject, loopVars, runVars, operationsVars, gateVars, autonomyVars, skillsVars>>

Loop == INSTANCE AgentLoop WITH
    Inputs <- TurnInputs, Calls <- TurnCalls, Plans <- TurnPlans, MaxReplans <- 1, MaxTotalToolCalls
    <- 2, MaxRounds <- 1, Repeats <- 2, MaxTurns <- 1, MaxCrashes <- 1, MaxAttempts <- 2
Run == INSTANCE DelegationRun WITH
    Order <- RunOrder, DependsOn <- RunDependsOn, Lane <- RunLane, Refused <- RunRefused,
    MaxConcurrency <- 2, MaxFaults <- 2, pc <- runPc, used <- runUsed
Operations == INSTANCE DelegationOperations WITH
    Tasks <- OperationTasks, RunOf <- OperationRunOf, Program <- OperationProgram, TaskCeiling <- 2,
    RunCeiling <- 2, Daily <- 3, Spends <- OperationSpends, MaxDays <- 1, MaxMishaps <- 1, budget <-
    operationsBudget
Gate == INSTANCE ApprovalGate WITH
    Calls <- GateCalls, Contexts <- GateContexts, Modes <- GateModes, PolicyModes <-
    GatePolicyModes, OldGrants <- GateOldGrants, StepUp <- TRUE, MaxFaults <- 2, run <- gateRun,
    faults <- gateFaults
Autonomy == INSTANCE LearnedAutonomy WITH
    Sessions <- AutonomySessions, MinConfirmed <- 1, MinDistinctSessions <- 1, MinWindowDays <- 0,
    MinShadowMatches <- 1, Ttl <- 1, MaxTime <- 1, MaxLog <- 5, MaxAnswers <- 1, MaxCards <- 2,
    MaxFaults <- 1, session <- autonomySession, ledger <- autonomyLedger, faults <- autonomyFaults
Skills == INSTANCE AutoSkills WITH
    Evidence <- SkillEvidence, Sources <- SkillSources, Project <- SkillProject, MaxCrashes <- 1,
    MaxFaults <- 1, MaxRollbacks <- 1, budget <- skillsBudget

\* A component that is not the subject is not there: its variables keep this value.
Unused == "unused"

loopUnused ==
    /\ ckpt = Unused /\ history = Unused /\ session = Unused /\ input = Unused /\ pc = Unused
    /\ turn = Unused /\ provider = Unused /\ stopped = Unused /\ forgot = Unused
    /\ quoted = Unused /\ result = Unused /\ used = Unused /\ reused = Unused /\ turns = Unused
    /\ crashes = Unused
runUnused ==
    /\ files = Unused /\ ledger = Unused /\ lock = Unused /\ mem = Unused /\ budget = Unused
    /\ runPc = Unused /\ todo = Unused /\ queue = Unused /\ at = Unused /\ attempted = Unused
    /\ signal = Unused /\ unsafe = Unused /\ ran = Unused /\ runUsed = Unused /\ faults = Unused
operationsUnused ==
    /\ control = Unused /\ journal = Unused /\ locks = Unused /\ child = Unused /\ run = Unused
    /\ starts = Unused /\ operationsBudget = Unused
gateUnused ==
    /\ xm = Unused /\ overlay = Unused /\ handle = Unused /\ grants = Unused /\ usable = Unused
    /\ floor = Unused /\ gateRun = Unused /\ card = Unused /\ taught = Unused
    /\ required = Unused /\ gateFaults = Unused
autonomyUnused ==
    /\ now = Unused /\ autonomySession = Unused /\ autonomyLedger = Unused /\ reg = Unused
    /\ buffer = Unused /\ offers = Unused /\ cards = Unused /\ cascade = Unused /\ lost = Unused
    /\ autonomyFaults = Unused
skillsUnused ==
    /\ disk = Unused /\ artifacts = Unused /\ markers = Unused /\ epoch = Unused
    /\ barrier = Unused /\ bot = Unused /\ updater = Unused /\ release = Unused
    /\ archived = Unused /\ notified = Unused /\ skillsBudget = Unused

Init ==
    \/ /\ subject = "loop" /\ Loop!Init
       /\ runUnused /\ operationsUnused /\ gateUnused /\ autonomyUnused /\ skillsUnused
    \/ /\ subject = "run" /\ Run!Init
       /\ loopUnused /\ operationsUnused /\ gateUnused /\ autonomyUnused /\ skillsUnused
    \/ /\ subject = "operations" /\ Operations!Init
       /\ loopUnused /\ runUnused /\ gateUnused /\ autonomyUnused /\ skillsUnused
    \/ /\ subject = "gate" /\ Gate!Init
       /\ loopUnused /\ runUnused /\ operationsUnused /\ autonomyUnused /\ skillsUnused
    \/ /\ subject = "autonomy" /\ Autonomy!Init
       /\ loopUnused /\ runUnused /\ operationsUnused /\ gateUnused /\ skillsUnused
    \/ /\ subject = "skills" /\ Skills!Init
       /\ loopUnused /\ runUnused /\ operationsUnused /\ gateUnused /\ autonomyUnused

Next ==
    /\ UNCHANGED subject
    /\ \/ /\ subject = "loop" /\ Loop!Next
          /\ UNCHANGED <<runVars, operationsVars, gateVars, autonomyVars, skillsVars>>
       \/ /\ subject = "run" /\ Run!Next
          /\ UNCHANGED <<loopVars, operationsVars, gateVars, autonomyVars, skillsVars>>
       \/ /\ subject = "operations" /\ Operations!Next
          /\ UNCHANGED <<loopVars, runVars, gateVars, autonomyVars, skillsVars>>
       \/ /\ subject = "gate" /\ Gate!Next
          /\ UNCHANGED <<loopVars, runVars, operationsVars, autonomyVars, skillsVars>>
       \/ /\ subject = "autonomy" /\ Autonomy!Next
          /\ UNCHANGED <<loopVars, runVars, operationsVars, gateVars, skillsVars>>
       \/ /\ subject = "skills" /\ Skills!Next
          /\ UNCHANGED <<loopVars, runVars, operationsVars, gateVars, autonomyVars>>

Spec == Init /\ [][Next]_vars

\* Sessions of the autonomy ledger are compared for equality only.
Symmetry == Permutations(AutonomySessions)

\* Every tool effect of a turn has an ordinal of its own, recorded before it, and an outcome that
\* counts as verified was earned (runTurn and dispatch in agent-loop/index.ts).
TurnIsAccounted == subject = "loop" => Loop!TurnIsAccounted

\* A delegation run starts each task once, after what it depends on, within its lanes and its
\* budget, and its files agree with what happened (execute in orchestration/index.ts).
RunIsAccounted == subject = "run" => Run!RunIsAccounted

\* An operation of a delegated task reaches the outside world only as authorised, is paid for once
\* and is never repeated in doubt (durable-delegation-operation-control.ts).
OperationsAreAccounted == subject = "operations" => Operations!OperationsAreAccounted

\* No call runs without the decision its tier and mode demand, a tightened policy holds and bypass
\* stays left (hook-gate.ts, execution-mode and policy stores).
GateIsSound == subject = "gate" => Gate!GateIsSound

\* A learned grant stands on a confirmed promotion and on evidence the ledger holds (autonomy-
\* promotion.ts).
AutonomyIsEarned == subject = "autonomy" => Autonomy!AutonomyIsEarned

\* The learned skills on disk are whole, certified revisions, and a rollback barrier freezes them
\* (auto-skill-store.ts).
SkillsAreSound == subject = "skills" => Skills!SkillsAreSound
=============================================================================
