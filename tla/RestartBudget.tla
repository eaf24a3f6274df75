---------------------------- MODULE RestartBudget ----------------------------
(***************************************************************************)
(* The parent supervisor's restart loop (execution-parent-supervisor.ts,   *)
(* run), its checksummed state file (supervisor-state.ts), the manager     *)
(* lease and the runtime liveness fence (execution-supervisor-liveness.ts),*)
(* the operator's recovery command (execution-supervisor-recovery.ts) and  *)
(* a direct "aisy run" started beside the service.                         *)
(*                                                                         *)
(* Time is counted in units of the crash window's grain.  The back-off     *)
(* delays, and the counter that only selects them, are left out: a sleep   *)
(* may end at any time.                                                    *)
(***************************************************************************)
EXTENDS Integers, Sequences

CONSTANTS
    CrashWindow,     \* EXECUTION_SUPERVISOR_CRASH_WINDOW_MS
    CrashBudget,     \* EXECUTION_SUPERVISOR_CRASH_BUDGET
    PermitLife,      \* lifetime of a planned-restart permit
    MaxTime, MaxSteps, MaxCrashes, MaxFaults, MaxDirect, MaxBack

VARIABLES
    now,       \* nowMs(): the wall clock, which may be set back
    disk,      \* state.json
    mem,       \* the parent's copy of it
    parent,    \* where the parent's run() is
    planned,   \* the exit just seen was authorised by a permit
    child,     \* the supervised runtime
    orphan,    \* a runtime whose parent is gone
    permit,    \* deadline of the session's plannedPermit, 0 for none
    direct,    \* a runtime started by hand
    cli,       \* aisy supervisor recover-restart-budget
    manager,   \* holder of the manager lease
    fence,     \* holder of the child liveness lease
    exits,     \* ghost: times of the recorded unexpected exits since the last recovery
    orphaned,  \* ghost: parent crashes since the last recovery
    backs, crashes, faults, directs

vars == <<now, disk, mem, parent, planned, child, orphan, permit, direct, cli, manager, fence,
          exits, orphaned, backs, crashes, faults, directs>>

Codes == {"none", "RESTART_BUDGET_EXHAUSTED", "SUPERVISOR_STATE_UNAVAILABLE",
          "OWNED_DOCKER_RECOVERY_UNAVAILABLE"}

\* revision 0 stands for a missing file
Missing == [revision |-> 0, clean |-> TRUE, window |-> <<>>, quarantine |-> "none"]

States == [revision : Nat, clean : BOOLEAN, window : Seq(0 .. MaxTime), quarantine : Codes]

TypeOK ==
    /\ now \in 0 .. MaxTime
    /\ disk \in States /\ mem \in States
    /\ Len(disk.window) <= CrashBudget
    /\ parent \in {"off", "blocked", "fencing", "recovering", "looping", "serving", "exited",
                   "exhausted", "unavailable", "docker", "backoff", "quarantined", "stopping"}
    /\ planned \in BOOLEAN
    /\ child \in {"none", "starting", "running", "crashed", "exit75"}
    /\ orphan \in {"none", "starting", "running"}
    /\ permit \in 0 .. MaxTime + PermitLife
    /\ direct \in {"off", "probing", "probed", "running"}
    /\ cli \in {"off", "fencing", "sealing"}
    /\ manager \in {"free", "parent", "direct", "cli"}
    /\ fence \in {"free", "parent", "child", "orphan", "direct", "cli"}
    /\ exits \in Seq(0 .. MaxTime)
    /\ orphaned \in 0 .. MaxCrashes /\ backs \in 0 .. MaxBack /\ crashes \in 0 .. MaxCrashes
    /\ faults \in 0 .. MaxFaults /\ directs \in 0 .. MaxDirect

Init ==
    /\ now = 0
    /\ disk = Missing /\ mem = Missing
    /\ parent = "off" /\ planned = FALSE
    /\ child = "none" /\ orphan = "none" /\ permit = 0
    /\ direct = "off" /\ cli = "off"
    /\ manager = "free" /\ fence = "free"
    /\ exits = <<>> /\ orphaned = 0
    /\ backs = 0 /\ crashes = 0 /\ faults = 0 /\ directs = 0

(***************************************************************************)
(* publish: the candidate is validated as it would be on load, must carry  *)
(* a later revision than the file, and replaces it by rename.  A failure   *)
(* of the directory sync is reported although the new file is visible.     *)
(***************************************************************************)
decodes(state) ==
    /\ Len(state.window) <= CrashBudget
    /\ \A i \in 1 .. Len(state.window) - 1 : state.window[i] <= state.window[i + 1]

Acceptable(candidate) == decodes(candidate) /\ candidate.revision > disk.revision

Outcomes(candidate) ==
    IF ~Acceptable(candidate) THEN {"refused"}
    ELSE {"ok"} \cup (IF faults < MaxFaults THEN {"refused", "unsynced"} ELSE {})

Store(candidate, outcome) ==
    /\ disk' = IF outcome = "refused" THEN disk ELSE candidate
    /\ faults' = IF outcome # "ok" /\ Acceptable(candidate) THEN faults + 1 ELSE faults

\* nextState: the update on top of the state in memory
nextState(window, clean, quarantine) ==
    [revision |-> mem.revision + 1, clean |-> clean, window |-> window, quarantine |-> quarantine]

\* the update of a stopping parent
cleanState == nextState(mem.window, TRUE, mem.quarantine)

\* The parent publishes and remembers what it published; on failure it goes to "failed".
Publish(candidate, succeeded, failed) ==
    \E outcome \in Outcomes(candidate) :
        /\ Store(candidate, outcome)
        /\ mem' = IF outcome = "ok" THEN candidate ELSE mem
        /\ parent' = IF outcome = "ok" THEN succeeded ELSE failed

(***************************************************************************)
(* run: manager lease, liveness fence, load, first publication.            *)
(***************************************************************************)
ParentStarts ==
    /\ parent = "off" /\ disk.revision < MaxSteps
    /\ \/ manager = "free" /\ manager' = "parent" /\ parent' = "fencing"
       \/ manager # "free" /\ UNCHANGED manager /\ parent' = "blocked"
    /\ mem' = Missing /\ planned' = FALSE
    /\ UNCHANGED <<orphan, now, disk, child, permit, direct, cli, fence, exits, orphaned,
                   backs, crashes, faults, directs>>

LoadAndPublish ==
    /\ parent = "fencing" /\ fence = "free"
    /\ fence' = "parent"
    /\ \/ /\ disk.revision = 0
          /\ LET initial == [revision |-> 1, clean |-> FALSE, window |-> <<>>, quarantine |-> "none"] IN
             \E outcome \in Outcomes(initial) :
                /\ Store(initial, outcome)
                /\ mem' = initial
                /\ parent' = IF outcome = "ok" THEN "recovering" ELSE "quarantined"
       \/ /\ disk.revision > 0 /\ disk.quarantine # "none"
          /\ mem' = disk /\ parent' = "quarantined"
          /\ UNCHANGED <<disk, faults>>
       \/ /\ disk.revision > 0 /\ disk.quarantine = "none"
          /\ LET epoch == [revision |-> disk.revision + 1, clean |-> FALSE,
                        window |-> disk.window, quarantine |-> "none"] IN
             \E outcome \in Outcomes(epoch) :
                /\ Store(epoch, outcome)
                /\ mem' = IF outcome = "ok" THEN epoch ELSE disk
                /\ parent' = IF outcome = "ok" THEN "recovering" ELSE "quarantined"
    /\ UNCHANGED <<orphan, now, planned, child, permit, direct, cli, manager, exits, orphaned,
                   backs, crashes, directs>>

\* recoverBeforeFirstChild of the owned Docker resources
OwnedDockerRecovery ==
    /\ parent = "recovering"
    /\ \/ parent' = "looping" /\ UNCHANGED faults
       \/ parent' = "docker" /\ faults < MaxFaults /\ faults' = faults + 1
    /\ UNCHANGED <<orphan, now, disk, mem, planned, child, permit, direct, cli, manager, fence,
                   exits, orphaned, backs, crashes, directs>>

(***************************************************************************)
(* One round of the loop: the fence is released to the child that is       *)
(* spawned; a spawn that throws ends in a durable quarantine.              *)
(***************************************************************************)
Spawn ==
    /\ parent = "looping" /\ fence = "parent"
    /\ fence' = "free" /\ permit' = 0
    /\ \/ child' = "starting" /\ parent' = "serving" /\ UNCHANGED faults
       \/ \* pre-spawn failure: budgeted like an exit
          child' = "crashed" /\ parent' = "serving" /\ faults < MaxFaults /\ faults' = faults + 1
       \/ \* spawn throws
          UNCHANGED child /\ parent' = "unavailable" /\ faults < MaxFaults /\ faults' = faults + 1
    /\ UNCHANGED <<orphan, now, disk, mem, planned, direct, cli, manager, exits, orphaned,
                   backs, crashes, directs>>

\* acquireExecutionRunLiveness in the child: a busy fence ends the process
ChildAcquires ==
    /\ child = "starting"
    /\ \/ fence = "free" /\ fence' = "child" /\ child' = "running"
       \/ fence # "free" /\ UNCHANGED fence /\ child' = "crashed"
    /\ UNCHANGED <<orphan, now, disk, mem, parent, planned, permit, direct, cli, manager,
                   exits, orphaned, backs, crashes, faults, directs>>

PlannedRestartTwiceAsLong ==
    /\ child = "running" /\ parent = "serving" /\ permit <= now
    /\ permit' = now + 2 * PermitLife
    /\ UNCHANGED <<orphan, now, disk, mem, parent, planned, child, direct, cli, manager, fence,
                   exits, orphaned, backs, crashes, faults, directs>>

PlannedRestart ==
    /\ child = "running" /\ parent = "serving" /\ permit <= now
    /\ permit' = now + PermitLife
    /\ UNCHANGED <<orphan, now, disk, mem, parent, planned, child, direct, cli, manager, fence,
                   exits, orphaned, backs, crashes, faults, directs>>

\* The child ends with code 75 (only after a permit was granted) or otherwise;
\* the kernel drops its lock.
ChildExits ==
    /\ child \in {"starting", "running"}
    /\ \/ child' = "crashed"
       \/ child' = "exit75" /\ permit > 0
    /\ fence' = IF fence = "child" THEN "free" ELSE fence
    /\ UNCHANGED <<orphan, now, disk, mem, parent, planned, permit, direct, cli, manager,
                   exits, orphaned, backs, crashes, faults, directs>>

plannedExitAuthorized == child = "exit75" /\ permit # 0 /\ now < permit

\* serveUntilExit returns
SeeExit ==
    /\ parent = "serving" /\ child \in {"crashed", "exit75"}
    /\ planned' = plannedExitAuthorized
    /\ child' = "none" /\ permit' = 0
    /\ parent' = "exited"
    /\ UNCHANGED <<orphan, now, disk, mem, direct, cli, manager, fence, exits, orphaned,
                   backs, crashes, faults, directs>>

\* unexpectedExitMs with the exits that left the crash window dropped, and now appended
crashWindowForgetsNow == SelectSeq(mem.window, LAMBDA at : now - at < CrashWindow)

crashWindow ==
    Append(SelectSeq(mem.window, LAMBDA at : now - at < CrashWindow), now)

lastOf(window) ==
    SubSeq(window, Len(window) - CrashBudget + 1, Len(window))

(***************************************************************************)
(* The fence is back: an authorised exit only sleeps; any other one is     *)
(* recorded, and the exit that exhausts the budget is recorded before the  *)
(* quarantine is.                                                          *)
(***************************************************************************)
Account ==
    /\ parent = "exited" /\ fence = "free"
    /\ fence' = "parent"
    /\ planned' = FALSE
    /\ \/ /\ planned
          /\ parent' = "backoff"
          /\ UNCHANGED <<disk, mem, faults, exits>>
       \/ /\ ~planned /\ Len(crashWindow) >= CrashBudget
          /\ Publish(nextState(lastOf(crashWindow), mem.clean, "none"), "exhausted", "quarantined")
          /\ exits' = IF disk' # disk THEN Append(exits, now) ELSE exits
       \/ /\ ~planned /\ Len(crashWindow) < CrashBudget
          /\ Publish(nextState(crashWindow, mem.clean, "none"), "backoff", "quarantined")
          /\ exits' = IF disk' # disk THEN Append(exits, now) ELSE exits
    /\ UNCHANGED <<orphan, now, child, permit, direct, cli, manager, orphaned, backs, crashes, directs>>

BackoffEnds ==
    /\ parent = "backoff" /\ parent' = "looping"
    /\ UNCHANGED <<orphan, now, disk, mem, planned, child, permit, direct, cli, manager, fence,
                   exits, orphaned, backs, crashes, faults, directs>>

(***************************************************************************)
(* quarantineAndWait with durable = true: the fence is taken if it is not  *)
(* held, then the code is published over the restart record in memory.     *)
(***************************************************************************)
requestedCode ==
    [exhausted   |-> "RESTART_BUDGET_EXHAUSTED",
     docker      |-> "OWNED_DOCKER_RECOVERY_UNAVAILABLE",
     unavailable |-> "SUPERVISOR_STATE_UNAVAILABLE"][parent]

setQuarantine ==
    /\ parent \in {"exhausted", "docker", "unavailable"}
    /\ fence \in {"free", "parent"} /\ fence' = "parent"
    /\ Publish(nextState(mem.window, mem.clean, requestedCode),
               "quarantined", "quarantined")
    /\ UNCHANGED <<orphan, now, planned, child, permit, direct, cli, manager, exits, orphaned,
                   backs, crashes, directs>>

(***************************************************************************)
(* The service is stopped.  A running child is terminated and the fence    *)
(* taken back before the clean shutdown is published; in quarantine a      *)
(* failing publication is ignored, otherwise it quarantines.               *)
(***************************************************************************)
Abort ==
    /\ parent \in {"looping", "serving", "exited", "backoff"}
    /\ parent' = "stopping"
    /\ child' = "none" /\ permit' = 0
    /\ fence' = IF fence = "child" THEN "free" ELSE fence
    /\ UNCHANGED <<orphan, now, disk, mem, planned, direct, cli, manager, exits, orphaned,
                   backs, crashes, faults, directs>>

CleanShutdown ==
    \/ /\ parent = "stopping" /\ fence \in {"free", "parent"}
       /\ \E outcome \in Outcomes(cleanState) :
             /\ Store(cleanState, outcome)
             /\ IF outcome = "ok"
                THEN parent' = "off" /\ manager' = "free" /\ fence' = "free"
                ELSE parent' = "quarantined" /\ fence' = "parent" /\ UNCHANGED manager
       /\ UNCHANGED <<orphan, now, mem, planned, child, permit, direct, cli, exits, orphaned,
                      backs, crashes, directs>>
    \/ /\ parent = "quarantined"
       /\ \E outcome \in Outcomes(cleanState) :
             Store(cleanState, outcome)
       /\ parent' = "off" /\ manager' = "free" /\ fence' = "free"
       /\ UNCHANGED <<orphan, now, mem, planned, child, permit, direct, cli, exits, orphaned,
                      backs, crashes, directs>>
    \/ /\ parent = "blocked" /\ parent' = "off"
       /\ UNCHANGED <<orphan, now, disk, mem, planned, child, permit, direct, cli, manager, fence,
                      exits, orphaned, backs, crashes, faults, directs>>

\* The parent dies anywhere; the kernel drops its locks, its child lives on for a while.
ParentCrashes ==
    /\ parent # "off" /\ crashes < MaxCrashes /\ orphan = "none"
    /\ parent' = "off" /\ planned' = FALSE
    /\ manager' = IF manager = "parent" THEN "free" ELSE manager
    /\ orphan' = IF child \in {"starting", "running"} THEN child ELSE "none"
    /\ child' = "none" /\ permit' = 0
    /\ fence' = IF fence = "parent" THEN "free"
                ELSE IF fence = "child" THEN "orphan" ELSE fence
    /\ crashes' = crashes + 1 /\ orphaned' = orphaned + 1
    /\ UNCHANGED <<now, disk, mem, direct, cli, exits, backs, faults, directs>>

\* An orphan may still take a free fence before it notices the closed channel and ends.
OrphanAcquires ==
    /\ orphan = "starting" /\ fence = "free"
    /\ orphan' = "running" /\ fence' = "orphan"
    /\ UNCHANGED <<now, disk, mem, parent, planned, child, permit, direct, cli, manager, exits,
                   orphaned, backs, crashes, faults, directs>>

OrphanEnds ==
    /\ orphan # "none"
    /\ orphan' = "none"
    /\ fence' = IF fence = "orphan" THEN "free" ELSE fence
    /\ UNCHANGED <<now, disk, mem, parent, planned, child, permit, direct, cli, manager, exits,
                   orphaned, backs, crashes, faults, directs>>

(***************************************************************************)
(* aisy run by hand: the fence first, then a probe of the manager lease.   *)
(***************************************************************************)
acquireExecutionRunLivenessUnfenced ==
    /\ direct = "off" /\ directs < MaxDirect
    /\ fence' = "direct" /\ direct' = "probing" /\ directs' = directs + 1
    /\ UNCHANGED <<orphan, now, disk, mem, parent, planned, child, permit, cli, manager, exits,
                   orphaned, backs, crashes, faults>>

acquireExecutionRunLiveness ==
    /\ direct = "off" /\ directs < MaxDirect /\ fence = "free"
    /\ fence' = "direct" /\ direct' = "probing" /\ directs' = directs + 1
    /\ UNCHANGED <<orphan, now, disk, mem, parent, planned, child, permit, cli, manager, exits,
                   orphaned, backs, crashes, faults>>

ProbeManager ==
    /\ direct = "probing"
    /\ \/ manager = "free" /\ manager' = "direct" /\ direct' = "probed" /\ UNCHANGED fence
       \/ manager # "free" /\ direct' = "off" /\ fence' = "free" /\ UNCHANGED manager
    /\ UNCHANGED <<orphan, now, disk, mem, parent, planned, child, permit, cli, exits, orphaned,
                   backs, crashes, faults, directs>>

ProbeReleased ==
    /\ direct = "probed"
    /\ direct' = "running" /\ manager' = "free"
    /\ UNCHANGED <<orphan, now, disk, mem, parent, planned, child, permit, cli, fence, exits, orphaned,
                   backs, crashes, faults, directs>>

DirectEnds ==
    /\ direct = "running"
    /\ direct' = "off" /\ fence' = "free"
    /\ UNCHANGED <<orphan, now, disk, mem, parent, planned, child, permit, cli, manager, exits,
                   orphaned, backs, crashes, faults, directs>>

(***************************************************************************)
(* recoverExecutionSupervisorRestartBudget: both leases, then one          *)
(* publication that clears only the restart record.  A publication that    *)
(* failed after its rename is sealed with one more revision.               *)
(***************************************************************************)
CliStarts ==
    /\ cli = "off" /\ manager = "free" /\ disk.quarantine # "none"
    /\ manager' = "cli" /\ cli' = "fencing"
    /\ UNCHANGED <<orphan, now, disk, mem, parent, planned, child, permit, direct, fence, exits,
                   orphaned, backs, crashes, faults, directs>>

recovered ==
    [revision |-> disk.revision + 1, clean |-> TRUE, window |-> <<>>, quarantine |-> "none"]

sealed ==
    [revision |-> disk.revision + 1, clean |-> disk.clean,
     window |-> disk.window, quarantine |-> disk.quarantine]

CliReleases == cli' = "off" /\ manager' = "free"

CliRecovers ==
    /\ cli = "fencing" /\ fence = "free"
    /\ \/ /\ disk.quarantine # "RESTART_BUDGET_EXHAUSTED"
          /\ CliReleases
          /\ UNCHANGED <<disk, faults, exits, orphaned, fence>>
       \/ /\ disk.quarantine = "RESTART_BUDGET_EXHAUSTED"
          /\ \E outcome \in Outcomes(recovered) :
                /\ Store(recovered, outcome)
                /\ IF outcome = "unsynced"
                   THEN cli' = "sealing" /\ fence' = "cli" /\ UNCHANGED manager
                   ELSE CliReleases /\ UNCHANGED fence
          /\ exits' = IF disk' # disk THEN <<>> ELSE exits
          /\ orphaned' = IF disk' # disk THEN 0 ELSE orphaned
    /\ UNCHANGED <<orphan, now, mem, parent, planned, child, permit, direct, backs, crashes, directs>>

CliSeals ==
    /\ cli = "sealing"
    /\ \E outcome \in Outcomes(sealed) : Store(sealed, outcome)
    /\ CliReleases /\ fence' = "free"
    /\ UNCHANGED <<orphan, now, mem, parent, planned, child, permit, direct, exits, orphaned,
                   backs, crashes, directs>>

\* Its signal times out after two seconds of a busy fence.
CliTimesOut ==
    /\ cli = "fencing" /\ fence # "free"
    /\ CliReleases
    /\ UNCHANGED <<orphan, now, disk, mem, parent, planned, child, permit, direct, fence, exits,
                   orphaned, backs, crashes, faults, directs>>

Tick ==
    /\ now < MaxTime /\ now' = now + 1
    /\ UNCHANGED <<orphan, disk, mem, parent, planned, child, permit, direct, cli, manager, fence,
                   exits, orphaned, backs, crashes, faults, directs>>

ClockSetBack ==
    /\ now > 0 /\ backs < MaxBack /\ now' = now - 1 /\ backs' = backs + 1
    /\ UNCHANGED <<orphan, disk, mem, parent, planned, child, permit, direct, cli, manager, fence,
                   exits, orphaned, crashes, faults, directs>>

ParentStep ==
    \/ LoadAndPublish \/ OwnedDockerRecovery \/ Spawn \/ SeeExit \/ Account
    \/ BackoffEnds \/ setQuarantine

Next ==
    \/ ParentStarts \/ ParentStep \/ Abort \/ CleanShutdown \/ ParentCrashes
    \/ ChildAcquires \/ PlannedRestart \/ ChildExits \/ OrphanAcquires \/ OrphanEnds
    \/ acquireExecutionRunLiveness \/ ProbeManager \/ ProbeReleased \/ DirectEnds
    \/ CliStarts \/ CliRecovers \/ CliSeals \/ CliTimesOut
    \/ Tick \/ ClockSetBack

Spec == Init /\ [][Next]_vars

(***************************************************************************)
(* Fairness: the processes that run take their next step; an orphan dies   *)
(* (its channel is closed); a process started by hand ends.  Nothing makes *)
(* a child exit, the operator act, or the clock move.                      *)
(***************************************************************************)
Fairness ==
    /\ WF_vars(ParentStep) /\ WF_vars(ChildAcquires) /\ WF_vars(OrphanEnds)
    /\ WF_vars(ProbeManager) /\ WF_vars(ProbeReleased) /\ WF_vars(DirectEnds)
    /\ WF_vars(CliRecovers) /\ WF_vars(CliSeals) /\ WF_vars(CliTimesOut)

FairSpec == Spec /\ Fairness

(***************************************************************************)
(* Properties                                                              *)
(***************************************************************************)

\* recorded exits in the crash window that ends with the last one
RecentExits ==
    Len(SelectSeq(exits, LAMBDA at : exits[Len(exits)] - at < CrashWindow))

\* A child is only ever spawned with fewer recorded exits in the crash window
\* than the budget; a crash of the parent, or a failing publication, between
\* recording the last exit and recording the quarantine costs at most one more.
SpawnsAreBudgeted ==
    [][parent = "looping" /\ child' = "starting" => RecentExits < CrashBudget + orphaned + faults]_vars

\* A quarantine on disk is only lifted by the recovery command, and only the one
\* of the exhausted budget: no stale copy of the state in a parent overwrites it.
QuarantineIsSticky ==
    [][disk.quarantine # "none" /\ disk'.quarantine # disk.quarantine =>
         cli = "fencing" /\ disk.quarantine = "RESTART_BUDGET_EXHAUSTED"]_vars

\* While a quarantine is on disk no parent is in its loop and no child is served.
QuarantineHoldsZeroChildren ==
    disk.quarantine # "none" => parent \notin {"looping", "serving", "exited", "backoff"}

\* A runtime started by hand never runs beside a supervised one, nor beside a
\* parent that is past its fence.
DirectExcludesSupervised ==
    direct = "running" =>
        child # "running" /\ orphan # "running" /\ parent \in {"off", "blocked", "fencing"}

\* A parent that saw its child exit starts another one, unless it is quarantined
\* or stopped.
ChildComesBack ==
    parent = "exited" ~> (child = "starting" \/ parent \in {"off", "quarantined", "stopping"})

\* A quarantine stays until the operator lifts it and holds no child meanwhile,
\* and crashes are answered with new children only within the budget.
BudgetIsEnforced == []QuarantineHoldsZeroChildren /\ SpawnsAreBudgeted /\ QuarantineIsSticky
=============================================================================
