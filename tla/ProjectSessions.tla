-------------------------- MODULE ProjectSessions --------------------------
(***************************************************************************)
(* Projects, sessions and the operator's selection among them: the durable *)
(* registry with its selection generation, the service that changes it     *)
(* under one transition per operator while turns, background jobs and      *)
(* maintenance hold leases, the journal that deletes a session in phases,  *)
(* the journal that creates one, the daily rotation, and the startup that  *)
(* repairs what a crash or a failed save left unfinished.                  *)
(*                                                                         *)
(* One operator and profile.  What is on disk is one record; every         *)
(* operation that saves several files in a row is a path of such records,  *)
(* and a failed save or a crash leaves it at any point of the path.        *)
(* Names, labels, roots and hashes are abstracted: a session has one       *)
(* identifier, and the project it belongs to is fixed by ProjectOf.        *)
(***************************************************************************)
EXTENDS Naturals, FiniteSets, Sequences

CONSTANTS Projects, Workspace, Sessions, ProjectOf, None,
          InitProjects,  \* the contexts the registry starts with
          InitSessions,  \* and their sessions
          First,          \* the session selected at the start
          MaxGen,        \* bound on selection generations
          MaxLeases,     \* bound on leases held at once
          MaxDeletions,  \* bound on sessions deleted
          MaxMishaps     \* bound on crashes and failed saves

VARIABLES
  disk,     \* registry, deletion journal, creation journal, rotation record, restart intent
  op,       \* the transition in progress
  leases,   \* the leases the service tracks
  running,  \* the deletions whose resume loop runs in this process
  up,       \* "up", or how far startup came
  budget    \* mishaps, and projects registered beside the service

vars == <<disk, op, leases, running, up, budget>>

-----------------------------------------------------------------------------
(* What the stores hold.                                                   *)

Phases == <<"prepared-and-fenced", "replacement-selected", "dependants-settled",
            "provider-purge-pending", "provider-purged", "transcript-rewrite-prepared",
            "transcript-rewritten", "registry-removed", "target-controls-removed",
            "terminal", "restart-requested", "restart-acknowledged">>

Rank(phase) == IF \E i \in DOMAIN Phases : Phases[i] = phase
               THEN CHOOSE i \in DOMAIN Phases : Phases[i] = phase ELSE 0

NotDeleted == [phase |-> "none", exp |-> 0, gen |-> 0, active |-> FALSE, repl |-> None]

DeletionRecord ==
  [phase : {"none"} \cup {Phases[i] : i \in DOMAIN Phases}, exp : 0..MaxGen, gen : 0..MaxGen,
   active : BOOLEAN, repl : Sessions \cup {None}]

CreationPhases == {"none", "prepared", "registry-created", "terminal", "cancelled"}

RotationPhases == {"none", "preparing", "switched", "restart_requested", "dispatching",
                   "delivered", "ambiguous", "cancelled-stale"}

RotationRecord ==
  [phase : RotationPhases, src : Sessions \cup {None}, new : Sessions \cup {None}, gen : 0..MaxGen]

RegistryState(d) ==
  /\ d.status \in [Sessions -> {"none", "active", "archived"}]
  /\ d.projects \subseteq Projects /\ d.archived \subseteq (d.projects \ {Workspace})
  /\ Workspace \in d.projects
  /\ d.gen \in 1..MaxGen
  /\ d.status[d.sel] = "active"
  /\ ProjectOf[d.sel] \in d.projects \ d.archived
  /\ \A s \in Sessions : d.status[s] # "none" => ProjectOf[s] \in d.projects

Lease == [id : 1..MaxLeases, role : {"interactive", "background", "maintenance"},
          sess : Sessions, gen : 0..MaxGen, st : {"active", "cancelling"}, io : BOOLEAN]

NoOp == [kind |-> "none", block |-> FALSE, scope |-> "none", proj |-> None, sess |-> None,
         gen |-> 0, wait |-> {}]

Init ==
  /\ disk = [status |-> [s \in Sessions |-> IF s \in InitSessions THEN "active" ELSE "none"],
             projects |-> InitProjects, archived |-> {}, sel |-> First, gen |-> 1,
             del |-> [s \in Sessions |-> NotDeleted], cre |-> [s \in Sessions |-> "none"],
             rot |-> [phase |-> "none", src |-> None, new |-> None, gen |-> 0],
             intent |-> None]  \* the deletion an exit was committed for
  /\ op = NoOp
  /\ leases = {}
  /\ running = {}
  /\ up = "up"
  /\ budget = [mishaps |-> 0, direct |-> 0]

-----------------------------------------------------------------------------
(* The registry.                                                           *)

isFenced(d, s) == d.del[s].phase # "none"

project(d, p) == p \in d.projects \ d.archived

getSession(d, s) == project(d, ProjectOf[s]) /\ ~isFenced(d, s) /\ d.status[s] = "active"

getActive(d) == ~isFenced(d, d.sel)

latestActiveSession(d, p, excluding) ==
  {s \in Sessions : ProjectOf[s] = p /\ d.status[s] = "active" /\ s # excluding /\ ~isFenced(d, s)}

allocateId(d, p) ==
  {s \in Sessions : /\ ProjectOf[s] = p /\ d.status[s] = "none" /\ ~isFenced(d, s)
                    /\ d.cre[s] = "none" /\ s # d.rot.new
                    /\ \A t \in Sessions : d.del[t].repl # s}

chooseSession(d, p, excluding) ==
  IF latestActiveSession(d, p, excluding) # {} THEN latestActiveSession(d, p, excluding)
  ELSE allocateId(d, p)

select(d, s) == [d EXCEPT !.status[s] = "active", !.sel = s, !.gen = @ + 1]

createProject(d, p) ==
  {select([d EXCEPT !.projects = @ \cup {p}], s) :
     s \in IF p \in d.projects THEN {} ELSE allocateId(d, p)}

registrySwitch(d, p, s, gen) ==
  IF d.gen # gen \/ ~project(d, p) THEN {}
  ELSE {select(d, t) : t \in IF s = None THEN chooseSession(d, p, None)
                             ELSE {s} \cap {u \in Sessions : getSession(d, u)}}

archiveProject(d, p, gen) ==
  IF d.gen # gen \/ ~project(d, p) \/ p = Workspace THEN {}
  ELSE LET gone == [d EXCEPT !.archived = @ \cup {p}]
       IN IF ProjectOf[d.sel] # p THEN {gone}
          ELSE {select(gone, s) : s \in chooseSession(gone, Workspace, None)}

restoreProject(d, p) == [d EXCEPT !.archived = @ \ {p}]

registryCreate(d, s) == [d EXCEPT !.status[s] = "active"]

archiveSession(d, s, gen) ==
  IF d.gen # gen \/ ~getSession(d, s) THEN {}
  ELSE LET gone == [d EXCEPT !.status[s] = "archived"]
       IN IF d.sel # s THEN {gone}
          ELSE {select(gone, t) : t \in chooseSession(gone, ProjectOf[s], s)}

restoreSession(d, s) == [d EXCEPT !.status[s] = "active"]

\* Only a fenced session is replaced; the replacement prepared with the fence is
\* used when the project has no other session.
selectSessionDeletionReplacement(d, s) ==
  IF d.sel # s THEN {d}
  ELSE {select(d, t) : t \in IF latestActiveSession(d, ProjectOf[s], s) # {}
                             THEN latestActiveSession(d, ProjectOf[s], s)
                             ELSE {d.del[s].repl} \ {None}}

\* The generation and the project are looked at before the session is.
deleteAccepted(d, s) == d.gen = d.del[s].gen /\ project(d, ProjectOf[s])

deleteSession(d, s) == [d EXCEPT !.status[s] = "none"]

-----------------------------------------------------------------------------
(* Leases.  An interactive lease names the selection, a background lease   *)
(* the session a job is bound to.  A closing lease waits for its I/O.      *)

\* The barrier of the transition in progress covers a session.
covered(s) ==
  CASE op.scope = "all" -> TRUE
    [] op.scope = "project" -> op.proj = ProjectOf[s]
    [] op.scope = "session" -> op.sess = s
    [] OTHER -> FALSE

\* A barrier without a project stops no background job.
assertAcquisitionAllowed(role, s) ==
  IF role = "interactive" THEN ~(op.block /\ covered(s))
  ELSE ~(op.scope # "all" /\ covered(s))

freeId == {i \in 1..MaxLeases : \A l \in leases : l.id # i}

NewLease(role, s, gen) ==
  [id |-> CHOOSE i \in freeId : \A j \in freeId : i <= j, role |-> role, sess |-> s, gen |-> gen,
   st |-> "active", io |-> FALSE]

acquireTurnContext ==
  /\ up = "up" /\ getActive(disk) /\ freeId # {}
  /\ assertAcquisitionAllowed("interactive", disk.sel)
  /\ leases' = leases \cup {NewLease("interactive", disk.sel, disk.gen)}
  /\ UNCHANGED <<disk, op, running, up, budget>>

\* Only an interactive lease is compared by its generation; the others carry none here.
\* A binding resolves when its context and session are live and the selection can be read.
resolveBinding(s) == getSession(disk, s) /\ getActive(disk)

acquireBoundContext(s) ==
  /\ up = "up" /\ resolveBinding(s) /\ freeId # {}
  /\ assertAcquisitionAllowed("background", s)
  /\ leases' = leases \cup {NewLease("background", s, 0)}
  /\ UNCHANGED <<disk, op, running, up, budget>>

\* reserveOperation and beginIo: only on an active lease.
beginIo(l) ==
  /\ up = "up" /\ l.st = "active" /\ ~l.io
  /\ leases' = (leases \ {l}) \cup {[l EXCEPT !.io = TRUE]}
  /\ UNCHANGED <<disk, op, running, up, budget>>

\* The end of a maintenance lease ends its transition.
closed(l) ==
  /\ leases' = leases \ {l}
  /\ op' = IF l.role = "maintenance" THEN NoOp ELSE [op EXCEPT !.wait = @ \ {l.id}]

\* complete: a closing lease is gone with its last operation.
completeIo(l) ==
  /\ up = "up" /\ l.io
  /\ IF l.st = "cancelling" THEN closed(l)
     ELSE leases' = (leases \ {l}) \cup {[l EXCEPT !.io = FALSE]} /\ UNCHANGED op
  /\ UNCHANGED <<disk, running, up, budget>>

releaseTurnContext(l) ==
  /\ up = "up" /\ l.st = "active"
  /\ IF l.io THEN leases' = (leases \ {l}) \cup {[l EXCEPT !.st = "cancelling"]} /\ UNCHANGED op
     ELSE closed(l)
  /\ UNCHANGED <<disk, running, up, budget>>

\* quiesceAndClose for the leases a transition has to end: idle ones go at once.
closeLeases(ls) ==
  leases' = (leases \ ls) \cup {[l EXCEPT !.st = "cancelling"] : l \in {k \in ls : k.io}}

beginTransition(kind, block, scope, p, s, ls) ==
  /\ up = "up" /\ op = NoOp
  /\ op' = [kind |-> kind, block |-> block, scope |-> scope, proj |-> p, sess |-> s,
            gen |-> disk.gen, wait |-> {l.id : l \in {k \in ls : k.io}}]
  /\ closeLeases(ls)
  /\ UNCHANGED <<running, up, budget>>

drained(kind) == up = "up" /\ op.kind = kind /\ op.wait = {}

Interactive == {l \in leases : l.role = "interactive"}
OfProject(p) == {l \in leases : ProjectOf[l.sess] = p}
OfSession(s) == {l \in leases : l.sess = s}

\* acquire(owner) at the end of a transition: a lease on what is selected by then.
reacquire(d, wanted) ==
  leases' = IF wanted /\ getActive(d) THEN leases \cup {NewLease("interactive", d.sel, d.gen)}
            ELSE leases

\* The registry's answer, or its refusal, which changes nothing; afterwards a
\* lease, if this outcome calls for one.
commit(results, accepted, refused) ==
  /\ freeId # {}
  /\ IF results = {} THEN UNCHANGED disk ELSE disk' \in results
  /\ reacquire(disk', IF results = {} THEN refused ELSE accepted)
  /\ op' = NoOp
  /\ UNCHANGED <<running, up, budget>>

\* A hook, a check or the save fails: nothing is published.
abandon(wanted) ==
  /\ freeId # {} /\ budget.mishaps < MaxMishaps
  /\ budget' = [budget EXCEPT !.mishaps = @ + 1]
  /\ reacquire(disk, wanted)
  /\ op' = NoOp
  /\ UNCHANGED <<disk, running, up>>

-----------------------------------------------------------------------------
(* Transitions of the selection.                                           *)

\* The bound on generations, for a step that may move the selection.
roomFor(moves) == moves => disk.gen < MaxGen

\* A tap carries the generation its screen was drawn for.  The receipt issued for
\* it is good for that generation only and is consumed by the transition.
validateReceipt(g) == getActive(disk) /\ g = disk.gen

\* The project controls draw every live context.
switchTarget(g, p) == validateReceipt(g) /\ project(disk, p)

\* A session is entered from the sessions screen or as the newly created one.
switchToSession(g, s) == validateReceipt(g) /\ getSession(disk, s) /\ s # disk.sel

switchContext(p, s, g) ==
  /\ roomFor(TRUE)
  /\ IF s = None THEN switchTarget(g, p) ELSE switchToSession(g, s)
  /\ chooseSession(disk, p, None) # {}
  /\ beginTransition("switch", TRUE, "all", p, s, Interactive)
  /\ UNCHANGED disk

switchCommit ==
  /\ drained("switch")
  /\ \/ commit(registrySwitch(disk, op.proj, op.sess, op.gen), TRUE, TRUE)
     \/ abandon(TRUE)

publishPreparedProject(p) ==
  /\ getActive(disk) /\ roomFor(TRUE) /\ createProject(disk, p) # {}
  /\ beginTransition("publish", TRUE, "all", p, None, Interactive)
  /\ UNCHANGED disk

publishCommit ==
  /\ drained("publish")
  /\ \/ commit(IF disk.gen = op.gen THEN createProject(disk, op.proj) ELSE {}, TRUE, TRUE)
     \/ abandon(TRUE)

\* The bot registers a project in the registry itself: no transition, no lease is closed.
createProjectDirectly(p) ==
  /\ up = "up" /\ disk.gen < MaxGen
  /\ disk' \in createProject(disk, p)
  /\ budget' = [budget EXCEPT !.direct = @ + 1]
  /\ UNCHANGED <<op, leases, running, up>>

\* The confirmation of an archive reads its target again.
rereadTarget(g, p) == g = disk.gen /\ p # Workspace /\ project(disk, p)

archiveProjectBegin(p, g) ==
  /\ getActive(disk) /\ roomFor(ProjectOf[disk.sel] = p)
  /\ rereadTarget(g, p)
  /\ chooseSession(disk, Workspace, None) # {}
  /\ beginTransition("archive-project", ProjectOf[disk.sel] = p, "project", p, None, OfProject(p))
  /\ UNCHANGED disk

archiveProjectCommit ==
  /\ drained("archive-project")
  /\ LET wanted == ProjectOf[disk.sel] = op.proj
     IN \/ commit(archiveProject(disk, op.proj, op.gen), op.block, wanted)
        \/ abandon(wanted)

archiveSessionBegin(s, g) ==
  /\ getActive(disk) /\ roomFor(disk.sel = s) /\ g = disk.gen /\ getSession(disk, s)
  /\ chooseSession(disk, ProjectOf[s], s) # {}
  /\ beginTransition("archive-session", disk.sel = s, "session", ProjectOf[s], s, OfSession(s))
  /\ UNCHANGED disk

archiveSessionCommit ==
  /\ drained("archive-session")
  /\ \/ commit(archiveSession(disk, op.sess, op.gen), op.block, disk.sel = op.sess)
     \/ abandon(disk.sel = op.sess)

\* The root is validated between the two steps.
restoreProjectBegin(p) ==
  /\ p \in disk.archived
  /\ beginTransition("restore-project", FALSE, "all", p, None, {})
  /\ UNCHANGED disk

restoreProjectCommit ==
  /\ drained("restore-project")
  /\ \/ commit({restoreProject(disk, op.proj)}, FALSE, FALSE)
     \/ abandon(FALSE)

restoreSessionNow(s) ==
  /\ up = "up" /\ op = NoOp
  /\ project(disk, ProjectOf[s]) /\ ~isFenced(disk, s) /\ disk.status[s] = "archived"
  /\ disk' = restoreSession(disk, s)
  /\ UNCHANGED <<op, leases, running, up, budget>>

\* Maintenance of a project: every lease of the project is closed, and the
\* transition lasts as long as the maintenance lease.
acquireMaintenanceContext(s) ==
  /\ resolveBinding(s) /\ ProjectOf[s] # Workspace
  /\ beginTransition("maintenance", TRUE, "project", ProjectOf[s], s, OfProject(ProjectOf[s]))
  /\ UNCHANGED disk

maintenanceAcquired ==
  /\ drained("maintenance") /\ freeId # {}
  /\ leases' = leases \cup {NewLease("maintenance", op.sess, 0)}
  /\ op' = [op EXCEPT !.kind = "maintained"]
  /\ UNCHANGED <<disk, running, up, budget>>

\* captureWorkBinding for a project or workspace job makes a session of its own,
\* under the lease and beside any transition.
captureWorkBinding(l, s) ==
  /\ up = "up" /\ l.st = "active" /\ resolveBinding(l.sess)
  /\ s \in allocateId(disk, ProjectOf[l.sess])
  /\ disk' = registryCreate(disk, s)
  /\ UNCHANGED <<op, leases, running, up, budget>>

-----------------------------------------------------------------------------
(* A path is the sequence of what the disk holds after each save of an     *)
(* operation that makes several in a row; it ends early when a save fails  *)
(* or the process dies.                                                    *)

down ==
  /\ up' = "creation" /\ op' = NoOp /\ leases' = {} /\ running' = {}

\* Without a mishap the whole path; with one, a proper prefix of it, and the
\* process dies or goes on with the operation abandoned.
follow(path, after) ==
  \/ /\ disk' = path[Len(path)]
     /\ running' = after
     /\ op' = NoOp
     /\ UNCHANGED <<leases, up, budget>>
  \/ /\ budget.mishaps < MaxMishaps
     /\ budget' = [budget EXCEPT !.mishaps = @ + 1]
     /\ \E i \in 0..(Len(path) - 1) : disk' = IF i = 0 THEN disk ELSE path[i]
     /\ \/ op' = NoOp /\ UNCHANGED <<leases, running, up>>
        \/ down

\* prepareExternal: an existing record is returned as it is.
prepareExternal(d, s) == IF d.cre[s] = "none" THEN [d EXCEPT !.cre[s] = "prepared"] ELSE d

registryCreated(d, s) == [d EXCEPT !.cre[s] = IF @ = "prepared" THEN "registry-created" ELSE @]

\* complete and completeExternal: two saves.
completePath(d, s) == <<registryCreated(d, s), [d EXCEPT !.cre[s] = "terminal"]>>

\* create: the journal entry first; the session only if no transition is in progress.
createSession(s) ==
  /\ up = "up" /\ getActive(disk) /\ ProjectOf[s] = ProjectOf[disk.sel]
  /\ s \in allocateId(disk, ProjectOf[s])
  /\ LET d1 == prepareExternal(disk, s)
         d2 == registryCreate(d1, s)
     IN IF op = NoOp THEN follow(<<d1, d2>> \o completePath(d2, s), running)
        ELSE disk' = d1 /\ UNCHANGED <<op, leases, running, up, budget>>

-----------------------------------------------------------------------------
(* The daily rotation, driven by the nightly schedule.                     *)

rotationDone(d) == d.sel = d.rot.new /\ d.gen = d.rot.gen + 1
rotationDue(d) == d.sel = d.rot.src /\ d.gen = d.rot.gen

\* continueRotation up to the wait for the interactive leases.
continueRotation(d) ==
  IF rotationDue(d)
  THEN /\ disk' = prepareExternal(d, d.rot.new)
       /\ IF op = NoOp
          THEN beginTransition("rotate", TRUE, "all", ProjectOf[d.rot.new], d.rot.new, Interactive)
          ELSE UNCHANGED <<op, leases, running, up, budget>>
  ELSE /\ disk' = IF rotationDone(d)
                  THEN [d EXCEPT !.cre[d.rot.new] = "terminal", !.rot.phase = "switched"]
                  ELSE [d EXCEPT !.rot.phase = "cancelled-stale"]
       /\ UNCHANGED <<op, leases, running, up, budget>>

\* rotate: a new day writes a new record, the same day goes on with the old one.
rotate(s) ==
  /\ up = "up" /\ getActive(disk) /\ roomFor(TRUE)
  /\ disk.rot.phase \in {"none", "cancelled-stale", "delivered", "ambiguous"}
  /\ s \in allocateId(disk, ProjectOf[disk.sel])
  /\ LET d == [disk EXCEPT !.rot = [phase |-> "preparing", src |-> disk.sel, new |-> s,
                                    gen |-> disk.gen]]
     IN \/ continueRotation(d)
        \/ /\ budget.mishaps < MaxMishaps
           /\ budget' = [budget EXCEPT !.mishaps = @ + 1]
           /\ disk' = d /\ down

rotateAgain ==
  /\ up = "up" /\ getActive(disk) /\ disk.rot.phase = "preparing" /\ op.kind # "rotate"
  /\ continueRotation(disk)

\* A session that is there to be used, or not there yet.
repairable(d, s) ==
  project(d, ProjectOf[s]) /\ ~isFenced(d, s) /\ d.status[s] # "archived"

\* rotateSession after the wait: session, selection, lease, then the records of both journals.
rotateCommit ==
  /\ drained("rotate") /\ freeId # {}
  /\ LET n == op.sess
         d1 == registryCreate(disk, n)
         d2 == select(d1, n)
         path == <<d1, d2>> \o completePath(d2, n)
                   \o <<[d2 EXCEPT !.cre[n] = "terminal", !.rot.phase = "switched"]>>
     IN IF disk.gen = op.gen /\ repairable(disk, n)
        THEN \/ /\ disk' = path[Len(path)]
                /\ reacquire(disk', TRUE)
                /\ op' = NoOp
                /\ UNCHANGED <<running, up, budget>>
             \/ /\ budget.mishaps < MaxMishaps
                /\ budget' = [budget EXCEPT !.mishaps = @ + 1]
                /\ \E i \in 0..(Len(path) - 1) :
                     /\ disk' = IF i = 0 THEN disk ELSE path[i]
                     /\ \/ op' = NoOp /\ reacquire(disk', TRUE) /\ UNCHANGED <<running, up>>
                        \/ down
        ELSE UNCHANGED disk /\ reacquire(disk, TRUE) /\ op' = NoOp /\ UNCHANGED <<running, up, budget>>

\* After the night the restart is asked for, and the next tick of the scheduler exits.
markRestartRequested ==
  /\ up = "up" /\ disk.rot.phase = "switched"
  /\ disk' = [disk EXCEPT !.rot.phase = "restart_requested"]
  /\ UNCHANGED <<op, leases, running, up, budget>>

tickNightlyRecovery ==
  /\ up = "up" /\ disk.rot.phase = "restart_requested"
  /\ down /\ UNCHANGED <<disk, budget>>

-----------------------------------------------------------------------------
(* Deleting a session.                                                     *)

\* A tap on the sessions screen is good for the generation it was drawn for.
exactSession(g, s) ==
  getActive(disk) /\ g = disk.gen /\ ProjectOf[s] = ProjectOf[disk.sel] /\ getSession(disk, s)

\* Mutant: the session's leases are not looked at.
targetNeverBusy(s) == FALSE

targetBusy(s) == OfSession(s) # {}

\* A confirmed tap on a session without leases; the transcript head is read during the wait.
deleteBegin(s, g) ==
  /\ exactSession(g, s) /\ roomFor(disk.sel = s)
  /\ Cardinality({t \in Sessions : isFenced(disk, t)}) < MaxDeletions
  /\ ~targetBusy(s)
  /\ beginTransition("delete", TRUE, "session", ProjectOf[s], s, {})
  /\ UNCHANGED disk

\* The record that fences the session, with a replacement if it is the last of its project.
prepare(d, s, r) ==
  [d EXCEPT !.del[s] = [phase |-> "prepared-and-fenced", exp |-> d.gen, gen |-> 0,
                        active |-> d.sel = s, repl |-> r]]

advance(d, s, phase) == [d EXCEPT !.del[s].phase = phase]

selected(d, s) == [d EXCEPT !.del[s].phase = "replacement-selected", !.del[s].gen = d.gen]

\* prepareExternal, the selection, completeExternal and the journal, one save each.
selectionPath(d, s, chosen) ==
  LET r == d.del[s].repl
      d1 == IF r = None THEN d ELSE prepareExternal(d, r)
      d2 == [d1 EXCEPT !.status = chosen.status, !.sel = chosen.sel, !.gen = chosen.gen]
      d3 == IF r = None \/ d2.status[r] = "none" THEN d2 ELSE [d2 EXCEPT !.cre[r] = "terminal"]
  IN <<d1, d2, d3, selected(d3, s)>>

deleteCommit ==
  /\ drained("delete")
  /\ LET s == op.sess
         last == disk.sel = s /\ latestActiveSession(disk, ProjectOf[s], s) = {}
     IN IF disk.gen = op.gen
        THEN \E r \in IF last THEN allocateId(disk, ProjectOf[s]) ELSE {None} :
               LET d == prepare(disk, s, r)
               IN \E chosen \in selectSessionDeletionReplacement(d, s) :
                    follow(<<d>> \o selectionPath(d, s, chosen), running \cup {s})
        ELSE op' = NoOp /\ UNCHANGED <<disk, leases, running, up, budget>>

\* The head has moved, or a check refuses: the preview is stale.
deleteRefused ==
  /\ drained("delete")
  /\ op' = NoOp /\ UNCHANGED <<disk, leases, running, up, budget>>

\* What resume does from a phase to its next wait, as a path of saves; an empty
\* path is an error.
awaited == {"replacement-selected", "provider-purge-pending", "registry-removed"}

resumePath(d, s) ==
  LET phase == d.del[s].phase
      one == advance(d, s, Phases[Rank(phase) + 1])
      gone == deleteSession(d, s)
  IN IF phase \in awaited THEN <<one, advance(d, s, Phases[Rank(phase) + 2])>>
     ELSE IF phase # "transcript-rewritten" THEN <<one>>
     ELSE IF deleteAccepted(d, s) THEN <<gone, advance(gone, s, "registry-removed")>>
     ELSE <<>>

finished(d, s) ==
  \/ d.del[s].phase \in {"none", "restart-requested", "restart-acknowledged"}
  \/ d.del[s].phase = "terminal" /\ ~d.del[s].active

\* One phase of the resume loop of a running process, beside every transition.
resume(s) ==
  /\ up = "up" /\ s \in running
  /\ IF finished(disk, s)
     THEN /\ running' = running \ {s}
          /\ UNCHANGED <<disk, op, leases, up, budget>>
     ELSE LET path == resumePath(disk, s)
          IN IF path = <<>>
             THEN running' = running \ {s} /\ UNCHANGED <<disk, op, leases, up, budget>>
             ELSE \/ /\ disk' = path[Len(path)]
                     /\ UNCHANGED <<op, leases, running, up, budget>>
                  \/ /\ budget.mishaps < MaxMishaps
                     /\ budget' = [budget EXCEPT !.mishaps = @ + 1]
                     /\ \E i \in 0..(Len(path) - 1) : disk' = IF i = 0 THEN disk ELSE path[i]
                     /\ \/ running' = running \ {s} /\ UNCHANGED <<op, leases, up>>
                        \/ down

\* The deletion of the selected session ends in a restart.
runRestart(s) ==
  /\ up = "up" /\ s \notin running /\ disk.del[s].phase = "restart-requested"
  /\ disk' = [disk EXCEPT !.intent = s]
  /\ down /\ UNCHANGED budget

-----------------------------------------------------------------------------
(* Startup: creations, then selections, then deletions, then the           *)
(* notification of a rotation.  Nothing else runs before "up".  A start    *)
(* that dies on the way begins again with what it has saved.               *)

Crash ==
  /\ up # "refused" /\ budget.mishaps < MaxMishaps
  /\ budget' = [budget EXCEPT !.mishaps = @ + 1]
  /\ down /\ UNCHANGED disk

refuse == up' = "refused" /\ UNCHANGED <<disk, op, leases, running, budget>>

stage(next) == up' = next /\ UNCHANGED <<op, leases, running, budget>>

unfinished(d) == {s \in Sessions : d.cre[s] \in {"prepared", "registry-created"}}

\* SESSION_NOT_FOUND cancels a creation; any other error ends the start.
repairCreations ==
  /\ up = "creation"
  /\ IF \E s \in unfinished(disk) : ~repairable(disk, s) THEN refuse
     ELSE /\ disk' = [disk EXCEPT !.cre = [s \in Sessions |->
                       IF s \notin unfinished(disk) THEN @[s]
                       ELSE IF disk.status[s] = "none" THEN "cancelled" ELSE "terminal"]]
          /\ stage("selection")

\* publishReplacementSelection at startup: a moved generation is accepted if the
\* selection has left the session.
replaceable(d, s) == IF d.gen = d.del[s].exp THEN project(d, ProjectOf[s]) ELSE d.sel # s

fencedOnly == {s \in Sessions : disk.del[s].phase = "prepared-and-fenced"}

repairSessionDeletionSelections ==
  /\ up = "selection"
  /\ IF fencedOnly = {} THEN stage("deletion") /\ UNCHANGED disk
     ELSE \E s \in fencedOnly :
            IF ~replaceable(disk, s) THEN refuse
            ELSE \E chosen \in IF disk.gen = disk.del[s].exp
                               THEN selectSessionDeletionReplacement(disk, s) ELSE {disk} :
                   LET path == selectionPath(disk, s, chosen)
                   IN \E i \in DOMAIN path :
                        /\ disk' = path[i]
                        /\ stage(IF i = Len(path) THEN "selection" ELSE "creation")

\* repair runs every deletion through its phases; the caller then settles the
\* restart a deletion still asks for: acknowledged if this start is that restart,
\* asked for again otherwise.
repairDeletions ==
  /\ up = "deletion"
  /\ LET open == {s \in Sessions : ~finished(disk, s)}
         asking == {s \in Sessions : disk.del[s].phase = "restart-requested"}
     IN IF open # {}
        THEN \E s \in open :
               IF resumePath(disk, s) = <<>> THEN refuse
               ELSE LET path == resumePath(disk, s)
                    IN \E i \in DOMAIN path :
                         /\ disk' = path[i]
                         /\ stage(IF i = Len(path) THEN "deletion" ELSE "creation")
        ELSE IF asking = {} THEN disk' = [disk EXCEPT !.intent = None] /\ stage("notice")
        ELSE \E s \in asking :
               IF disk.intent = s
               THEN disk' = advance(disk, s, "restart-acknowledged") /\ stage("deletion")
               ELSE disk' = [disk EXCEPT !.intent = s] /\ stage("creation")

\* recoverNotification: a notice found half sent is never sent again.
recoverNotification ==
  /\ up = "notice"
  /\ CASE disk.rot.phase \in {"switched", "restart_requested"} ->
            disk' = [disk EXCEPT !.rot.phase = "dispatching"] /\ stage("sending")
       [] disk.rot.phase = "dispatching" ->
            disk' = [disk EXCEPT !.rot.phase = "ambiguous"] /\ stage("up")
       [] OTHER -> UNCHANGED disk /\ stage("up")

noticeSent ==
  /\ up = "sending"
  /\ \E phase \in {"delivered", "ambiguous"} : disk' = [disk EXCEPT !.rot.phase = phase]
  /\ stage("up")

-----------------------------------------------------------------------------
LeaseStep ==
  \/ acquireTurnContext
  \/ \E s \in Sessions : acquireBoundContext(s)
  \/ \E l \in leases : beginIo(l) \/ completeIo(l) \/ releaseTurnContext(l)
  \/ \E l \in leases, s \in Sessions : captureWorkBinding(l, s)

ServiceStep ==
  \/ \E p \in Projects, s \in Sessions \cup {None}, g \in 1..disk.gen :
       (s # None => ProjectOf[s] = p) /\ switchContext(p, s, g)
  \/ \E p \in Projects, g \in 1..disk.gen : archiveProjectBegin(p, g)
  \/ \E p \in Projects : \/ publishPreparedProject(p) \/ createProjectDirectly(p)
                         \/ restoreProjectBegin(p)
  \/ \E s \in Sessions, g \in 1..disk.gen : archiveSessionBegin(s, g)
  \/ \E s \in Sessions : \/ restoreSessionNow(s)
                         \/ acquireMaintenanceContext(s) \/ createSession(s)
  \/ switchCommit \/ publishCommit \/ archiveProjectCommit \/ archiveSessionCommit
  \/ restoreProjectCommit \/ maintenanceAcquired

RotationStep ==
  \/ \E s \in Sessions : rotate(s)
  \/ rotateAgain \/ rotateCommit \/ markRestartRequested \/ tickNightlyRecovery

DeletionStep ==
  \/ \E s \in Sessions, g \in 1..disk.gen : deleteBegin(s, g)
  \/ \E s \in Sessions : resume(s) \/ runRestart(s)
  \/ deleteCommit \/ deleteRefused

StartupStep ==
  \/ repairCreations \/ repairSessionDeletionSelections \/ repairDeletions
  \/ recoverNotification \/ noticeSent

Next == LeaseStep \/ ServiceStep \/ RotationStep \/ DeletionStep \/ StartupStep \/ Crash

Spec == Init /\ [][Next]_vars

-----------------------------------------------------------------------------
TypeOK ==
  /\ RegistryState(disk)
  /\ disk.del \in [Sessions -> DeletionRecord]
  /\ disk.cre \in [Sessions -> CreationPhases]
  /\ disk.rot \in RotationRecord
  /\ leases \subseteq Lease
  /\ running \subseteq Sessions

\* Whatever holds an active lease may go on using its context: the session is
\* neither archived nor being deleted, nor is its project archived.
LeasesAreLive ==
  \A l \in leases : l.st = "active" => getSession(disk, l.sess)

\* A turn works in the selection of its generation, unless a project was
\* registered beside the service.
TurnsFollowSelection ==
  \A l \in leases : (l.role = "interactive" /\ l.st = "active" /\ budget.direct = 0)
     => l.sess = disk.sel /\ l.gen = disk.gen

\* During maintenance nobody else has a lease on the project.
MaintenanceIsAlone ==
  \A l \in leases : l.role = "maintenance" =>
     \A k \in leases : ProjectOf[k.sess] = ProjectOf[l.sess] => k = l

\* The phases of a deletion mean what they say: the selection has left the
\* session once a replacement is selected, and the session is in the registry
\* until it is removed, and never after.
PhasesAreTrue ==
  \A s \in Sessions : isFenced(disk, s) =>
     LET r == Rank(disk.del[s].phase)
     IN /\ r >= 2 => disk.sel # s
        /\ r >= 8 => disk.status[s] = "none"
        /\ r < 7 => disk.status[s] = "active"

\* Once the process is up the two journals agree with the registry.
JournalsAgree ==
  up = "up" /\ op = NoOp =>
    /\ \A s \in Sessions : disk.cre[s] = "cancelled" => disk.status[s] = "none"
    /\ \A s \in Sessions : disk.cre[s] = "terminal" => disk.status[s] # "none" \/ isFenced(disk, s)
    /\ disk.rot.phase \in {"switched", "restart_requested", "delivered"} =>
          disk.cre[disk.rot.new] = "terminal"

\* A start is refused only over a deletion whose generation or project has moved
\* on since it began, or over a creation that failed in a context changed since.
RefusalIsExplained ==
  up = "refused" =>
    \/ \E s \in Sessions : disk.del[s].phase = "transcript-rewritten" /\ ~deleteAccepted(disk, s)
    \/ \E s \in Sessions : disk.del[s].phase = "prepared-and-fenced" /\ ProjectOf[s] \in disk.archived
    \/ \E s \in unfinished(disk) : ~repairable(disk, s)

\* Project contexts are sound: leases, selection, journals and registry agree at
\* every moment, over every interleaving of transitions, turns, jobs, deletions,
\* rotations, failed saves and crashes.
ContextsAreSound ==
  /\ TypeOK /\ LeasesAreLive /\ TurnsFollowSelection /\ MaintenanceIsAlone
  /\ PhasesAreTrue /\ JournalsAgree /\ RefusalIsExplained

\* After the fence a deletion only rolls forward: whatever was interrupted, a
\* new start resumes the recorded phase and finishes it.
DeletionRollsForward == up # "refused"
=============================================================================
