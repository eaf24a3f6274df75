--------------------------- MODULE ManagedInstall ---------------------------
(* The managed Git installation: install.sh, which clones, builds and hands    *)
(* over to the bootstrap, and `aisy update` with its rollback, cleanup and     *)
(* resume forms.  Everything lives in files (releases, integrity records,      *)
(* generations, the active link, the journal, the launcher), every write is    *)
(* a step, and a process may be killed between any two of them; the next one   *)
(* recovers from what it finds.  update.lock serialises the operations, so     *)
(* one process runs at a time; the branch moves under it.                      *)
EXTENDS Naturals, FiniteSets

CONSTANTS
    Commits,      \* commits the branch may point at
    Ancestors,    \* the pairs <<older, newer>> of git's history
    First,        \* where the branch points at the start
    MaxOps,       \* bound: commands given
    MaxMoves,     \* bound: moves of the branch
    MaxMishaps    \* bound: kills and changes of built files

VARIABLES
    remote,       \* the head of the canonical branch
    releases,     \* per commit, its worktree
    runtime,      \* per commit, the built files: 1 as built, 2 changed since
    integrity,    \* per commit, the digest on record (0: none)
    gens,         \* the directories under generations/
    active,       \* the generation `active` points at (0: no link)
    journal,      \* update-state.json
    launcher,     \* the launcher is in the bin directory
    barrier,      \* the auto-skill rollback barrier
    op,           \* the running command
    used,         \* counters of the bounds
    switched      \* history: the last replacement of `active`

vars == <<remote, releases, runtime, integrity, gens, active, journal, launcher,
          barrier, op, used, switched>>

none == "none"
Some == Commits \cup {none}
NoJournal == [operation |-> "none", phase |-> "none", old |-> none, new |-> none]
NoBarrier == [phase |-> "none", target |-> none]
Idle == [pc |-> "idle", kind |-> "none", rewrite |-> none, target |-> none,
         descendant |-> FALSE, id |-> 0]
NoSwitch == [old |-> none, new |-> none, kind |-> "none", rewrite |-> none,
             certified |-> FALSE, built |-> 1]

(* "unlinked": git has removed the directory and not yet the registration;     *)
(* "initMissing", "init": `worktree add` has locked its registration, without  *)
(* and with the directory.                                                     *)
Worktrees == {"absent", "unlinked", "initMissing", "init", "added", "built"}
initializing(c) == releases[c] \in {"initMissing", "init"}
pathPresent(c) == releases[c] \in {"init", "added", "built"}

Phases == {"PREPARED", "VERIFIED", "SWITCHED"}
Journals == [operation: {"bootstrap", "update", "rollback"}, phase: Phases,
             old: Some, new: Commits] \cup {NoJournal}

(* new: under `.new-g-`, g: published, gc: renamed for removal.                *)
Generations == [id: 1 .. MaxOps, kind: {"new", "g", "gc"}, current: Some, previous: Some]
ActiveGeneration == CHOOSE g \in gens : g.id = active
current == IF active = 0 THEN none ELSE ActiveGeneration.current
previous == IF active = 0 THEN none ELSE ActiveGeneration.previous

isAncestor(a, b) == <<a, b>> \in Ancestors

(* The end of a command: done, or refused with a code.                         *)
finish == op' = Idle
files == <<releases, runtime, integrity, gens, active, journal, launcher>>

(***************************************************************************)
(* Commands                                                                *)
(***************************************************************************)
(* The command line of `aisy update`; install.sh takes no arguments.           *)
Commands ==
    {[kind |-> k, rewrite |-> none] : k \in {"install", "update", "rollback", "cleanup", "resume"}} \cup
    {[kind |-> "update", rewrite |-> c] : c \in Commits}

assertLayout == active # 0

(* The launcher runs the active release; assertLayout wants a link and a       *)
(* generation behind it before the lock is tried.                              *)
request(cmd) ==
    /\ op.pc = "idle"
    /\ used.ops < MaxOps
    /\ cmd.kind # "install" => launcher /\ assertLayout
    /\ used' = [used EXCEPT !.ops = @ + 1]
    /\ op' = [Idle EXCEPT !.pc = IF cmd.kind = "install" THEN "repository" ELSE "lock",
                          !.kind = cmd.kind, !.rewrite = cmd.rewrite, !.id = used.ops + 1]
    /\ UNCHANGED <<remote, files, barrier, switched>>

(* Mutant: that the switch was made is told by the journal's phase alone.      *)
recoverableByPhase ==
    IF journal.phase = "SWITCHED"
    THEN active # 0 /\ current = journal.new /\ previous = journal.old
    ELSE IF journal.old = none THEN active = 0 ELSE active # 0 /\ current = journal.old

(* recoverJournal: what an interrupted operation may have left.  A journal     *)
(* that fits neither the old pair nor the new one is refused.                  *)
recoverable ==
    IF journal.phase = "SWITCHED" \/ (active # 0 /\ current = journal.new)
    THEN active # 0 /\ current = journal.new /\ previous = journal.old
    ELSE IF journal.old = none THEN active = 0 ELSE active # 0 /\ current = journal.old

recoverJournal ==
    /\ op.pc = "lock"
    /\ IF journal # NoJournal /\ ~recoverable
       THEN finish /\ UNCHANGED journal
       ELSE /\ journal' = NoJournal
            /\ op' = [op EXCEPT !.pc = CASE op.kind = "install" -> "bootstrap"
                                         [] op.kind = "resume" -> "resume"
                                         [] OTHER -> "generations"]
    /\ UNCHANGED <<remote, releases, runtime, integrity, gens, active, launcher, barrier,
                   used, switched>>

(***************************************************************************)
(* install.sh                                                              *)
(***************************************************************************)
(* Over an installation it runs the active release's bootstrap, then `aisy     *)
(* update`; otherwise it fetches and prepares the head of the branch.          *)
repository ==
    /\ op.pc = "repository"
    /\ op' = IF active # 0
             THEN IF releases[current] = "built"
                  THEN [op EXCEPT !.pc = "lock", !.target = current] ELSE Idle
             ELSE [op EXCEPT !.pc = "residue", !.target = remote]
    /\ UNCHANGED <<remote, files, barrier, used, switched>>

(* `worktree prune` forgets registrations whose directory is gone; a present   *)
(* directory is removed, an interrupted `worktree add` is undone.              *)
pruned == [c \in Commits |-> IF releases[c] = "unlinked" THEN "absent" ELSE releases[c]]

residue ==
    /\ op.pc = "residue"
    /\ IF pathPresent(op.target)
       THEN /\ releases' = [pruned EXCEPT ![op.target] = "unlinked"]
            /\ op' = op
       ELSE /\ releases' = [pruned EXCEPT ![op.target] = "absent"]
            /\ op' = [op EXCEPT !.pc = "add"]
    /\ UNCHANGED <<remote, runtime, integrity, gens, active, journal, launcher, barrier,
                   used, switched>>

(* `git worktree add --detach`, for both callers: the locked registration,     *)
(* then the checkout.  install.sh has removed what was there; update finds     *)
(* nothing, because its cleanup has.                                           *)
worktreeAdd ==
    /\ op.pc = "add"
    /\ IF initializing(op.target) THEN /\ releases' = [releases EXCEPT ![op.target] = "added"]
                                       /\ op' = [op EXCEPT !.pc = "build"]
       ELSE IF pathPresent(op.target) THEN op' = [op EXCEPT !.pc = "build"] /\ UNCHANGED releases
       ELSE /\ \E s \in {"initMissing", "init"} : releases' = [releases EXCEPT ![op.target] = s]
            /\ op' = op
    /\ UNCHANGED <<remote, runtime, integrity, gens, active, journal, launcher, barrier,
                   used, switched>>

(* A frozen install and a build of the workspace; a build never repairs a      *)
(* changed dependency it has already installed.                                *)
built(next) ==
    /\ releases' = [releases EXCEPT ![op.target] = "built"]
    /\ runtime' = IF releases[op.target] = "built" THEN runtime
                  ELSE [runtime EXCEPT ![op.target] = 1]
    /\ op' = [op EXCEPT !.pc = next]

buildRelease ==
    /\ op.pc = "build" /\ op.kind = "update"
    /\ built("record")
    /\ UNCHANGED <<remote, integrity, gens, active, journal, launcher, barrier, used, switched>>

installBuild ==
    /\ op.pc = "build" /\ op.kind = "install"
    /\ built("lock")
    /\ UNCHANGED <<remote, integrity, gens, active, journal, launcher, barrier, used, switched>>

buildFailed ==
    /\ op.pc = "build"
    /\ finish
    /\ UNCHANGED <<remote, files, barrier, used, switched>>

(* install.sh looks for submodules and LFS pointers after the checkout.        *)
treeRefused ==
    /\ op.pc = "build" /\ op.kind = "install" /\ releases[op.target] = "added"
    /\ finish
    /\ UNCHANGED <<remote, files, barrier, used, switched>>

runtimeDigest(c) == runtime[c]

(* recordManagedReleaseIntegrity: a digest of what is there now.               *)
recordIntegrity(next) ==
    /\ integrity' = [integrity EXCEPT ![op.target] = runtimeDigest(op.target)]
    /\ op' = [op EXCEPT !.pc = next]

record ==
    /\ op.pc = "record"
    /\ recordIntegrity("prepared")
    /\ UNCHANGED <<remote, releases, runtime, gens, active, journal, launcher, barrier,
                   used, switched>>

(* bootstrapManagedInstall.  An installation that is there gets its launcher   *)
(* and install.sh goes on to `aisy update`; otherwise every generation left    *)
(* by an earlier attempt is removed, the integrity recorded and verified.      *)
readReleaseLink(g) == pathPresent(IF g.current # none THEN g.current ELSE g.previous)

removedOnce(g) ==
    IF g.current # none THEN (gens \ {g}) \cup {[g EXCEPT !.current = none]}
    ELSE IF g.previous # none THEN (gens \ {g}) \cup {[g EXCEPT !.previous = none]}
    ELSE gens \ {g}

(* One unlink of removeGenerationTree, or the rmdir; a link is read first and  *)
(* must lead to a release directory.                                           *)
removeGenerationTree(g) ==
    IF (g.current = none /\ g.previous = none) \/ readReleaseLink(g)
    THEN gens' = removedOnce(g) /\ op' = op
    ELSE finish /\ UNCHANGED gens

bootstrapExisting ==
    /\ op.pc = "bootstrap"
    /\ active # 0
    /\ launcher' = TRUE
    /\ op' = [op EXCEPT !.pc = "lock", !.kind = "update", !.target = none]
    /\ UNCHANGED <<remote, releases, runtime, integrity, gens, active, journal, barrier,
                   used, switched>>

bootstrapResidue ==
    /\ op.pc = "bootstrap"
    /\ active = 0
    /\ \E g \in gens : removeGenerationTree(g)
    /\ UNCHANGED <<remote, releases, runtime, integrity, active, journal, launcher, barrier,
                   used, switched>>

bootstrapManagedInstall ==
    /\ op.pc = "bootstrap"
    /\ active = 0
    /\ gens = {}
    /\ recordIntegrity("verify")
    /\ UNCHANGED <<remote, releases, runtime, gens, active, journal, launcher, barrier,
                   used, switched>>

(***************************************************************************)
(* Cleanup, before every update and rollback                               *)
(***************************************************************************)
(* A residue is removed link by link; a published generation that is not the   *)
(* active one is checked, renamed and then removed the same way.               *)
cleanupGenerations ==
    /\ op.pc = "generations"
    /\ \E g \in gens :
        /\ g.id # active
        /\ IF g.kind # "g" THEN removeGenerationTree(g)
           ELSE IF readReleaseLink(g) /\ (g.previous # none => pathPresent(g.previous))
           THEN /\ gens' = (gens \ {g}) \cup {[g EXCEPT !.kind = "gc"]}
                /\ op' = op
           ELSE finish /\ UNCHANGED gens
    /\ UNCHANGED <<remote, releases, runtime, integrity, active, journal, launcher, barrier,
                   used, switched>>

(* pruneWorktrees, with the undoing of an interrupted `worktree add` whose     *)
(* directory was never made.                                                   *)
pruneWorktrees ==
    /\ op.pc = "generations"
    /\ \A g \in gens : g.id = active
    /\ releases' = [c \in Commits |-> IF releases[c] = "initMissing" THEN "absent" ELSE pruned[c]]
    /\ op' = [op EXCEPT !.pc = "releases"]
    /\ UNCHANGED <<remote, runtime, integrity, gens, active, journal, launcher, barrier,
                   used, switched>>

retained == {current, previous} \ {none}
unreferenced == {c \in Commits : releases[c] # "absent" /\ c \notin retained}

(* removeRelease: git removes the directory, then the registration.            *)
removeRelease ==
    /\ op.pc = "releases"
    /\ \E c \in unreferenced :
        releases' = [releases EXCEPT ![c] = IF pathPresent(c) THEN "unlinked" ELSE "absent"]
    /\ UNCHANGED <<remote, runtime, integrity, gens, active, journal, launcher, barrier, op,
                   used, switched>>

(* A rollback goes to the retained previous, without the network.              *)
rollbackTo == IF previous = none THEN Idle ELSE [op EXCEPT !.pc = "verify", !.target = previous]
afterCleanup ==
    CASE op.kind = "cleanup" -> Idle
      [] op.kind = "update" -> [op EXCEPT !.pc = "fetch"]
      [] OTHER -> rollbackTo

(* Integrity records without a release go last.                                *)
cleanupIntegrity ==
    /\ op.pc = "releases"
    /\ unreferenced = {}
    /\ IF \E c \in Commits : integrity[c] # 0 /\ ~pathPresent(c)
       THEN /\ \E c \in Commits :
                 /\ integrity[c] # 0 /\ ~pathPresent(c)
                 /\ integrity' = [integrity EXCEPT ![c] = 0]
            /\ op' = op
       ELSE op' = afterCleanup /\ UNCHANGED integrity
    /\ UNCHANGED <<remote, releases, runtime, gens, active, journal, launcher, barrier,
                   used, switched>>

(***************************************************************************)
(* Update and rollback                                                     *)
(***************************************************************************)
(* The fetched head: already current, not a descendant without its exact       *)
(* `--allow-rewrite`, the retained previous, or a commit to build.             *)
historyRefused(target) ==
    IF isAncestor(current, target) THEN op.rewrite # none ELSE op.rewrite # target

nextOf(target) ==
    IF target = current THEN (IF op.rewrite # none THEN "idle" ELSE "launcher")
    ELSE IF historyRefused(target) THEN "idle"
    ELSE IF target = previous THEN "verify"
    ELSE "add"

fetchHead ==
    /\ op.pc = "fetch"
    /\ op' = IF nextOf(remote) = "idle" THEN Idle
             ELSE [op EXCEPT !.pc = nextOf(remote), !.target = remote,
                             !.descendant = isAncestor(current, remote)]
    /\ UNCHANGED <<remote, files, barrier, used, switched>>

(* No network, another origin, a submodule or an LFS pointer in the tree.      *)
sourceRefused ==
    /\ op.kind = "update"
    /\ op.pc = "fetch" \/ (op.pc = "add" /\ releases[op.target] = "absent")
    /\ finish
    /\ UNCHANGED <<remote, files, barrier, used, switched>>

Entry(phase) == [operation |-> IF op.kind = "install" THEN "bootstrap" ELSE op.kind,
                 phase |-> phase, old |-> current, new |-> op.target]

(* The journal of a fresh build says PREPARED while it is verified.            *)
journalPrepared ==
    /\ op.pc = "prepared"
    /\ journal' = Entry("PREPARED")
    /\ op' = [op EXCEPT !.pc = "verify"]
    /\ UNCHANGED <<remote, releases, runtime, integrity, gens, active, launcher, barrier,
                   used, switched>>

(* verifyRelease: the exact clean commit with the recorded digest, before and  *)
(* after its own doctor.  A rollback asks for its certificate before it writes *)
(* the journal, an update that goes back after it.                             *)
verifiable(c) == releases[c] = "built" /\ integrity[c] # 0 /\ integrity[c] = runtimeDigest(c)

verifyRelease ==
    /\ op.pc = "verify"
    /\ \/ verifiable(op.target) /\ op' = [op EXCEPT !.pc = IF op.kind = "rollback" THEN "authorise"
                                                         ELSE "verified"]
       \/ finish
    /\ UNCHANGED <<remote, files, barrier, used, switched>>

certifying == op.kind = "rollback" \/ (op.kind = "update" /\ ~op.descendant)

journalVerified ==
    /\ op.pc = "verified"
    /\ journal' = Entry("VERIFIED")
    /\ op' = [op EXCEPT !.pc = IF op.kind = "update" /\ certifying THEN "authorise" ELSE "mkdir"]
    /\ UNCHANGED <<remote, releases, runtime, integrity, gens, active, launcher, barrier,
                   used, switched>>

(* prepareNodeAutoSkillRollback: an earlier barrier must be for this commit;   *)
(* a certified one is used again, a fresh one is prepared, then certified, and *)
(* taken away if that fails.                                                   *)
Certified == [phase |-> "certified", target |-> op.target]
authorised == [op EXCEPT !.pc = IF op.kind = "rollback" THEN "verified" ELSE "mkdir"]

prepareAutoSkillRollback ==
    /\ op.pc = "authorise"
    /\ CASE barrier = NoBarrier -> barrier' = [Certified EXCEPT !.phase = "preparing"] /\ op' = op
         [] barrier.target # op.target -> finish /\ UNCHANGED barrier
         [] barrier = Certified -> op' = authorised /\ UNCHANGED barrier
         [] OTHER -> barrier' = Certified /\ op' = authorised
    /\ UNCHANGED <<remote, files, used, switched>>

(* A mutation of the store is in flight, or skills still depend on it.         *)
autoSkillsRefuse ==
    /\ op.pc = "authorise"
    /\ barrier.phase = "preparing" /\ barrier.target = op.target
    /\ barrier' = NoBarrier
    /\ finish
    /\ UNCHANGED <<remote, files, used, switched>>

(* publishGeneration, one file operation at a time.                            *)
Made == CHOOSE g \in gens : g.id = op.id

makeGeneration ==
    /\ op.pc = "mkdir"
    /\ gens' = gens \cup {[id |-> op.id, kind |-> "new", current |-> none, previous |-> none]}
    /\ op' = [op EXCEPT !.pc = "link"]
    /\ UNCHANGED <<remote, releases, runtime, integrity, active, journal, launcher, barrier,
                   used, switched>>

linkGeneration ==
    /\ op.pc = "link"
    /\ LET linked == IF Made.current = none THEN [Made EXCEPT !.current = op.target]
                     ELSE [Made EXCEPT !.previous = current]
       IN /\ gens' = (gens \ {Made}) \cup {linked}
          /\ op' = IF linked.previous = current THEN [op EXCEPT !.pc = "rename"] ELSE op
    /\ UNCHANGED <<remote, releases, runtime, integrity, active, journal, launcher, barrier,
                   used, switched>>

renameGeneration ==
    /\ op.pc = "rename"
    /\ gens' = (gens \ {Made}) \cup {[Made EXCEPT !.kind = "g"]}
    /\ op' = [op EXCEPT !.pc = "switch"]
    /\ UNCHANGED <<remote, releases, runtime, integrity, active, journal, launcher, barrier,
                   used, switched>>

(* The last look at the certificate, and the one rename that publishes a pair. *)
switchActive ==
    /\ op.pc = "switch"
    /\ IF certifying /\ barrier # Certified
       THEN finish /\ UNCHANGED <<active, switched>>
       ELSE /\ active' = op.id
            /\ switched' = [old |-> current, new |-> op.target, kind |-> op.kind,
                            rewrite |-> op.rewrite, certified |-> barrier = Certified,
                            built |-> integrity[op.target]]
            /\ op' = [op EXCEPT !.pc = "switched"]
    /\ UNCHANGED <<remote, releases, runtime, integrity, gens, journal, launcher, barrier, used>>

(* The journal's last two writes; `active` already holds the new pair.         *)
journalSwitched ==
    /\ op.pc = "switched"
    /\ journal' = [journal EXCEPT !.phase = "SWITCHED"]
    /\ op' = [op EXCEPT !.pc = "clear"]
    /\ UNCHANGED <<remote, releases, runtime, integrity, gens, active, launcher, barrier,
                   used, switched>>

clearJournal ==
    /\ op.pc = "clear"
    /\ journal' = NoJournal
    /\ op' = [op EXCEPT !.pc = "launcher"]
    /\ UNCHANGED <<remote, releases, runtime, integrity, gens, active, launcher, barrier,
                   used, switched>>

publishLauncher ==
    /\ op.pc = "launcher"
    /\ launcher' = TRUE
    /\ finish
    /\ UNCHANGED <<remote, releases, runtime, integrity, gens, active, journal, barrier,
                   used, switched>>

(* `aisy update --resume-auto-skills`: only a certified barrier, and only once *)
(* the active release is not the one it was certified for.                     *)
resumeAutoSkills ==
    /\ op.pc = "resume"
    /\ barrier' = IF barrier.phase = "certified" /\ barrier.target # current
                  THEN NoBarrier ELSE barrier
    /\ finish
    /\ UNCHANGED <<remote, files, used, switched>>

(***************************************************************************)
(* The world                                                               *)
(***************************************************************************)
(* SIGKILL between two durable writes; the kernel drops the lock.              *)
kill ==
    /\ op.pc # "idle"
    /\ used.mishaps < MaxMishaps
    /\ used' = [used EXCEPT !.mishaps = @ + 1]
    /\ finish
    /\ UNCHANGED <<remote, files, barrier, switched>>

(* A file of a built release that git ignores is changed.                      *)
mutateRuntime ==
    /\ op.pc = "idle"
    /\ used.mishaps < MaxMishaps
    /\ \E c \in Commits : releases[c] = "built" /\ runtime' = [runtime EXCEPT ![c] = 2]
    /\ used' = [used EXCEPT !.mishaps = @ + 1]
    /\ UNCHANGED <<remote, releases, integrity, gens, active, journal, launcher, barrier, op,
                   switched>>

moveBranch ==
    /\ used.moves < MaxMoves
    /\ \E c \in Commits \ {remote} : remote' = c
    /\ used' = [used EXCEPT !.moves = @ + 1]
    /\ UNCHANGED <<files, barrier, op, switched>>

Init ==
    /\ remote = First
    /\ releases = [c \in Commits |-> "absent"]
    /\ runtime = [c \in Commits |-> 1]
    /\ integrity = [c \in Commits |-> 0]
    /\ gens = {} /\ active = 0
    /\ journal = NoJournal
    /\ launcher = FALSE
    /\ barrier = NoBarrier
    /\ op = Idle
    /\ used = [ops |-> 0, moves |-> 0, mishaps |-> 0]
    /\ switched = NoSwitch

Next ==
    \/ \E cmd \in Commands : request(cmd)
    \/ recoverJournal \/ repository \/ residue \/ worktreeAdd \/ buildRelease \/ installBuild \/ buildFailed
    \/ treeRefused \/ record
    \/ bootstrapExisting \/ bootstrapResidue \/ bootstrapManagedInstall
    \/ cleanupGenerations \/ pruneWorktrees \/ removeRelease \/ cleanupIntegrity
    \/ fetchHead \/ sourceRefused \/ journalPrepared \/ verifyRelease \/ journalVerified
    \/ prepareAutoSkillRollback \/ autoSkillsRefuse
    \/ makeGeneration \/ linkGeneration \/ renameGeneration \/ switchActive
    \/ journalSwitched \/ clearJournal \/ publishLauncher \/ resumeAutoSkills
    \/ kill \/ mutateRuntime \/ moveBranch

Spec == Init /\ [][Next]_vars

(***************************************************************************)
(* Properties                                                              *)
(***************************************************************************)
TypeOK ==
    /\ remote \in Commits
    /\ releases \in [Commits -> Worktrees]
    /\ runtime \in [Commits -> 1 .. 2] /\ integrity \in [Commits -> 0 .. 2]
    /\ gens \subseteq Generations
    /\ active = 0 \/ \E g \in gens : g.id = active
    /\ journal \in Journals
    /\ launcher \in BOOLEAN
    /\ barrier.phase \in {"none", "preparing", "certified"} /\ barrier.target \in Some
    /\ op.target \in Some /\ op.rewrite \in Some

(* Whatever was interrupted, `active` leads to a published generation whose    *)
(* releases are there, built and on record: one consistent pair, or none.      *)
PairIsWhole ==
    active # 0 =>
        /\ ActiveGeneration.kind = "g"
        /\ current # none
        /\ \A c \in retained : releases[c] = "built" /\ integrity[c] # 0

(* recoverJournal never refuses a journal this program left behind.            *)
JournalIsRecoverable == journal # NoJournal => recoverable

(* Only a build's own digest is ever published: a file changed afterwards is   *)
(* found out and never blessed by a new record.                                *)
PublishedIsAsBuilt == switched.built = 1

(* `active` goes to a descendant, or back with a certificate for exactly that  *)
(* commit, by a rollback or by the full hash named on the command line.        *)
BackIsAuthorised ==
    switched.old = none \/ isAncestor(switched.old, switched.new) \/
    (switched.certified /\ (switched.kind = "rollback" \/ switched.rewrite = switched.new))

(* While a release that was certified for going back is active, its barrier    *)
(* stands.                                                                     *)
BarrierStands ==
    switched.certified /\ switched.new = current => barrier = [phase |-> "certified", target |-> current]

(* An update fetches only when everything but the retained pair is gone.       *)
CleanupIsComplete ==
    op.pc = "fetch" =>
        /\ \A g \in gens : g.id = active
        /\ \A c \in Commits : (releases[c] # "absent" \/ integrity[c] # 0) => c \in retained

(* No residue of an installation that is there blocks its cleanup.             *)
ResidueIsRemovable ==
    active # 0 => \A g \in gens : (g.current # none \/ g.previous # none) => readReleaseLink(g)

(* The managed installation through kills, moved branches and changed files.   *)
InstallIsSound ==
    /\ TypeOK /\ PairIsWhole /\ JournalIsRecoverable /\ PublishedIsAsBuilt /\ BackIsAuthorised
    /\ BarrierStands /\ CleanupIsComplete /\ ResidueIsRemovable

(* AC-28-1: after a kill at any step of a first installation the next run of   *)
(* install.sh gets past what it left.                                          *)
BootstrapHeals ==
    op.pc = "bootstrap" /\ active = 0 =>
        \A g \in gens : (g.current # none \/ g.previous # none) => readReleaseLink(g)

(* AC-28-17: an explicit resume, or the command it was for, ends a barrier.    *)
BarrierIsLeavable ==
    op.pc = "idle" /\ barrier # NoBarrier =>
        barrier.phase = "certified" \/ barrier.target \in {previous, remote}
=============================================================================
