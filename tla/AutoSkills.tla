----------------------------- MODULE AutoSkills -----------------------------
(* The typed auto-skills: evidence of verified workflows, the jobs that turn   *)
(* two independent sessions into a recipe, the revisions with their scoped     *)
(* pointer, forgetting by source, the one notification of a revision, and the  *)
(* managed rollback that certifies the store for a binary that does not know   *)
(* it (auto-skill-store.ts, auto-skill-worker.ts, auto-skill-live-runtime.ts). *)
(*                                                                             *)
(* Two processes share the directory: the bot, whose one store handle holds a  *)
(* copy of the state in memory, and the updater that runs a rollback.  Every   *)
(* write of the bot is several steps (marker, check of the barrier, rename,    *)
(* removal of the marker) and the updater runs between them.                   *)
(*                                                                             *)
(* One scope and one skill identity: a recipe stands for its workflow          *)
(* fingerprint and for the hash of the revision built from it, which the       *)
(* sessions it was learnt from do not enter.                                   *)
EXTENDS Integers, Sequences, FiniteSets, SequencesExt

CONSTANTS Evidence,     \* [session, recipe, turn]: a turn whose workflow was verified
          Sources,      \* sessions and projects that may be deleted
          Project,      \* the project every session belongs to
          MaxCrashes,   \* kills of the bot or of the updater
          MaxFaults,    \* writes that fail
          MaxRollbacks  \* rollbacks the operator asks for

None == "none"
Recipes == {e.recipe : e \in Evidence}

VARIABLES
    disk,      \* state-v2.json
    artifacts, \* recipes whose directory is published
    markers,   \* .mutation-inflight-*: [owner, kind]
    epoch,     \* .store-epoch
    barrier,   \* the rollback barrier: "none", "preparing", "certified"
    bot,       \* the running process and its handle
    updater,   \* the rollback in progress
    release,   \* the active release: "v2", "target", "newer"
    archived,  \* sources the project registry has archived
    notified,  \* how often the operator was told of a recipe
    budget     \* [crashes, faults, rollbacks] spent

vars == <<disk, artifacts, markers, epoch, barrier, bot, updater, release, archived,
          notified, budget>>

-----------------------------------------------------------------------------
(* The state of the store.                                                     *)

NoRevision == [phase |-> None, prev |-> None, job |-> 0]
NoPointer == [active |-> None, prev |-> None]

empty == [ev |-> [e \in Evidence |-> None], jobs |-> <<>>,
          revs |-> [r \in Recipes |-> NoRevision], ptr |-> NoPointer,
          notes |-> [r \in Recipes |-> None], claims |-> <<>>, certs |-> {}]

(* The certificates are not part of what a certificate is bound to.            *)
rollbackStateHash(st) == [st EXCEPT !.certs = {}]

(* What an older binary would leave behind.                                    *)
dependencies(st) ==
    \/ \E e \in Evidence : st.ev[e] # None
    \/ \E j \in DOMAIN st.jobs : st.jobs[j].phase # "forgotten"
    \/ \E r \in Recipes : st.revs[r].phase \notin {None, "tombstoned"}
    \/ st.ptr.active # None
    \/ \E c \in DOMAIN st.claims : st.claims[c].phase # "tombstoned"

stateHasRollbackCertificate(st) ==
    ~dependencies(st) /\ rollbackStateHash(st) \in st.certs

parseVerifiedWorkflowEvidence(st) ==
    st.ev \in [Evidence -> {None, "pending_reply", "live", "forget_claimed"}]

validState(st) ==
    /\ parseVerifiedWorkflowEvidence(st)
    /\ \A j \in DOMAIN st.jobs : st.jobs[j].phase # "forgotten" =>
            \A e \in st.jobs[j].ev : st.ev[e] # None
    /\ \A r \in Recipes : st.revs[r].phase # None => st.revs[r].job \in DOMAIN st.jobs
    /\ \A p \in {st.ptr.active, st.ptr.prev} \ {None} : st.revs[p].phase # None
    /\ \A r \in Recipes : st.notes[r] # None => st.revs[r].phase # None

makeVerifiedWorkflowEvidence(e) == e.session \notin archived /\ Project \notin archived

sourceOf(e, s) == s \in {e.session, Project}

(* Two live pieces of evidence of one recipe from different sessions, in the   *)
(* order they were staged, make a job unless one that is not forgotten exists. *)
confirmEvidence(st, e) ==
    LET live == {x \in Evidence : st.ev[x] = "live" /\ x.recipe = e.recipe}
        pairs == {p \in SUBSET live : Cardinality(p) = 2 /\
                    Cardinality({x.session : x \in p}) = 2}
        taken == \E j \in DOMAIN st.jobs :
                    st.jobs[j].recipe = e.recipe /\ st.jobs[j].phase # "forgotten"
    IN  IF pairs = {} \/ taken THEN {st}
        ELSE {[st EXCEPT !.jobs = Append(@, [recipe |-> e.recipe, ev |-> p, phase |-> "queued",
                                             base |-> st.ptr.active])] : p \in pairs}

working == {"queued", "generated", "validated", "shadow_verified", "prepared"}

nextWork(st) == SelectInSeq(st.jobs, LAMBDA j : j.phase \in working)

evidenceFor(st, j) == \A e \in st.jobs[j].ev : st.ev[e] = "live"

updateJob(st, j, phase) == [st EXCEPT !.jobs[j].phase = phase]

(* The open claim of a source, or 0.                                           *)
openClaim(st, s) == SelectInSeq(st.claims, LAMBDA c : c.source = s /\ c.phase # "tombstoned")

(* Forgetting a source takes every job with evidence of it, all the evidence   *)
(* of those jobs, their revisions and the pointers to them.                    *)
claimBySource(st, s) ==
    LET jobs == {j \in DOMAIN st.jobs : st.jobs[j].phase # "forgotten" /\
                    \E e \in st.jobs[j].ev : st.ev[e] # None /\ sourceOf(e, s)}
        revs == {r \in Recipes : st.revs[r].phase \notin {None, "tombstoned"} /\
                    (st.revs[r].job \in jobs \/
                        \E e \in st.jobs[st.revs[r].job].ev : sourceOf(e, s))}
        gone == jobs \cup {st.revs[r].job : r \in revs}
        evs == {e \in Evidence : st.ev[e] # None /\
                    (sourceOf(e, s) \/ \E j \in jobs : e \in st.jobs[j].ev)}
    IN  [st EXCEPT
            !.jobs = [j \in DOMAIN @ |-> IF j \in gone THEN [@[j] EXCEPT !.phase = "forgotten"] ELSE @[j]],
            !.revs = [r \in Recipes |-> IF r \in revs THEN [@[r] EXCEPT !.phase = "forget_claimed"] ELSE @[r]],
            !.ptr = IF @.active \in revs THEN NoPointer
                    ELSE IF @.prev \in revs THEN [@ EXCEPT !.prev = None] ELSE @,
            !.notes = [r \in Recipes |-> IF r \in revs /\ @[r] = "pending" THEN None ELSE @[r]],
            !.ev = [e \in Evidence |-> IF e \in evs THEN "forget_claimed" ELSE @[e]],
            !.claims = Append(@, [source |-> s, evs |-> evs, revs |-> revs, phase |-> "forget_claimed"])]

(* The second half of purgeClaim, after the artifacts are gone.                *)
purged(st, c) ==
    [st EXCEPT
        !.revs = [r \in Recipes |-> IF r \in st.claims[c].revs THEN [@[r] EXCEPT !.phase = "tombstoned"] ELSE @[r]],
        !.ev = [e \in Evidence |-> IF @[e] = "forget_claimed" THEN None ELSE @[e]],
        !.claims[c].phase = "tombstoned", !.claims[c].source = None]

(* Claims a restart may finish: those already purging, and those whose source  *)
(* is known to be archived.                                                    *)
recoverForgetClaims(st, known) ==
    SelectInSeq(st.claims, LAMBDA c : c.phase = "purging" \/
                                      (c.phase = "forget_claimed" /\ c.source \in known))

(* A published revision that broke its postcondition gives way to the one      *)
(* before it, if the pointer still names both.                                 *)
permanentFailure(st, r) ==
    IF st.revs[r].phase # "active" \/ st.ptr.active # r THEN st
    ELSE IF st.ptr.prev = None
         THEN [st EXCEPT !.revs[r].phase = "demoted", !.ptr = NoPointer]
         ELSE LET p == st.ptr.prev IN
              [st EXCEPT !.revs[r].phase = "demoted", !.revs[p].phase = "active",
                         !.ptr = [active |-> p, prev |-> st.revs[p].prev]]

(* The pointer moves to a prepared revision and the operator is told once.     *)
activated(st, j) ==
    LET r == st.jobs[j].recipe
        old == st.revs[r].prev IN
    [st EXCEPT
        !.ptr = [active |-> r, prev |-> st.ptr.active],
        !.revs = [x \in Recipes |->
                    IF x = r THEN [@[x] EXCEPT !.phase = "active"]
                    ELSE IF x = old /\ @[x].phase = "active" THEN [@[x] EXCEPT !.phase = "demoted"]
                    ELSE @[x]],
        !.jobs[j].phase = "active",
        !.notes[r] = IF @ = None THEN "pending" ELSE @]

(* A restart cannot know whether a claimed notification was sent.              *)
ambiguous(st) ==
    [st EXCEPT !.notes = [r \in Recipes |-> IF @[r] = "claimed" THEN "ambiguous" ELSE @[r]]]

-----------------------------------------------------------------------------
(* The handle.  pc is where a write stands, then what the running call does    *)
(* when the write is done ("return": nothing), await the model or Telegram     *)
(* call the drain is suspended in.                                             *)

Down == [up |-> FALSE, epoch |-> 0, mem |-> empty, poisoned |-> FALSE, pc |-> "idle",
         then |-> "return", await |-> None, job |-> 0, art |-> None, planned |-> None]

live(owner) == \/ owner = "bot" /\ bot.up
               \/ owner = "updater" /\ updater.pc # "off"

(* The markers of a process that died may be reconciled, and then an artifact  *)
(* no revision of the state names is removed; a live owner blocks everything.  *)
mutationInFlight == \E m \in markers : live(m.owner)

reconcileDeadArtifact ==
    artifacts \ {r \in Recipes : disk.revs[r].phase = None /\
                    \E m \in markers : m.kind = r}

(* What remains of the markers when their owners are dead.                     *)
reconcileDeadTemporary == {m \in markers : live(m.owner)}

rotateStoreEpoch == epoch' = epoch + 1

(* A directory that holds the manifest of its own hash and its rendering.      *)
readArtifact(r) == r \in artifacts

(* The doctor's classification, which changes nothing.                         *)
inspectNodeAutoSkillStoreV2 ==
    LET r == disk.ptr.active IN
    IF ~validState(disk) \/ (r # None /\ (disk.revs[r].phase # "active" \/ ~readArtifact(r)))
    THEN "corrupt"
    ELSE IF barrier # "none" \/ markers # {} THEN "degraded" ELSE "ready"

(* What a start finds: no barrier, one bound to the state that is there, or    *)
(* one the process must not start under.                                       *)
inspectNodeAutoSkillRollbackBarrier ==
    CASE barrier = "none" -> "absent"
      [] barrier = "certified" /\ markers = {} /\ inspectNodeAutoSkillStoreV2 # "corrupt" /\
         stateHasRollbackCertificate(disk) -> "certified"
      [] OTHER -> "unsafe"

writable == /\ ~bot.poisoned
            /\ barrier = "none"
            /\ bot.epoch = epoch

ready == bot.up /\ bot.pc = "idle" /\ bot.then = "return"

mutationMarker(kind) == [owner |-> "bot", kind |-> kind]

(* The start of persist, behind its first ensureWritable: the state in memory  *)
(* is already the new one.                                                     *)
persist(b, st, then) ==
    /\ bot' = [b EXCEPT !.mem = st, !.pc = "begun", !.then = then]
    /\ UNCHANGED <<disk, artifacts, markers, epoch, barrier, updater, release, archived, notified, budget>>


(* What a call leaves when it throws: its markers are removed, an artifact it  *)
(* created is removed unless the state already names it.  A throw inside the   *)
(* drain is a rejection nobody handles, so the process shuts down; a call of a *)
(* turn only fails, and the handle stays poisoned if the throw poisoned it.    *)
ofDrain == bot.then \notin {"return", "purge"}

released == {m \in markers : m.owner # "bot"}
orphaned == {[m EXCEPT !.owner = IF @ = "bot" THEN "dead" ELSE @] : m \in markers}

failed == IF ofDrain THEN Down
          ELSE [bot EXCEPT !.pc = "idle", !.then = "return", !.art = None, !.poisoned = TRUE]

throw ==
    /\ bot' = failed
    /\ markers' = IF bot.pc # "idle" THEN released ELSE IF ofDrain THEN orphaned ELSE markers
    /\ artifacts' = artifacts \ {bot.art}
    /\ UNCHANGED <<disk, epoch, barrier, updater, release, archived, notified, budget>>

fault == [budget EXCEPT !.faults = @ + 1]

PersistMark ==
    /\ bot.up /\ bot.pc = "begun"
    /\ bot' = [bot EXCEPT !.pc = "marked"]
    /\ markers' = markers \cup {mutationMarker("state")}
    /\ UNCHANGED <<disk, artifacts, epoch, barrier, updater, release, archived, notified, budget>>

(* Mutant: the barrier and the epoch are not looked at again once the marker   *)
(* is on disk.                                                                 *)
PersistCheckOnce ==
    /\ bot.up /\ bot.pc = "marked"
    /\ bot' = [bot EXCEPT !.pc = "checked"]
    /\ UNCHANGED <<disk, artifacts, markers, epoch, barrier, updater, release, archived, notified, budget>>

(* ensureWritable, once the marker is on disk.                                 *)
PersistCheck ==
    /\ bot.up /\ bot.pc = "marked"
    /\ \/ /\ writable
          /\ bot' = [bot EXCEPT !.pc = "checked"]
          /\ UNCHANGED <<disk, artifacts, markers, epoch, barrier, updater, release, archived, notified, budget>>
       \/ ~writable /\ throw

PersistRename ==
    /\ bot.up /\ bot.pc = "checked"
    /\ disk' = bot.mem
    /\ bot' = [bot EXCEPT !.pc = "renamed", !.art = None]
    /\ UNCHANGED <<artifacts, markers, epoch, barrier, updater, release, archived, notified, budget>>

(* A write that fails before the rename leaves the old state and poisons the   *)
(* handle.                                                                     *)
PersistFails ==
    /\ bot.up /\ bot.pc \in {"begun", "marked", "checked"} /\ budget.faults < MaxFaults
    /\ bot' = failed
    /\ markers' = released
    /\ artifacts' = artifacts \ {bot.art}
    /\ budget' = fault
    /\ UNCHANGED <<disk, epoch, barrier, updater, release, archived, notified>>

PersistDone ==
    /\ bot.up /\ bot.pc = "renamed"
    /\ bot' = [bot EXCEPT !.pc = "idle"]
    /\ markers' = released
    /\ UNCHANGED <<disk, artifacts, epoch, barrier, updater, release, archived, notified, budget>>

(* A failure after the rename: the new state is there, the handle is poisoned, *)
(* and the marker goes only if the bytes could be confirmed.                   *)
PersistUnsure ==
    /\ bot.up /\ bot.pc = "renamed" /\ budget.faults < MaxFaults
    /\ bot' = failed
    /\ \E resolved \in BOOLEAN :
        markers' = IF resolved THEN released ELSE IF ofDrain THEN orphaned ELSE markers
    /\ budget' = fault
    /\ UNCHANGED <<disk, artifacts, epoch, barrier, updater, release, archived, notified>>

-----------------------------------------------------------------------------
(* What turns do.                                                              *)

Forgotten(st, e) ==
    \E c \in DOMAIN st.claims :
        \/ e \in st.claims[c].evs
        \/ st.claims[c].phase # "tombstoned" /\ sourceOf(e, st.claims[c].source)

stage(e) ==
    /\ ready /\ writable
    /\ makeVerifiedWorkflowEvidence(e)
    /\ ~Forgotten(bot.mem, e) /\ bot.mem.ev[e] = None
    /\ persist(bot, [bot.mem EXCEPT !.ev[e] = "pending_reply"], "return")

confirmReply(e) ==
    /\ ready /\ writable
    /\ bot.mem.ev[e] = "pending_reply"
    /\ \E st \in confirmEvidence([bot.mem EXCEPT !.ev[e] = "live"], e) : persist(bot, st, "return")

(* Before a session or a project is archived.                                  *)
claimSource(s) ==
    /\ ready /\ writable
    /\ s \notin archived /\ openClaim(bot.mem, s) = 0
    /\ persist(bot, claimBySource(bot.mem, s), "return")

(* The project registry, once the claim is recorded (external).                *)
archive(s) ==
    /\ ready /\ openClaim(disk, s) # 0 /\ s \notin archived
    /\ archived' = archived \cup {s}
    /\ UNCHANGED <<disk, artifacts, markers, epoch, barrier, bot, updater, release, notified, budget>>

completeSourceForget(s) ==
    /\ ready /\ writable /\ s \in archived
    /\ LET c == openClaim(bot.mem, s) IN
        /\ c # 0
        /\ persist(bot, [bot.mem EXCEPT !.claims[c].phase = "purging"], "purge")

(* Between the two writes of purgeClaim the artifacts are removed.             *)
purgeClaim ==
    /\ bot.up /\ bot.pc = "idle" /\ bot.then \in {"purge", "drain-purge"}
    /\ \/ /\ writable
          /\ LET c == SelectInSeq(bot.mem.claims, LAMBDA x : x.phase = "purging") IN
              /\ artifacts' = artifacts \ bot.mem.claims[c].revs
              /\ bot' = [bot EXCEPT !.mem = purged(@, c), !.pc = "begun",
                                    !.then = IF @ = "purge" THEN "return" ELSE "drain"]
          /\ UNCHANGED <<disk, markers, epoch, barrier, updater, release, archived, notified, budget>>
       \/ ~writable /\ throw

(* The one active recipe answers a request; its receipt is checked afterwards. *)
plan ==
    /\ ready /\ writable /\ bot.planned = None
    /\ LET r == bot.mem.ptr.active IN
        /\ r # None /\ bot.mem.revs[r].phase = "active" /\ readArtifact(r)
        /\ bot' = [bot EXCEPT !.planned = r]
    /\ UNCHANGED <<disk, artifacts, markers, epoch, barrier, updater, release, archived, notified, budget>>

observeInvocation ==
    /\ ready /\ bot.planned # None
    /\ LET st == permanentFailure(bot.mem, bot.planned) IN
        \/ /\ writable /\ st # bot.mem
           /\ persist([bot EXCEPT !.planned = None], st, "return")
        \/ /\ bot' = [bot EXCEPT !.planned = None]
           /\ UNCHANGED <<disk, artifacts, markers, epoch, barrier, updater, release, archived, notified, budget>>

(* Any call of a turn on a handle that is no longer the store's.               *)
ensureWritable ==
    /\ ready /\ ~writable /\ ~bot.poisoned
    /\ throw

-----------------------------------------------------------------------------
(* The drain: claims first, then jobs, then notifications.                     *)

local(b) ==
    /\ bot' = b
    /\ UNCHANGED <<disk, artifacts, markers, epoch, barrier, updater, release, archived, notified, budget>>

draining == bot.up /\ bot.pc = "idle" /\ bot.await = None /\ bot.then \in {"return", "drain"}

(* Outside a drain a step that throws is the first of a new one.               *)
inDrain == [bot EXCEPT !.then = "drain"]

throwDrain ==
    /\ bot' = Down
    /\ markers' = IF bot.pc # "idle" THEN released ELSE orphaned
    /\ artifacts' = artifacts \ {bot.art}
    /\ UNCHANGED <<disk, epoch, barrier, updater, release, archived, notified, budget>>

runDrain ==
    /\ draining
    /\ LET c == recoverForgetClaims(bot.mem, archived)
           j == nextWork(bot.mem) IN
        \/ /\ c # 0 /\ writable
           /\ persist(bot, [bot.mem EXCEPT !.claims[c].phase = "purging"], "drain-purge")
        \/ /\ (c # 0 /\ ~writable) \/ (c = 0 /\ j # 0 /\ ~evidenceFor(bot.mem, j))
           /\ throwDrain
        \/ c = 0 /\ j # 0 /\ evidenceFor(bot.mem, j) /\ local([bot EXCEPT !.job = j, !.then = "work"])
        \/ c = 0 /\ j = 0 /\ bot.then = "drain" /\ local([bot EXCEPT !.then = "notes"])
        \/ /\ c = 0 /\ j = 0 /\ bot.then = "return"
           /\ \E r \in Recipes : bot.mem.notes[r] = "pending"
           /\ local([bot EXCEPT !.then = "notes"])

phaseOf == bot.mem.jobs[bot.job].phase
recipeOf == bot.mem.jobs[bot.job].recipe

atWork(phase) == bot.up /\ bot.pc = "idle" /\ bot.then = "work" /\ phaseOf = phase

(* A compare-and-swap of the job's phase, or a throw.                          *)
advanceJob(expected, next) ==
    \/ writable /\ phaseOf = expected /\ persist(bot, updateJob(bot.mem, bot.job, next), "work")
    \/ (~writable \/ phaseOf # expected) /\ throwDrain

quarantineOpen ==
    /\ writable /\ phaseOf \notin {"active", "forgotten"}
    /\ persist(bot, updateJob(bot.mem, bot.job, "quarantined"), "drain")

quarantine ==
    \/ ~writable /\ throwDrain
    \/ writable /\ phaseOf \in {"active", "forgotten"} /\ local(inDrain)
    \/ quarantineOpen

callGenerator == atWork("queued") /\ local([bot EXCEPT !.await = "generate", !.then = "return"])

callJudge == atWork("validated") /\ local([bot EXCEPT !.await = "judge", !.then = "return"])

resumed(point) == ready /\ bot.await = point

(* The model call returned: an error defers the job, the result advances or    *)
(* quarantines it.  The job may have been forgotten meanwhile.                 *)
back == [bot EXCEPT !.await = None]

generated ==
    /\ resumed("generate")
    /\ \/ local([back EXCEPT !.then = "notes"])
       \/ local([back EXCEPT !.then = "generated"])
       \/ local([back EXCEPT !.then = "rejected"])

judged ==
    /\ resumed("judge")
    /\ \/ local([back EXCEPT !.then = "notes"])
       \/ local([back EXCEPT !.then = "accepted"])
       \/ local([back EXCEPT !.then = "rejected"])

parseSkillRecipeDraft ==
    /\ bot.up /\ bot.pc = "idle"
    /\ \/ bot.then = "generated" /\ advanceJob("queued", "generated")
       \/ bot.then = "rejected" /\ quarantine

validateSkillRecipeDraft ==
    /\ atWork("generated")
    /\ advanceJob("generated", "validated") \/ quarantineOpen

shadowVerifyAutoSkill ==
    /\ bot.up /\ bot.pc = "idle" /\ bot.then = "accepted"
    /\ advanceJob("validated", "shadow_verified")

(* prepare: the artifact is written under a marker of its own, and the state   *)
(* that names it is the next write.                                            *)
prepare ==
    /\ atWork("shadow_verified")
    /\ \/ /\ writable /\ bot.mem.ptr.active = bot.mem.jobs[bot.job].base
          /\ local([bot EXCEPT !.pc = "preparing"])
       \/ (~writable \/ bot.mem.ptr.active # bot.mem.jobs[bot.job].base) /\ throwDrain

artifactMarker ==
    /\ bot.up /\ bot.pc = "preparing"
    /\ bot' = [bot EXCEPT !.pc = "artifact"]
    /\ markers' = markers \cup {mutationMarker(recipeOf)}
    /\ UNCHANGED <<disk, artifacts, epoch, barrier, updater, release, archived, notified, budget>>

writeArtifact ==
    /\ bot.up /\ bot.pc = "artifact"
    /\ \/ /\ writable
          /\ artifacts' = artifacts \cup {recipeOf}
          /\ bot' = [bot EXCEPT !.pc = "published", !.art = IF recipeOf \in artifacts THEN None ELSE recipeOf]
          /\ UNCHANGED <<disk, markers, epoch, barrier, updater, release, archived, notified, budget>>
       \/ ~writable /\ throwDrain

Prepared ==
    [bot.mem EXCEPT !.revs[recipeOf] = [phase |-> "prepared", prev |-> bot.mem.ptr.active, job |-> bot.job],
                    !.jobs[bot.job].phase = "prepared"]

(* A revision of the same hash that is already recorded, a tombstone included, *)
(* is a conflict.                                                              *)
recordRevision ==
    /\ bot.up /\ bot.pc = "published"
    /\ LET known == bot.mem.revs[recipeOf].phase # None IN
        \/ writable /\ ~known /\ persist(bot, Prepared, "work")
        \/ (~writable \/ known) /\ throwDrain

activate ==
    /\ atWork("prepared")
    /\ LET st == bot.mem
           ok == /\ writable
                 /\ st.revs[recipeOf].phase = "prepared" /\ readArtifact(recipeOf)
                 /\ st.ptr.active = st.jobs[bot.job].base IN
        \/ ok /\ persist(bot, activated(st, bot.job), "drain")
        \/ ~ok /\ throwDrain

claimNotification ==
    /\ bot.up /\ bot.pc = "idle" /\ bot.then = "notes"
    /\ LET waiting == {r \in Recipes : bot.mem.notes[r] = "pending"} IN
        \/ ~writable /\ throwDrain
        \/ writable /\ waiting = {} /\ local([bot EXCEPT !.then = "return"])
        \/ \E r \in waiting : writable /\ persist(bot, [bot.mem EXCEPT !.notes[r] = "claimed"], "notify")

notify ==
    /\ bot.up /\ bot.pc = "idle" /\ bot.then = "notify"
    /\ notified' = [r \in Recipes |-> IF bot.mem.notes[r] = "claimed" THEN notified[r] + 1 ELSE notified[r]]
    /\ bot' = [bot EXCEPT !.await = "notify", !.then = "return"]
    /\ UNCHANGED <<disk, artifacts, markers, epoch, barrier, updater, release, archived, budget>>

completeNotification ==
    /\ resumed("notify")
    /\ \/ \E outcome \in {"sent", "ambiguous"} :
            /\ writable
            /\ persist(back, [bot.mem EXCEPT !.notes =
                        [r \in Recipes |-> IF @[r] = "claimed" THEN outcome ELSE @[r]]], "notes")
       \/ ~writable /\ throwDrain

-----------------------------------------------------------------------------
(* The start of the process: the store is opened only without a barrier.       *)
open ==
    /\ ~bot.up /\ inspectNodeAutoSkillRollbackBarrier = "absent" /\ release = "v2"
    /\ validState(disk) /\ ~mutationInFlight
    /\ artifacts' = reconcileDeadArtifact
    /\ LET b == [Down EXCEPT !.up = TRUE, !.epoch = epoch, !.mem = ambiguous(disk)] IN
        IF ambiguous(disk) = disk
        THEN bot' = b
        ELSE bot' = [b EXCEPT !.pc = "begun"]
    /\ markers' = reconcileDeadTemporary
    /\ UNCHANGED <<disk, epoch, barrier, updater, release, archived, notified, budget>>

crash == [budget EXCEPT !.crashes = @ + 1]

BotCrash ==
    /\ bot.up /\ budget.crashes < MaxCrashes
    /\ bot' = Down /\ markers' = orphaned /\ budget' = crash
    /\ UNCHANGED <<disk, artifacts, epoch, barrier, updater, release, archived, notified>>

-----------------------------------------------------------------------------
(* The updater.  snap is the state its handle read.  forked records that the   *)
(* first opening, which runs before the barrier, wrote over a newer state.     *)

Idle == [updater EXCEPT !.pc = "off", !.snap = empty]

prepareNodeAutoSkillRollback ==
    /\ updater.pc = "off" /\ release = "v2" /\ budget.rollbacks < MaxRollbacks
    /\ updater' = [updater EXCEPT
            !.pc = CASE barrier = "none" -> "open" [] barrier = "preparing" -> "quiesce"
                     [] barrier = "certified" -> "authorized",
            !.snap = IF barrier = "none" THEN disk ELSE empty]
    /\ budget' = [budget EXCEPT !.rollbacks = @ + 1]
    /\ UNCHANGED <<disk, artifacts, markers, epoch, barrier, bot, release, archived, notified>>

(* The handle opened before the barrier settles claimed notifications.         *)
openBeforeBarrier ==
    /\ updater.pc = "open"
    /\ \/ /\ mutationInFlight
          /\ updater' = Idle
          /\ UNCHANGED <<disk, artifacts, markers>>
       \/ /\ ~mutationInFlight
          /\ artifacts' = reconcileDeadArtifact /\ markers' = reconcileDeadTemporary
          /\ disk' = IF ambiguous(updater.snap) = updater.snap THEN disk ELSE ambiguous(updater.snap)
          /\ updater' = [updater EXCEPT !.pc = "barrier", !.snap = empty,
                            !.forked = @ \/ (disk' # disk /\ disk # updater.snap)]
    /\ UNCHANGED <<epoch, barrier, bot, release, archived, notified, budget>>

publishBarrier ==
    /\ updater.pc = "barrier"
    /\ barrier' = "preparing"
    /\ updater' = [updater EXCEPT !.pc = "quiesce"]
    /\ UNCHANGED <<disk, artifacts, markers, epoch, bot, release, archived, notified, budget>>

(* Any refusal takes the barrier away again.                                   *)
withdraw ==
    /\ barrier' = "none" /\ updater' = Idle
    /\ UNCHANGED <<disk, artifacts, markers, epoch, bot, release, archived, notified, budget>>

quiesce ==
    /\ updater.pc = "quiesce"
    /\ \/ mutationInFlight /\ withdraw
       \/ /\ ~mutationInFlight
          /\ artifacts' = reconcileDeadArtifact /\ markers' = reconcileDeadTemporary
          /\ rotateStoreEpoch
          /\ updater' = [updater EXCEPT !.pc = "certify"]
          /\ UNCHANGED <<disk, barrier, bot, release, archived, notified, budget>>

purging(st) == {c \in DOMAIN st.claims : st.claims[c].phase = "purging"}

finishPurges(st) ==
    LET revs == UNION {st.claims[c].revs : c \in purging(st)} IN
    IF purging(st) = {} THEN st ELSE
    [st EXCEPT
        !.revs = [r \in Recipes |-> IF r \in revs THEN [@[r] EXCEPT !.phase = "tombstoned"] ELSE @[r]],
        !.ev = [e \in Evidence |-> IF @[e] = "forget_claimed" THEN None ELSE @[e]],
        !.claims = [c \in DOMAIN @ |-> IF c \in purging(st)
                        THEN [@[c] EXCEPT !.phase = "tombstoned", !.source = None] ELSE @[c]]]

(* The second opening, the claims it may finish and the certificate.           *)
issueRollbackCertificate ==
    /\ updater.pc = "certify"
    /\ LET st == finishPurges(ambiguous(disk)) IN
        \/ mutationInFlight /\ withdraw
        \/ /\ ~mutationInFlight /\ dependencies(st)
           /\ disk' = st /\ barrier' = "none" /\ updater' = Idle
           /\ artifacts' = artifacts \ UNION {disk.claims[c].revs : c \in purging(disk)}
           /\ UNCHANGED <<markers, epoch, bot, release, archived, notified, budget>>
        \/ /\ ~mutationInFlight /\ ~dependencies(st)
           /\ disk' = [st EXCEPT !.certs = @ \cup {rollbackStateHash(st)}]
           /\ artifacts' = artifacts \ UNION {disk.claims[c].revs : c \in purging(disk)}
           /\ updater' = [updater EXCEPT !.pc = "publish"]
           /\ UNCHANGED <<markers, epoch, barrier, bot, release, archived, notified, budget>>

publishCertificate ==
    /\ updater.pc = "publish"
    /\ barrier' = "certified"
    /\ updater' = [updater EXCEPT !.pc = "authorized"]
    /\ UNCHANGED <<disk, artifacts, markers, epoch, bot, release, archived, notified, budget>>

(* The last check before the active release is switched.                       *)
verifyNodeAutoSkillRollback ==
    /\ updater.pc = "authorized"
    /\ LET ok == barrier = "certified" /\ ~mutationInFlight /\ stateHasRollbackCertificate(disk) IN
        /\ release' = IF ok THEN "target" ELSE release
        /\ updater' = Idle
    /\ UNCHANGED <<disk, artifacts, markers, epoch, barrier, bot, archived, notified, budget>>

(* A later update to a release that knows the store (external).                *)
rollForward ==
    /\ release = "target" /\ updater.pc = "off"
    /\ release' = "newer"
    /\ UNCHANGED <<disk, artifacts, markers, epoch, barrier, bot, updater, archived, notified, budget>>

resumeNodeAutoSkillWritesAfterRollForward ==
    /\ barrier = "certified" /\ release # "target" /\ updater.pc = "off"
    /\ ~mutationInFlight /\ stateHasRollbackCertificate(disk)
    /\ artifacts' = reconcileDeadArtifact /\ markers' = reconcileDeadTemporary
    /\ rotateStoreEpoch /\ barrier' = "none" /\ release' = "v2"
    /\ UNCHANGED <<disk, bot, updater, archived, notified, budget>>

UpdaterCrash ==
    /\ updater.pc # "off" /\ budget.crashes < MaxCrashes
    /\ updater' = Idle /\ budget' = crash
    /\ UNCHANGED <<disk, artifacts, markers, epoch, barrier, bot, release, archived, notified>>

-----------------------------------------------------------------------------
Init ==
    /\ disk = empty /\ artifacts = {} /\ markers = {} /\ epoch = 1 /\ barrier = "none"
    /\ bot = [Down EXCEPT !.up = TRUE, !.epoch = 1]
    /\ updater = [pc |-> "off", snap |-> empty, forked |-> FALSE]
    /\ release = "v2" /\ archived = {}
    /\ notified = [r \in Recipes |-> 0]
    /\ budget = [crashes |-> 0, faults |-> 0, rollbacks |-> 0]

Next ==
    \/ PersistMark \/ PersistCheck \/ PersistRename \/ PersistFails \/ PersistDone \/ PersistUnsure
    \/ \E e \in Evidence : stage(e) \/ confirmReply(e)
    \/ \E s \in Sources : claimSource(s) \/ archive(s) \/ completeSourceForget(s)
    \/ purgeClaim \/ plan \/ observeInvocation \/ ensureWritable
    \/ runDrain \/ callGenerator \/ callJudge \/ generated \/ judged
    \/ parseSkillRecipeDraft \/ validateSkillRecipeDraft \/ shadowVerifyAutoSkill
    \/ prepare \/ artifactMarker \/ writeArtifact \/ recordRevision \/ activate
    \/ claimNotification \/ notify \/ completeNotification
    \/ open \/ BotCrash
    \/ prepareNodeAutoSkillRollback \/ openBeforeBarrier \/ publishBarrier \/ quiesce
    \/ issueRollbackCertificate \/ publishCertificate \/ verifyNodeAutoSkillRollback
    \/ rollForward \/ resumeNodeAutoSkillWritesAfterRollForward \/ UpdaterCrash

Spec == Init /\ [][Next]_vars

-----------------------------------------------------------------------------
TypeOK ==
    /\ bot.up \in BOOLEAN /\ bot.poisoned \in BOOLEAN
    /\ barrier \in {"none", "preparing", "certified"}
    /\ release \in {"v2", "target", "newer"}
    /\ artifacts \subseteq Recipes /\ archived \subseteq Sources

(* A certified barrier freezes the store: what was certified is what is there, *)
(* although a bot that was started before may still be in the middle of a      *)
(* write.                                                                      *)
CertifiedIsFrozen == barrier = "certified" => stateHasRollbackCertificate(disk)

(* What is active was learnt from two sessions of which neither is forgotten.  *)
ActiveIsProven ==
    LET r == disk.ptr.active IN
    r # None =>
        /\ LET j == disk.jobs[disk.revs[r].job] IN
            /\ j.phase = "active" /\ j.recipe = r
            /\ Cardinality({e.session : e \in j.ev}) = 2
            /\ \A e \in j.ev : disk.ev[e] = "live" /\ ~Forgotten(disk, e)

(* What was forgotten is not replayable: the evidence of a finished claim is   *)
(* gone, and no open job rests on evidence of any claim.                       *)
ForgottenIsGone ==
    /\ \A c \in DOMAIN disk.claims : \A e \in disk.claims[c].evs :
            disk.ev[e] \in (IF disk.claims[c].phase = "tombstoned" THEN {None} ELSE {None, "forget_claimed"})
    /\ \A j \in DOMAIN disk.jobs : disk.jobs[j].phase # "forgotten" =>
            \A e \in disk.jobs[j].ev : ~Forgotten(disk, e)

(* The typed skills stay sound under crashes, failed writes, forgetting while  *)
(* a model call is out, and a rollback by another process: the state on disk   *)
(* parses and what it names is there; a certified store does not change; what is active is proven  *)
(* and not forgotten; the operator hears of a revision at most once.  Excepted *)
(* is the updater's opening before the barrier, which may overwrite a newer    *)
(* state.                                                                      *)
SkillsAreSound ==
    /\ TypeOK
    /\ validState(disk)
    /\ CertifiedIsFrozen
    /\ ~updater.forked =>
        /\ inspectNodeAutoSkillStoreV2 # "corrupt"
        /\ ActiveIsProven
        /\ ForgottenIsGone
        /\ \A r \in Recipes : notified[r] <= 1

(* Forgetting a session does not block learning the same procedure again: no   *)
(* job waits to prepare a revision whose hash a tombstone holds.               *)
RelearningIsPossible ==
    \A j \in DOMAIN disk.jobs :
        disk.jobs[j].phase = "shadow_verified" => disk.revs[disk.jobs[j].recipe].phase # "tombstoned"
=============================================================================
