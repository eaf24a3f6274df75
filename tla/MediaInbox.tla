----------------------------- MODULE MediaInbox -----------------------------
(* The inbox of Telegram attachments: the writer's lock and its recovery at start
   (telegram-attachment-inbox-recovery.ts, bin/aisy.ts), the retention of archived locks by a
   Python worker that outlives its parent (confinement_worker.py), ingestion, the voice
   capability and the purge of a session (telegram-attachment-inbox.ts, telegram-voice-*.ts).

   One runtime lives at a time (the liveness fence); an orphaned retention worker may live
   beside it.  Everything between two awaits is one action; a crash cuts it after any of its
   file operations (the "paths" below).  A start is numbered by its epoch, which stands for the
   owner's nonce, acquiredAt and fingerprint. *)
EXTENDS Naturals, FiniteSets, Sequences

CONSTANTS Files, Sessions, SessionOf,  \* the attachments, and the session each is bound to
          Old,         \* how many archived locks earlier releases left
          Retained,    \* RETAINED_ARCHIVED_RECOVERIES
          MaxEntries,  \* MAX_REPAIR_ARCHIVED_RECOVERIES
          MaxStarts,   \* bound: starts of the runtime
          MaxCrashes,  \* bound: crashes
          MaxMishaps   \* bound: failed calls, timeouts, reused pids

VARIABLES disk, proc, workers, budget

vars == <<disk, proc, workers, budget>>

-----------------------------------------------------------------------------
(* What is on disk. *)

\* A file that is written aside, linked into place and then unlinked aside.
Published == {"none", "temp", "linked", "done"}

InboxAttachment == [intent : Published, temp : {"none", "part", "whole", "linked"},
                    object : BOOLEAN, record : Published]

Nothing == [intent |-> "none", temp |-> "none", object |-> FALSE, record |-> "none"]

\* The lock directory: absent, without owner.json, with an empty one, with a whole one.
WriterLock == {"absent", "empty", "blank", "owned"}

Disk == [lock : WriterLock, owner : Nat, archives : SUBSET Nat, bare : SUBSET Nat,
         gc : SUBSET Nat, file : [Files -> InboxAttachment], purging : SUBSET Sessions,
         purged : SUBSET Sessions]

\* A temporary name gone, and the final one alone.
settled(p) == IF p = "linked" THEN "done" ELSE IF p = "temp" THEN "none" ELSE p

cleanupTemporary(x) == [x EXCEPT !.intent = settled(@), !.record = settled(@), !.temp = "none"]

\* Download residue is removed only when an intent or a record accounts for it.
assertRecoverableTemp(x) ==
  x.temp # "none" => settled(x.intent) = "done" \/ settled(x.record) = "done"

recoverable(d) == \A f \in Files : assertRecoverableTemp(d.file[f])

cleaned(d, some) ==
  [d EXCEPT !.file = [f \in Files |-> IF f \in some THEN cleanupTemporary(d.file[f])
                                                    ELSE d.file[f]]]

recoverHardCrashTemps(d) == cleaned(d, Files)

\* Every stored object belongs to a record or to an intent.
assertPurgeReady(d) ==
  \A f \in Files : d.file[f].object => "done" \in {d.file[f].intent, d.file[f].record}

-----------------------------------------------------------------------------
(* The process. *)

Idle == [file |-> "none", stage |-> "idle"]

Proc == [phase : {"down", "open", "sweep", "inspect", "parse", "compare", "prune", "archive",
                  "serving"},
         epoch : Nat, again : BOOLEAN, media : {"none", "on", "busy", "recovery-state"},
         names : SUBSET Nat, pending : SUBSET Nat,
         cur : [file : Files \cup {"none"}, stage : {"idle", "downloading", "issued"}],
         cause : {"none", "blank", "torn", "mishap"}]

Down(e) == [phase |-> "down", epoch |-> e, again |-> FALSE, media |-> "none", names |-> {},
            pending |-> {}, cur |-> Idle, cause |-> "none"]

Init ==
  /\ disk = [lock |-> "absent", owner |-> 0, archives |-> 1..Old, bare |-> {}, gc |-> {},
             file |-> [f \in Files |-> Nothing], purging |-> {}, purged |-> {}]
  /\ proc = Down(Old) /\ workers = <<>>
  /\ budget = [crashes |-> 0, mishaps |-> 0]

Mishap == /\ budget.mishaps < MaxMishaps
          /\ budget' = [budget EXCEPT !.mishaps = @ + 1]

\* The parent is gone; its worker goes on.
orphaned == [i \in DOMAIN workers |-> [workers[i] EXCEPT !.mine = FALSE]]

\* The whole path, or a crash after some of its steps.
follow(path, after) ==
  \/ /\ disk' = path[Len(path)] /\ proc' = after /\ UNCHANGED <<workers, budget>>
  \/ /\ budget.crashes < MaxCrashes
     /\ \E i \in 1..(Len(path) - 1) : disk' = path[i]
     /\ proc' = Down(proc.epoch) /\ workers' = orphaned
     /\ budget' = [budget EXCEPT !.crashes = @ + 1]

Crash ==
  /\ proc.phase # "down" /\ budget.crashes < MaxCrashes
  /\ budget' = [budget EXCEPT !.crashes = @ + 1]
  /\ proc' = Down(proc.epoch) /\ workers' = orphaned /\ UNCHANGED disk

\* A start whose inbox stays closed: why it says so, and what really happened.
refuse(kind, cause) ==
  [proc EXCEPT !.phase = "serving", !.media = kind, !.cause = cause, !.names = {},
               !.pending = {}]

-----------------------------------------------------------------------------
(* The retention worker: it holds an advisory lease, checks the exact writer before every
   step, and moves the oldest archives through the GC directory. *)

compact(owner) == workers' = Append(workers, [owner |-> owner, mine |-> TRUE])

assertExactMediaWriter(w) == disk.lock = "owned" /\ disk.owner = w.owner

\* The next file operation: finish what is in the GC directory, then move the oldest archive.
mediaRecoveryRetention ==
  IF disk.bare # {}
    THEN disk' = [disk EXCEPT !.bare = {}]                                    \* rmdir
  ELSE IF disk.gc # {}
    THEN \E e \in disk.gc : disk' = [disk EXCEPT !.gc = @ \ {e}, !.bare = {e}] \* unlink owner
  ELSE LET e == CHOOSE x \in disk.archives : \A y \in disk.archives : x <= y
       IN disk' = [disk EXCEPT !.archives = @ \ {e}, !.gc = {e}]              \* rename

retentionDue == disk.bare # {} \/ disk.gc # {} \/ Cardinality(disk.archives) > Retained

inventoryFits ==
  Cardinality(disk.archives) + Cardinality(disk.gc) + Cardinality(disk.bare) <= MaxEntries

WorkerStep ==
  /\ workers # <<>> /\ assertExactMediaWriter(Head(workers)) /\ inventoryFits /\ retentionDue
  /\ mediaRecoveryRetention /\ UNCHANGED <<proc, workers, budget>>

\* The worker's answer, as its parent takes it; an orphan answers nobody.
answered(ok) ==
  /\ workers' = Tail(workers)
  /\ IF ~Head(workers).mine THEN UNCHANGED <<disk, proc>>
     ELSE CASE proc.phase = "sweep" /\ ok ->
                 /\ proc' = [proc EXCEPT !.phase = "serving", !.media = "on"] /\ UNCHANGED disk
            [] proc.phase = "sweep" /\ ~ok ->      \* singleton.close(), then the recovery
                 /\ disk' = [disk EXCEPT !.lock = "absent", !.owner = 0]
                 /\ proc' = IF proc.again THEN refuse("recovery-state", "mishap")
                                          ELSE [proc EXCEPT !.phase = "inspect"]
            [] proc.phase = "prune" /\ ok ->
                 /\ proc' = [proc EXCEPT !.phase = "archive"] /\ UNCHANGED disk
            [] OTHER ->
                 /\ proc' = refuse("recovery-state", "mishap") /\ UNCHANGED disk

WorkerDone ==
  /\ workers # <<>> /\ assertExactMediaWriter(Head(workers)) /\ inventoryFits
  /\ ~retentionDue
  /\ answered(TRUE) /\ UNCHANGED budget

WorkerRefused ==
  /\ workers # <<>>
  /\ IF assertExactMediaWriter(Head(workers)) /\ inventoryFits THEN Mishap
                                                              ELSE UNCHANGED budget
  /\ answered(FALSE)

\* spawnSync gives up after its timeout and kills the worker, also one that only waits.
WorkerTimeout ==
  /\ proc.phase = "prune" /\ Len(workers) = 2 /\ workers[2].mine /\ Mishap
  /\ workers' = <<workers[1]>>
  /\ proc' = refuse("recovery-state", "mishap") /\ UNCHANGED disk

-----------------------------------------------------------------------------
(* Start: open the inbox, or recover the lock of a dead writer and open it again. *)

start ==
  /\ proc.phase = "down" /\ proc.epoch < Old + MaxStarts
  /\ proc' = [Down(proc.epoch + 1) EXCEPT !.phase = "open"]
  /\ UNCHANGED <<disk, workers, budget>>

\* mkdir, create owner.json, write it.
acquireInboxWriter(d, e) ==
  << [d EXCEPT !.lock = "empty"], [d EXCEPT !.lock = "blank"],
     [d EXCEPT !.lock = "owned", !.owner = e] >>

\* unlink owner.json, rmdir.
release(d) == << [d EXCEPT !.lock = "empty", !.owner = 0],
                 [d EXCEPT !.lock = "absent", !.owner = 0] >>

lockHeld ==
  /\ proc.phase = "open" /\ disk.lock # "absent"
  /\ proc' = IF proc.again THEN refuse("busy", "mishap") ELSE [proc EXCEPT !.phase = "inspect"]
  /\ UNCHANGED <<disk, workers, budget>>

\* The lock, the residue of a crash, and the retention under the new lock.  Residue that nobody
\* accounts for: the lock is given back and the start goes on without the inbox.
open ==
  /\ proc.phase = "open" /\ disk.lock = "absent"
  /\ LET held == acquireInboxWriter(disk, proc.epoch)[3]
     IN IF ~recoverable(disk) \/ ~assertPurgeReady(recoverHardCrashTemps(disk))
          THEN proc' = refuse("recovery-state", "none") /\ UNCHANGED <<disk, workers, budget>>
        ELSE \/ /\ disk' = recoverHardCrashTemps(held)
                /\ proc' = [proc EXCEPT !.phase = "sweep"] /\ compact(proc.epoch)
                /\ UNCHANGED budget
             \/ /\ budget.crashes < MaxCrashes
                /\ disk' \in {acquireInboxWriter(disk, proc.epoch)[i] : i \in 1..2}
                             \cup {cleaned(held, some) : some \in SUBSET Files}
                /\ proc' = Down(proc.epoch) /\ workers' = orphaned
                /\ budget' = [budget EXCEPT !.crashes = @ + 1]

\* inspectMediaInboxWriterLock: the archives are listed, then read one by one; then the GC
\* directory is.  Nothing stops an orphaned worker between these reads.
recoveryArchiveEntries ==
  /\ proc.phase = "inspect"
  /\ proc' = [proc EXCEPT !.phase = "parse", !.names = disk.archives]
  /\ UNCHANGED <<disk, workers, budget>>

pendingGcEntries ==
  /\ proc.phase = "parse"
  /\ proc' = IF proc.names \subseteq disk.archives
               THEN [proc EXCEPT !.phase = "compare", !.pending = disk.gc \cup disk.bare]
               ELSE refuse("recovery-state", "torn")
  /\ UNCHANGED <<disk, workers, budget>>

recoveryInventory ==
  /\ proc.pending \subseteq disk.gc \cup disk.bare
  /\ proc.pending \cap proc.names = {}
  /\ Cardinality(proc.pending) + Cardinality(proc.names) <= MaxEntries

inspected == [proc EXCEPT !.names = {}, !.pending = {}]

inspectTorn ==
  /\ proc.phase = "compare" /\ ~recoveryInventory
  /\ proc' = refuse("recovery-state", "torn") /\ UNCHANGED <<disk, workers, budget>>

inspectAbsent ==
  /\ proc.phase = "compare" /\ recoveryInventory /\ disk.lock = "absent"
  /\ proc' = refuse("recovery-state", "mishap") /\ UNCHANGED <<disk, workers, budget>>

\* An owner.json without content is no owner: the lock reads as corrupt.
inspectCorrupt ==
  /\ proc.phase = "compare" /\ recoveryInventory /\ disk.lock = "blank"
  /\ proc' = refuse("recovery-state", "blank") /\ UNCHANGED <<disk, workers, budget>>

discardAbandoned ==
  /\ proc.phase = "compare" /\ recoveryInventory /\ disk.lock = "empty"
  /\ disk' = [disk EXCEPT !.lock = "absent"]
  /\ proc' = [inspected EXCEPT !.phase = "open", !.again = TRUE]
  /\ UNCHANGED <<workers, budget>>

\* The writer of the lock is dead, and its lock is compacted under before it is archived.
compactArchives ==
  /\ proc.phase = "compare" /\ recoveryInventory /\ disk.lock = "owned"
  /\ proc' = [inspected EXCEPT !.phase = "prune"]
  /\ compact(disk.owner) /\ UNCHANGED <<disk, budget>>

\* The pid of the dead writer belongs to some other process now.
writerLooksAlive ==
  /\ proc.phase = "compare" /\ recoveryInventory /\ disk.lock = "owned" /\ Mishap
  /\ proc' = refuse("busy", "mishap") /\ UNCHANGED <<disk, workers>>

archive ==
  /\ proc.phase = "archive"
  /\ disk' = [disk EXCEPT !.lock = "absent", !.owner = 0, !.archives = @ \cup {disk.owner}]
  /\ proc' = [proc EXCEPT !.phase = "open", !.again = TRUE]
  /\ UNCHANGED <<workers, budget>>

\* A deletion that was under way is finished at start, and needs the inbox for it.
bootRefused ==
  /\ proc.phase = "serving" /\ proc.media # "on" /\ disk.purging # {}
  /\ proc' = Down(proc.epoch) /\ workers' = orphaned /\ UNCHANGED <<disk, budget>>

-----------------------------------------------------------------------------
(* Ingestion. *)

put(d, f, x) == [d EXCEPT !.file[f] = x]

path(d, f, xs) == [i \in DOMAIN xs |-> put(d, f, xs[i])]

serving == proc.phase = "serving" /\ proc.media = "on"

\* A binding is captured only of a session that is not being deleted.
bound(f) == SessionOf[f] \notin disk.purging \cup disk.purged

\* The capability of a recording, spent later by the transcription.
issue(f) == [file |-> f, stage |-> "issued"]

\* After ingestion a file is done with, and a recording has its capability.
voiceHandled(f) == {[proc EXCEPT !.cur = cur] : cur \in {Idle, issue(f)}}

\* A file already recorded is verified and returned; a left-over intent goes.
alreadyStored(f) ==
  /\ serving /\ proc.cur = Idle /\ bound(f)
  /\ disk.file[f].record = "done" /\ disk.file[f].object
  /\ disk' = put(disk, f, [cleanupTemporary(disk.file[f]) EXCEPT !.intent = "none"])
  /\ proc' \in voiceHandled(f) /\ UNCHANGED <<workers, budget>>

createIntentOnce(x) ==
  IF x.intent = "done" THEN << x >>
  ELSE << [x EXCEPT !.intent = "temp"], [x EXCEPT !.intent = "linked"],
          [x EXCEPT !.intent = "done"] >>

ingest(f) ==
  /\ serving /\ proc.cur = Idle /\ bound(f) /\ disk.file[f].record # "done"
  /\ follow(path(disk, f, createIntentOnce(cleanupTemporary(disk.file[f]))),
            [proc EXCEPT !.cur = [file |-> f, stage |-> "downloading"]])

\* The bytes, then the object, then the temporary name.
writeDownload(x) ==
  << [x EXCEPT !.temp = "part"], [x EXCEPT !.temp = "whole"],
     [x EXCEPT !.temp = IF x.object THEN "whole" ELSE "linked", !.object = TRUE],
     [x EXCEPT !.temp = "none", !.object = TRUE] >>

createRecordOnce(x) ==
  << [x EXCEPT !.record = "temp"], [x EXCEPT !.record = "linked"],
     [x EXCEPT !.record = "done"] >>

dropIntent(x) == << [x EXCEPT !.intent = "none"] >>

\* Mutant: the intent is dropped before the record is there.
publishEarly(x) ==
  LET w == writeDownload(x) IN LET i == dropIntent(w[4])
  IN w \o i \o createRecordOnce(i[1])

publish(x) ==
  LET w == writeDownload(x) IN LET r == createRecordOnce(w[4])
  IN w \o r \o dropIntent(r[3])

downloaded(f) ==
  /\ serving /\ proc.cur = [file |-> f, stage |-> "downloading"]
  /\ \E after \in voiceHandled(f) : follow(path(disk, f, publish(disk.file[f])), after)

\* The download fails, or its size is not the declared one: the intent stays.
downloadFailed(f) ==
  /\ serving /\ proc.cur = [file |-> f, stage |-> "downloading"] /\ Mishap
  /\ proc' = [proc EXCEPT !.cur = Idle] /\ UNCHANGED <<disk, workers>>

\* A recording's capability is spent once, on the very object it was issued for.
consume(f) ==
  /\ serving /\ proc.cur = issue(f)
  /\ disk.file[f].object
  /\ proc' = [proc EXCEPT !.cur = Idle] /\ UNCHANGED <<disk, workers, budget>>

mediaChanged(f) ==
  /\ serving /\ proc.cur = issue(f)
  /\ ~disk.file[f].object
  /\ proc' = [proc EXCEPT !.cur = Idle] /\ UNCHANGED <<disk, workers, budget>>

close ==
  /\ serving /\ proc.cur.stage # "downloading"
  /\ follow(release(disk), Down(proc.epoch))

-----------------------------------------------------------------------------
(* The purge of a deleted session. *)

inboxIdle == serving /\ proc.cur.stage # "downloading" /\ recoverable(disk)

\* deleteConfirmed asks first, and journals the deletion.
assertIdle(s) ==
  /\ inboxIdle /\ assertPurgeReady(disk) /\ s \notin disk.purging \cup disk.purged
  /\ disk' = [disk EXCEPT !.purging = @ \cup {s}] /\ UNCHANGED <<proc, workers, budget>>

\* Per record the object and then the record, and then the same for the intents.
purgeFile(d, f) ==
  LET x == d.file[f]
      y == [x EXCEPT !.object = FALSE]
  IN path(d, f, IF x.record = "done"
                  THEN << y, [y EXCEPT !.record = "none"],
                          [y EXCEPT !.record = "none", !.intent = "none"] >>
                  ELSE << y, [y EXCEPT !.intent = "none"] >>)

\* One file of the session after the other.
purgeSession(s) ==
  /\ inboxIdle /\ s \in disk.purging
  /\ LET d == recoverHardCrashTemps(disk)
     IN \E f \in Files : /\ SessionOf[f] = s /\ d.file[f] # Nothing
                         /\ follow(purgeFile(d, f), proc)

purgeDone(s) ==
  /\ inboxIdle /\ s \in disk.purging
  /\ \A f \in Files : SessionOf[f] = s => disk.file[f] = Nothing
  /\ disk' = [disk EXCEPT !.purging = @ \ {s}, !.purged = @ \cup {s}]
  /\ UNCHANGED <<proc, workers, budget>>

-----------------------------------------------------------------------------

StartStep == \/ start \/ lockHeld \/ open \/ recoveryArchiveEntries
             \/ pendingGcEntries \/ inspectTorn \/ inspectAbsent \/ inspectCorrupt
             \/ discardAbandoned \/ compactArchives \/ writerLooksAlive \/ archive \/ bootRefused

FileStep == \E f \in Files : alreadyStored(f) \/ ingest(f) \/ downloaded(f) \/ downloadFailed(f)
                             \/ consume(f) \/ mediaChanged(f)

PurgeStep == \E s \in Sessions : assertIdle(s) \/ purgeSession(s) \/ purgeDone(s)

Next == \/ StartStep \/ WorkerStep \/ WorkerDone \/ WorkerRefused \/ WorkerTimeout
        \/ FileStep \/ PurgeStep \/ close \/ Crash

Spec == Init /\ [][Next]_vars

-----------------------------------------------------------------------------

TypeOK ==
  /\ disk \in Disk /\ proc \in Proc
  /\ workers \in Seq([owner : Nat, mine : BOOLEAN])

\* Whatever is stored or half-stored belongs to an intent or a record, so the next start can
\* clean it and the next deletion can purge it; a record has its object unless it is being
\* purged, and a purged session has left nothing.
FilesAreAccounted ==
  /\ recoverable(disk)
  /\ \A f \in Files :
       LET x == cleanupTemporary(disk.file[f])
       IN /\ x.object => "done" \in {x.intent, x.record}
          /\ x.record = "done" => x.object \/ SessionOf[f] \in disk.purging
          /\ SessionOf[f] \in disk.purged => disk.file[f] = Nothing

\* The archive stays below the ceiling above which no start could repair it, no entry is in two
\* places, the newest archives are the ones kept, and a start that serves keeps Retained.
ArchiveIsBounded ==
  /\ inventoryFits
  /\ disk.archives \cap (disk.gc \cup disk.bare) = {} /\ disk.gc \cap disk.bare = {}
  /\ \A e \in disk.archives, g \in disk.gc \cup disk.bare : g < e
  /\ serving => Cardinality(disk.archives) <= Retained /\ disk.gc = {} /\ disk.bare = {}

\* The lock of a serving runtime is its own, whatever orphaned worker is still alive; no worker
\* ever works beside another one.
LockIsOwned ==
  /\ serving => disk.lock = "owned" /\ disk.owner = proc.epoch
  /\ disk.lock = "owned" <=> disk.owner # 0
  /\ \A i \in DOMAIN workers : workers[i].mine => proc.phase \in {"sweep", "prune"}

\* An inbox that stays closed was left with an empty owner.json, was read while an orphaned
\* worker was moving archives, or met a failed call: a crash alone anywhere else heals.
RefusalIsExplained == proc.media \in {"busy", "recovery-state"} => proc.cause # "none"

\* Crashes of the runtime at any point of an ingestion, a purge, a lock's acquisition or a
\* retention leave an inbox the next start takes over, with nothing lost or left unaccounted.
InboxIsSound == TypeOK /\ FilesAreAccounted /\ ArchiveIsBounded /\ LockIsOwned
                /\ RefusalIsExplained

\* "Not a corrupt state that needs a human" (telegram-attachment-inbox-recovery.ts:44): a writer
\* killed before it had written its owner never keeps the inbox closed.
CutAcquisitionHeals == proc.cause # "blank"
=============================================================================
