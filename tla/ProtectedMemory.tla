------------------------- MODULE ProtectedMemory -------------------------
(***************************************************************************)
(* Protected memory of one scope (packages/core-ts/src/runtime/            *)
(* protected-memory-*.ts, protected-scoped-memory.ts): facts live in four   *)
(* stores that cannot be written together, a SQLite ledger, a separate     *)
(* keyword index, a vector index and one file per fact.  Publishing,        *)
(* superseding and deleting a fact therefore each keep a write-ahead row    *)
(* (WAL) and move it through phases; every step is idempotent, and after a  *)
(* crash recoverScope resumes the phase the row names.                      *)
(*                                                                          *)
(* One action is one durable write.  A step whose effect is already there   *)
(* changes nothing when it is repeated, so the position inside a phase is   *)
(* read off the stores and needs no program counter.                        *)
(***************************************************************************)
EXTENDS Naturals, FiniteSets, Functions

CONSTANTS
    Callers,   \* turns and jobs of the one process that owns the scope
    Facts,     \* fact ids, with the text each one is given
    KeyOf      \* the key derived from a fact's text: two facts may share one

VARIABLES
    row,        \* ledger row of a fact: absent, pending, live or retired
    retiredBy,  \* invalid_at of a row: the operation whose stamp it carries
    forgotten,  \* do_not_remember: the human deletions recorded in it
    keyword,    \* facts with a row in the keyword index
    vectors,    \* facts with a row in the vector index
    file,       \* canonical file of a fact and its staging links
    wal,        \* open write-ahead rows
    outbox,     \* operations with an audit row
    delivered,  \* operations whose audit row is marked delivered
    task,       \* what a caller is doing
    scan,       \* facts the semantic reconciler still has to index
    open,       \* the store passed its opening checks
    overlapped  \* history: an operation was begun over another's open row

ledgerVars == <<row, retiredBy, forgotten, outbox, delivered>>
vars == <<row, retiredBy, forgotten, keyword, vectors, file, wal, outbox,
          delivered, task, scan, open, overlapped>>

None == [kind |-> "none"]

Publication(f) == [kind |-> "pub", target |-> f, fact |-> f, human |-> FALSE]
Update(t, f) == [kind |-> "upd", target |-> t, fact |-> f, human |-> FALSE]
Deletion(t, h) == [kind |-> "del", target |-> t, fact |-> t, human |-> h]

Operations ==
    {Publication(f) : f \in Facts}
        \cup {Update(p[1], p[2]) : p \in {q \in Facts \X Facts : q[1] # q[2]}}
        \cup {Deletion(t, h) : t \in Facts, h \in BOOLEAN}

PublicationPhases == <<"PREPARED", "DB_PENDING", "FILE_INSTALLED", "PUBLISHED", "AUDITED">>

UpdatePhases ==
    <<"PREPARED", "DB_PENDING", "FILE_INSTALLED", "LEDGER_SWAPPED", "KEYWORD_SWAPPED",
      "DERIVED_PURGED", "OLD_FILE_REMOVED", "AUDITED">>

DeletionPhases ==
    <<"PREPARED", "TOMBSTONED", "KEYWORD_PURGED", "DERIVED_PURGED", "FILE_REMOVED", "AUDITED">>

Phases(kind) ==
    CASE kind = "pub" -> PublicationPhases
      [] kind = "upd" -> UpdatePhases
      [] OTHER -> DeletionPhases

\* What parseWalRow and its two siblings accept.  A deletion is stamped with
\* its own time, or with the time its target was retired at.
PublicationWal(w) == w.op.kind = "pub" /\ w.at = w.op /\ w.phase \in Range(PublicationPhases)

UpdateWal(w) == w.op.kind = "upd" /\ w.at = w.op /\ w.phase \in Range(UpdatePhases)

DeletionWal(w) ==
    /\ w.op.kind = "del"
    /\ w.at = w.op \/ w.op.human
    /\ w.phase \in Range(DeletionPhases)

Idle == [pc |-> "idle"]

Tasks ==
    {Idle, [pc |-> "cleared"]}
        \cup [pc : {"authorized"}, target : Facts]
        \cup [pc : {"inspected"}, kind : {"pub", "upd", "del"}]
        \cup [pc : {"finish"}, op : Operations, recovering : BOOLEAN]

TypeOK ==
    /\ row \in [Facts -> {"absent", "pending", "live", "retired"}]
    /\ retiredBy \in [Facts -> Operations \cup {None}]
    /\ forgotten \subseteq Operations
    /\ keyword \subseteq Facts
    /\ vectors \subseteq Facts
    /\ file \in [Facts -> {"none", "staging", "staged", "linked", "installed"}]
    /\ \A w \in wal :
        w.op \in Operations /\ (PublicationWal(w) \/ UpdateWal(w) \/ DeletionWal(w))
    /\ outbox \subseteq Operations
    /\ delivered \subseteq outbox
    /\ task \in [Callers -> Tasks]
    /\ scan \subseteq Facts
    /\ open \in BOOLEAN
    /\ overlapped \in BOOLEAN

Init ==
    /\ row = [f \in Facts |-> "absent"]
    /\ retiredBy = [f \in Facts |-> None]
    /\ forgotten = {}
    /\ keyword = {}
    /\ vectors = {}
    /\ file = [f \in Facts |-> "none"]
    /\ wal = {}
    /\ outbox = {}
    /\ delivered = {}
    /\ task = [c \in Callers |-> Idle]
    /\ scan = {}
    /\ open = TRUE
    /\ overlapped = FALSE

-----------------------------------------------------------------------------
(* Reading the stores.                                                      *)

Published(f) == row[f] \in {"live", "retired"}

Forgotten(f) == \E o \in forgotten : KeyOf[o.target] = KeyOf[f]

WalOf(o) == CHOOSE w \in wal : w.op = o

HasWal(o) == \E w \in wal : w.op = o

\* The key's vectors: removeFact and hasFact go by the fact key.
VectorsOf(f) == {g \in vectors : KeyOf[g] = KeyOf[f]}

\* verifyPublished: live, not forgotten, in the keyword index.
verifyPublished(f) == row[f] = "live" /\ ~Forgotten(f) /\ f \in keyword

\* verifyUpdateState, with the file and vector checks made beside it.
verifyUpdateState(w) ==
    /\ retiredBy[w.op.target] = w.at
    /\ verifyPublished(w.op.fact)
    /\ w.op.target \notin keyword

\* verifyDeletionState.
verifyDeletionState(w) ==
    /\ retiredBy[w.op.target] = w.at
    /\ w.op.target \notin keyword
    /\ w.op.human <=> w.op \in forgotten

\* The scope barrier is a SQLite write transaction of its own: one holder.
BarrierFree == \A c \in Callers : task[c].pc # "finish"

\* assertScopeRecovered: no open row of any of the three families.
ScopeRecovered == wal = {}

\* verifyDeletionRecoveryState: what the store demands of the deletion rows
\* and audits it finds when it is opened.
verifyDeletionRecoveryState ==
    /\ \A w \in {v \in wal : v.op.kind = "del"} :
        LET tombstoned == retiredBy[w.op.target] = w.at
        IN  /\ Published(w.op.target)
            /\ row[w.op.target] = "retired" => tombstoned
            /\ IF w.phase = "PREPARED" THEN tombstoned <=> w.op \in outbox
               ELSE tombstoned /\ w.op \in outbox
            /\ w.phase \notin {"PREPARED", "TOMBSTONED"} => w.op.target \notin keyword
            /\ w.phase = "AUDITED" => w.op \in delivered
    /\ \A o \in {p \in outbox : p.kind = "del" /\ ~HasWal(p)} :
        o \in delivered /\ row[o.target] = "retired"

\* verifyUpdateRecoveryState: the same for the update rows and audits.
verifyUpdateRecoveryState ==
    /\ \A w \in {v \in wal : v.op.kind = "upd"} :
        LET t == w.op.target
            f == w.op.fact
            swapped == row[t] = "retired" /\ row[f] = "live"
        IN  /\ Published(t)
            /\ row[t] = "retired" => retiredBy[t] = w.at
            /\ row[f] # "absent" <=> w.op \in outbox
            /\ row[f] = "absent" => w.phase = "PREPARED" /\ row[t] = "live"
            /\ row[f] # "absent" =>
                /\ swapped \/ (row[t] = "live" /\ row[f] = "pending")
                /\ IF swapped THEN t \in keyword <=> f \notin keyword
                   ELSE t \in keyword /\ f \notin keyword
            /\ w.phase \in {"KEYWORD_SWAPPED", "DERIVED_PURGED", "OLD_FILE_REMOVED", "AUDITED"}
                => f \in keyword
            /\ w.phase = "AUDITED" => w.op \in delivered
    /\ \A o \in {p \in outbox : p.kind = "upd" /\ ~HasWal(p)} :
        /\ o \in delivered
        /\ retiredBy[o.target] = o
        /\ Published(o.fact)
        /\ o.target \notin keyword
        /\ o.fact \in keyword <=> row[o.fact] = "live"
        /\ row[o.fact] = "retired" => retiredBy[o.fact] \in outbox

\* The checks makeProtectedMemorySqliteStore makes before it serves anything.
openStore == verifyDeletionRecoveryState /\ verifyUpdateRecoveryState

\* searchKeyword throws on a hit that is not published, forgotten or does not
\* match its projection; verifyKeywordFact adds the file.
searchKeyword(f) == f \in keyword /\ verifyPublished(f)

verifyKeywordFact(f) == row[f] = "live" /\ file[f] = "installed"

\* searchOne answers for a fact: nothing is left over and no check throws.
searchOne(f) == ScopeRecovered /\ searchKeyword(f) /\ verifyKeywordFact(f)

-----------------------------------------------------------------------------
(* A call of the scoped router: look that nothing is left over, perhaps ask *)
(* the operator, then take the barrier and run the operation.               *)

\* commitOne and forgetOne up to the recovery check; its own barrier section.
assertScopeRecovered(c) ==
    /\ open
    /\ task[c] = Idle
    /\ BarrierFree
    /\ ScopeRecovered
    /\ task' = [task EXCEPT ![c] = [pc |-> "cleared"]]
    /\ UNCHANGED <<ledgerVars, keyword, vectors, file, wal, scan, open, overlapped>>

\* authorizeExactDeletion: the target is read and checked before the card is
\* shown; the operator's answer may come much later.  A live row whose key is
\* forgotten reads as a corrupt ledger.
authorizeExactDeletion(c, t) ==
    /\ task[c].pc = "cleared"
    /\ Published(t)
    /\ row[t] = "live" => ~Forgotten(t) /\ file[t] = "installed"
    /\ row[t] = "retired" => file[t] \notin {"linked", "installed"}
    /\ task' = [task EXCEPT ![c] = [pc |-> "authorized", target |-> t]]
    /\ UNCHANGED <<ledgerVars, keyword, vectors, file, wal, scan, open, overlapped>>

\* The call returns or throws before it writes anything: not found, refused,
\* scope busy, conflict, or already completed.
callReturns(c) ==
    /\ task[c].pc \in {"cleared", "authorized", "inspected"}
    /\ task' = [task EXCEPT ![c] = Idle]
    /\ UNCHANGED <<ledgerVars, keyword, vectors, file, wal, scan, open, overlapped>>

Begin(c, o, stamp, isNew) ==
    /\ BarrierFree
    /\ wal' = IF isNew THEN wal \cup {[op |-> o, at |-> stamp, phase |-> "PREPARED"]} ELSE wal
    /\ task' = [task EXCEPT ![c] = [pc |-> "finish", op |-> o, recovering |-> FALSE]]
    /\ overlapped' = (overlapped \/ (isNew /\ wal # {}))
    /\ UNCHANGED <<ledgerVars, keyword, vectors, file, scan, open>>

\* publishFact: resume the operation's row, or start it unless the fact is
\* there already.  A retired row does not count as there.
publishFact(c, f) ==
    LET o == Publication(f)
    IN  /\ task[c].pc = "cleared"
        /\ HasWal(o) \/ row[f] \in {"absent", "retired"}
        /\ Begin(c, o, o, ~HasWal(o))

\* updateFact: only a published target; a new fact id for the new text.
updateFact(c, t, f) ==
    LET o == Update(t, f)
    IN  /\ task[c].pc = "cleared"
        /\ t # f
        /\ Published(t)
        /\ row[t] = "live" => ~Forgotten(t)
        /\ \/ HasWal(o)
           \/ /\ row[t] = "live"
              /\ row[f] = "absent"
              /\ \A w \in wal : w.op.fact # f
        /\ Begin(c, o, o, ~HasWal(o))

\* deleteFact: a human confirmation may still be added to a retired fact, and
\* then keeps the fact's invalid_at.
deleteFact(c, t) ==
    LET human == task[c].pc = "authorized"
        o == Deletion(t, human)
    IN  /\ task[c] \in {[pc |-> "cleared"], [pc |-> "authorized", target |-> t]}
        /\ Published(t)
        /\ row[t] = "live" => ~Forgotten(t)
        /\ HasWal(o) \/ (o \notin outbox /\ (row[t] = "live" \/ human))
        /\ Begin(c, o, IF row[t] = "retired" THEN retiredBy[t] ELSE o, ~HasWal(o))

\* recoverScope of the gate, first section: exactly one row may be open.
recoveryInspect(c) ==
    /\ open
    /\ task[c] = Idle
    /\ BarrierFree
    /\ Cardinality(wal) = 1
    /\ \E w \in wal : task' = [task EXCEPT ![c] = [pc |-> "inspected", kind |-> w.op.kind]]
    /\ UNCHANGED <<ledgerVars, keyword, vectors, file, wal, scan, open, overlapped>>

\* recoverScope of the family that has rows; it finishes each of them.
recoverScope(c) ==
    /\ task[c].pc = "inspected"
    /\ BarrierFree
    /\ \E w \in {v \in wal : v.op.kind = task[c].kind} :
        task' = [task EXCEPT ![c] = [pc |-> "finish", op |-> w.op, recovering |-> TRUE]]
    /\ UNCHANGED <<ledgerVars, keyword, vectors, file, wal, scan, open, overlapped>>

-----------------------------------------------------------------------------
(* finish: the step the open row's phase calls for.                         *)

Running(c, kinds, phase) ==
    /\ task[c].pc = "finish"
    /\ task[c].op.kind \in kinds
    /\ HasWal(task[c].op)
    /\ WalOf(task[c].op).phase = phase

NextPhase(w) ==
    LET p == Phases(w.op.kind)
        i == CHOOSE j \in DOMAIN p : p[j] = w.phase
    IN  p[i + 1]

\* advanceWal and its two siblings: a compare-and-set on the phase.
advance(c) ==
    LET w == WalOf(task[c].op)
    IN  /\ wal' = (wal \ {w}) \cup {[w EXCEPT !.phase = NextPhase(w)]}
        /\ UNCHANGED <<ledgerVars, keyword, vectors, file, task, scan, open, overlapped>>

\* files.stage: a private temporary is linked to the staging name, then
\* unlinked; recoverStaged completes the second half after a crash.
stage(c) ==
    LET f == task[c].op.fact
    IN  /\ Running(c, {"pub", "upd"}, "PREPARED")
        /\ file[f] \in {"none", "staging"}
        /\ file' = [file EXCEPT ![f] = IF @ = "none" THEN "staging" ELSE "staged"]
        /\ UNCHANGED <<ledgerVars, keyword, vectors, wal, task, scan, open, overlapped>>

\* What createPendingFactAndOutbox and createPendingUpdate refuse: a forgotten
\* key, and for an update a target that is no longer live.
MayBePending(o) ==
    /\ ~Forgotten(o.fact)
    /\ o.kind = "upd" => row[o.target] = "live"

\* createPendingFactAndOutbox, createPendingUpdate: one ledger transaction.
createPending(c) ==
    LET o == task[c].op
    IN  /\ Running(c, {"pub", "upd"}, "PREPARED")
        /\ file[o.fact] = "staged"
        /\ MayBePending(o)
        /\ row[o.fact] = "absent"
        /\ row' = [row EXCEPT ![o.fact] = "pending"]
        /\ outbox' = outbox \cup {o}
        /\ UNCHANGED <<retiredBy, forgotten, keyword, vectors, file, wal, delivered, task, scan, open, overlapped>>

pendingDone(c) ==
    LET o == task[c].op
    IN  /\ Running(c, {"pub", "upd"}, "PREPARED")
        /\ file[o.fact] = "staged"
        /\ MayBePending(o)
        /\ row[o.fact] = "pending" /\ o \in outbox
        /\ advance(c)

\* files.install: link the staged file to its canonical name, then unlink it.
install(c) ==
    LET f == task[c].op.fact
    IN  /\ Running(c, {"pub", "upd"}, "DB_PENDING")
        /\ file[f] \in {"staged", "linked"}
        /\ file' = [file EXCEPT ![f] = IF @ = "staged" THEN "linked" ELSE "installed"]
        /\ UNCHANGED <<ledgerVars, keyword, vectors, wal, task, scan, open, overlapped>>

installDone(c) ==
    /\ Running(c, {"pub", "upd"}, "DB_PENDING")
    /\ file[task[c].op.fact] = "installed"
    /\ advance(c)

\* Mutant: the key is not looked up again before publishing.
MayPublishAnyway(f) == file[f] = "installed"

\* The file is in place, and the key was not forgotten meanwhile.
MayPublish(f) == file[f] = "installed" /\ ~Forgotten(f)

\* publishFactAndKeywordProjection, first transaction: the ledger.
publishLedger(c) ==
    LET f == task[c].op.fact
    IN  /\ Running(c, {"pub"}, "FILE_INSTALLED")
        /\ MayPublish(f)
        /\ row[f] = "pending"
        /\ row' = [row EXCEPT ![f] = "live"]
        /\ UNCHANGED <<retiredBy, forgotten, keyword, vectors, file, wal, outbox, delivered,
                       task, scan, open, overlapped>>

\* Its second transaction: the keyword index.
publishKeyword(c) ==
    LET f == task[c].op.fact
    IN  /\ Running(c, {"pub"}, "FILE_INSTALLED")
        /\ MayPublish(f)
        /\ row[f] = "live" /\ f \notin keyword
        /\ keyword' = keyword \cup {f}
        /\ UNCHANGED <<ledgerVars, vectors, file, wal, task, scan, open, overlapped>>

publishDone(c) ==
    LET f == task[c].op.fact
    IN  /\ Running(c, {"pub"}, "FILE_INSTALLED")
        /\ MayPublish(f)
        /\ row[f] = "live" /\ f \in keyword
        /\ advance(c)

\* swapUpdateLedger: the old row retires and the new one goes live together.
swapUpdateLedger(c) ==
    LET o == task[c].op
        w == WalOf(o)
    IN  /\ Running(c, {"upd"}, "FILE_INSTALLED")
        /\ MayPublish(o.fact)
        /\ Published(o.target)
        /\ row[o.target] = "retired" => retiredBy[o.target] = w.at
        /\ row[o.fact] = "pending"
        /\ row' = [row EXCEPT ![o.target] = "retired", ![o.fact] = "live"]
        /\ retiredBy' = [retiredBy EXCEPT ![o.target] = w.at]
        /\ UNCHANGED <<forgotten, keyword, vectors, file, wal, outbox, delivered, task, scan, open, overlapped>>

swapLedgerDone(c) ==
    LET o == task[c].op
    IN  /\ Running(c, {"upd"}, "FILE_INSTALLED")
        /\ MayPublish(o.fact)
        /\ retiredBy[o.target] = WalOf(o).at
        /\ Published(o.fact)
        /\ advance(c)

\* swapUpdateKeywordProjection: one transaction of the keyword index.
swapUpdateKeywordProjection(c) ==
    LET o == task[c].op
    IN  /\ Running(c, {"upd"}, "LEDGER_SWAPPED")
        /\ o.target \in keyword \/ o.fact \notin keyword
        /\ keyword' = (keyword \ {o.target}) \cup {o.fact}
        /\ UNCHANGED <<ledgerVars, vectors, file, wal, task, scan, open, overlapped>>

swapKeywordDone(c) ==
    LET o == task[c].op
    IN  /\ Running(c, {"upd"}, "LEDGER_SWAPPED")
        /\ o.target \notin keyword /\ o.fact \in keyword
        /\ advance(c)

\* Mutant: the audit is left to a transaction of its own.
tombstoneAlone(c) ==
    LET o == task[c].op
        w == WalOf(o)
    IN  /\ Running(c, {"del"}, "PREPARED")
        /\ Published(o.target)
        /\ row[o.target] = "retired" => retiredBy[o.target] = w.at
        /\ row' = [row EXCEPT ![o.target] = "retired"]
        /\ retiredBy' = [retiredBy EXCEPT ![o.target] = w.at]
        /\ forgotten' = IF o.human THEN forgotten \cup {o} ELSE forgotten
        /\ UNCHANGED <<keyword, vectors, file, wal, outbox, delivered, task, scan, open, overlapped>>

\* tombstoneAndCreateDeletionOutbox: retire the row, record the human
\* forgetting in the hash chain and queue the audit, in one transaction.
tombstoneAndCreateDeletionOutbox(c) ==
    LET o == task[c].op
        w == WalOf(o)
    IN  /\ Running(c, {"del"}, "PREPARED")
        /\ Published(o.target)
        /\ row[o.target] = "retired" => retiredBy[o.target] = w.at
        /\ o \notin outbox
        /\ row' = [row EXCEPT ![o.target] = "retired"]
        /\ retiredBy' = [retiredBy EXCEPT ![o.target] = w.at]
        /\ forgotten' = IF o.human THEN forgotten \cup {o} ELSE forgotten
        /\ outbox' = outbox \cup {o}
        /\ UNCHANGED <<keyword, vectors, file, wal, delivered, task, scan, open, overlapped>>

tombstoneDone(c) ==
    LET o == task[c].op
    IN  /\ Running(c, {"del"}, "PREPARED")
        /\ o \in outbox
        /\ retiredBy[o.target] = WalOf(o).at
        /\ advance(c)

\* purgeKeywordProjection, with the advance that follows it.
purgeKeywordProjection(c) ==
    LET o == task[c].op
    IN  /\ Running(c, {"del"}, "TOMBSTONED")
        /\ \/ /\ o.target \in keyword
              /\ keyword' = keyword \ {o.target}
              /\ UNCHANGED <<ledgerVars, vectors, file, wal, task, scan, open, overlapped>>
           \/ o.target \notin keyword /\ advance(c)

\* derived.purge and verifyPurged.
purgeDerived(c) ==
    LET o == task[c].op
    IN  /\ Running(c, {"upd"}, "KEYWORD_SWAPPED") \/ Running(c, {"del"}, "KEYWORD_PURGED")
        /\ \/ /\ VectorsOf(o.target) # {}
              /\ vectors' = vectors \ VectorsOf(o.target)
              /\ UNCHANGED <<ledgerVars, keyword, file, wal, task, scan, open, overlapped>>
           \/ VectorsOf(o.target) = {} /\ advance(c)

\* files.removeInstalled and verifyAbsent.  A file with two links is refused.
removeInstalled(c) ==
    LET o == task[c].op
    IN  /\ Running(c, {"upd", "del"}, "DERIVED_PURGED")
        /\ file[o.target] # "linked"
        /\ \/ /\ file[o.target] = "installed"
              /\ file' = [file EXCEPT ![o.target] = "none"]
              /\ UNCHANGED <<ledgerVars, keyword, vectors, wal, task, scan, open, overlapped>>
           \/ file[o.target] # "installed" /\ advance(c)

\* The checks finish makes before it delivers the audit, and again before it
\* deletes the row.
Verified(w) ==
    LET o == w.op
        absent == file[o.target] \notin {"linked", "installed"} /\ VectorsOf(o.target) = {}
    IN  CASE o.kind = "pub" -> verifyPublished(o.fact) /\ file[o.fact] = "installed"
          [] o.kind = "upd" -> verifyUpdateState(w) /\ file[o.fact] = "installed" /\ absent
          [] OTHER -> verifyDeletionState(w) /\ absent

LastPhase(kind) ==
    CASE kind = "pub" -> "PUBLISHED" [] kind = "upd" -> "OLD_FILE_REMOVED" [] OTHER -> "FILE_REMOVED"

\* deliverAuditOnce: the receiver is idempotent, so delivering it again after
\* a crash before the mark is the same step once more.
deliverAuditOnce(c) ==
    LET o == task[c].op
    IN  /\ Running(c, {o.kind}, LastPhase(o.kind))
        /\ Verified(WalOf(o))
        /\ \/ /\ o \in outbox \ delivered
              /\ delivered' = delivered \cup {o}
              /\ UNCHANGED <<row, retiredBy, forgotten, keyword, vectors, file, wal, outbox,
                             task, scan, open, overlapped>>
           \/ o \in delivered /\ advance(c)

\* deleteWal, the last write; a recovering caller goes on to the next row of
\* its family.
deleteWal(c) ==
    LET o == task[c].op
        rest == {w \in wal : w.op.kind = o.kind /\ w.op # o}
    IN  /\ Running(c, {o.kind}, "AUDITED")
        /\ Verified(WalOf(o))
        /\ o \in delivered
        /\ wal' = wal \ {WalOf(o)}
        /\ IF task[c].recovering /\ rest # {}
           THEN \E w \in rest : task' = [task EXCEPT ![c].op = w.op]
           ELSE task' = [task EXCEPT ![c] = Idle]
        /\ UNCHANGED <<ledgerVars, keyword, vectors, file, scan, open, overlapped>>

\* A step throws: a refused transaction, a full disk, an audit receiver that
\* does not answer.  The barrier is released and the row stays open.
finishThrows(c) ==
    /\ task[c].pc = "finish"
    /\ task' = [task EXCEPT ![c] = Idle]
    /\ UNCHANGED <<ledgerVars, keyword, vectors, file, wal, scan, open, overlapped>>

finishPublication(c) ==
    \/ stage(c) \/ createPending(c) \/ pendingDone(c) \/ install(c) \/ installDone(c)
    \/ publishLedger(c) \/ publishKeyword(c) \/ publishDone(c)
    \/ deliverAuditOnce(c) \/ deleteWal(c)

finishUpdate(c) ==
    \/ stage(c) \/ createPending(c) \/ pendingDone(c) \/ install(c) \/ installDone(c)
    \/ swapUpdateLedger(c) \/ swapLedgerDone(c)
    \/ swapUpdateKeywordProjection(c) \/ swapKeywordDone(c)
    \/ purgeDerived(c) \/ removeInstalled(c)
    \/ deliverAuditOnce(c) \/ deleteWal(c)

finishDeletion(c) ==
    \/ tombstoneAndCreateDeletionOutbox(c) \/ tombstoneDone(c)
    \/ purgeKeywordProjection(c) \/ purgeDerived(c) \/ removeInstalled(c)
    \/ deliverAuditOnce(c) \/ deleteWal(c)

finishStep(c) ==
    /\ task[c].pc = "finish"
    /\ \/ task[c].op.kind = "pub" /\ finishPublication(c)
       \/ task[c].op.kind = "upd" /\ finishUpdate(c)
       \/ task[c].op.kind = "del" /\ finishDeletion(c)

-----------------------------------------------------------------------------
(* The semantic reconciler and the end of the process.                      *)

\* listLiveFacts and verifySemanticRecord: both throw while a row is open, and
\* the first throws for all when one live row is forgotten or unprojected.
listLiveFacts == ScopeRecovered /\ \A f \in Facts : row[f] = "live" => verifyPublished(f)

verifySemanticRecord(f) == ScopeRecovered /\ verifyPublished(f)

\* runOnce: a snapshot of the live facts; the provider is asked afterwards.
runOnce ==
    /\ open
    /\ scan = {}
    /\ BarrierFree
    /\ listLiveFacts
    /\ scan' = {f \in Facts : row[f] = "live"}
    /\ scan' # {}
    /\ UNCHANGED <<ledgerVars, keyword, vectors, file, wal, task, open, overlapped>>

\* indexDocument after the provider answered: upsert asks verifySemanticRecord
\* again, and drops the fact when the answer is no or a row is open.
indexDocument(f) ==
    /\ f \in scan
    /\ scan' = scan \ {f}
    /\ vectors' = IF verifySemanticRecord(f) THEN vectors \cup {f} ELSE vectors
    /\ UNCHANGED <<ledgerVars, keyword, file, wal, task, open, overlapped>>

\* The process dies, nothing but the stores is left, and the next process
\* opens them; a store that refuses to open serves no call.
Crash ==
    /\ \E c \in Callers : task[c] # Idle
    /\ task' = [c \in Callers |-> Idle]
    /\ scan' = {}
    /\ open' = openStore
    /\ UNCHANGED <<ledgerVars, keyword, vectors, file, wal, overlapped>>

Next ==
    \/ \E c \in Callers :
        \/ assertScopeRecovered(c)
        \/ callReturns(c)
        \/ recoveryInspect(c)
        \/ recoverScope(c)
        \/ finishStep(c)
        \/ finishThrows(c)
        \/ \E f \in Facts :
            \/ authorizeExactDeletion(c, f)
            \/ publishFact(c, f)
            \/ deleteFact(c, f)
            \/ \E t \in Facts : updateFact(c, t, f)
    \/ runOnce
    \/ \E f \in Facts : indexDocument(f)
    \/ Crash

Spec == Init /\ [][Next]_vars

-----------------------------------------------------------------------------
(* Properties.                                                              *)

\* Once no write-ahead row is open, the four stores agree on every fact
\* whatever crashed or threw on the way: a live fact has its file, its keyword
\* row and a delivered audit; a retired one has no file, no keyword row and no
\* vector, and an audited operation that retired it; nothing is half done
\* (integrityCheck together with the file and vector checks of finish).
StoresAgree ==
    /\ TypeOK
    /\ wal = {} =>
        \A f \in Facts :
            /\ row[f] # "pending"
            /\ row[f] = "live" => Forgotten(f) \/ searchOne(f)
            /\ row[f] = "live" =>
                /\ file[f] = "installed" /\ f \in keyword
                /\ \E o \in delivered : o.fact = f /\ o.kind # "del"
            /\ row[f] # "live" => f \notin keyword \cup vectors /\ file[f] = "none"
            /\ row[f] = "retired" => retiredBy[f] \in delivered

\* An operation whose crash the store's opening check accepts: it was begun
\* over no other, its target did not itself come from an update, and it does
\* not add a confirmation to a fact that was retired before.
PlainOperation(w) ==
    w.op.kind # "pub" => w.at = w.op /\ \A o \in outbox : o.kind = "upd" => o.fact # w.op.target

\* The shape check the store makes when it is opened accepts whatever a crash
\* can leave of a plain operation (see ReopenIsAccepted for the others).
CrashIsRecoverable ==
    ~overlapped /\ (\A w \in wal : PlainOperation(w))
        => verifyDeletionRecoveryState /\ verifyUpdateRecoveryState

\* Both together: whatever crashed, threw or overlapped, the scope is either
\* whole or in a state the next process accepts and completes.
MemoryStaysWhole == StoresAgree /\ CrashIsRecoverable

\* Without the exceptions: makeProtectedMemorySqliteStore opens again after any
\* crash, as long as no operation was begun over another's open row.
ReopenIsAccepted ==
    ~overlapped => verifyDeletionRecoveryState /\ verifyUpdateRecoveryState

KeepsForgotten == \A f \in Facts : Forgotten(f) /\ row[f] # "live" => row'[f] # "live"

\* A forgotten key never comes back: no step makes a fact live once a human
\* has had its key forgotten, not even a publication that was already under
\* way (the second look of publishFactAndKeywordProjection).
ForgetIsPermanent == [][KeepsForgotten]_vars
=============================================================================
