--------------------------- MODULE RestartReceipt ---------------------------
(***************************************************************************)
(* The two-phase planned restart: the receipt protocol of                  *)
(* runtime-restart-internal.ts, the two callers that share one instance of *)
(* it (a Telegram restart command and the daily session rotation), the     *)
(* supervisor permit they await, and the replay filter of bot.ts that      *)
(* drops the update bound into the receipt when Telegram redelivers it.    *)
(*                                                                         *)
(* The receipt directory is kept twice: "files" is what system calls see,  *)
(* "stable" what survives a power loss.  A directory fsync copies the      *)
(* first to the second.                                                    *)
(***************************************************************************)
EXTENDS Integers, FiniteSets

CONSTANTS
    RestartUpdates,  \* ids of the Telegram updates that ask for a restart
    MaxUpdate,       \* updates are 1 .. MaxUpdate
    MaxIntents,      \* restart intents ever created
    MaxDeaths,       \* process crashes and power losses
    MaxFailures        \* failing file operations and lost protocol answers

ASSUME ReceiptBounds ==
    MaxUpdate \in Nat /\ MaxIntents \in Nat /\ MaxDeaths \in Nat /\ MaxFailures \in Nat

VARIABLES
    files, stable,   \* the receipt and the retained previous receipt
    run,             \* the running process: its RuntimeRestart and its bot
    exitPermit,      \* the parent holds an unexpired planned-restart permit
    outstanding,     \* the child session waits for an answer of the parent
    turns,           \* liveTurns
    rotation,        \* the daily rotation is in phase restart_requested
    tg,              \* Telegram long polling: confirmed, tried, fetched
    who,             \* what each caller is doing, and the intent it holds
    exited,          \* the intent of the last planned exit, until the next start
    withdrawn,       \* ghost: intents whose receipt was removed by cancel
    bound,           \* ghost: updates named by the receipt of a planned exit
    ran,             \* ghost: how often an update passed the replay filter
    intents, deaths, failures

receiptVars == <<files, stable, run, exitPermit, outstanding, turns, rotation, tg, who,
                 exited, withdrawn, bound, ran, intents, deaths, failures>>

Callers == {"telegram", "nightly"}
Updates == 1 .. MaxUpdate

None == [id |-> 0, upd |-> 0]
Intents == [id : 1 .. MaxIntents, upd : 0 .. MaxUpdate]
Idle == [at |-> "idle", intent |-> None]

Down == [up |-> FALSE, ambiguous |-> FALSE, prepared |-> None,
         committed |-> FALSE, previous |-> None, recovered |-> None]

Slots == Intents \cup {None}
Directories == [path : Slots, prev : Slots]
Instances == [up : BOOLEAN, ambiguous : BOOLEAN, prepared : Slots, committed : BOOLEAN,
              previous : Slots, recovered : Slots]
Pollings == [confirmed : 0 .. MaxUpdate, tried : 0 .. MaxUpdate, fetched : 0 .. MaxUpdate]
Activities == {Idle} \cup [at : {"saying", "committing", "authorizing"}, intent : Intents]

ReceiptTypeOK ==
    /\ files \in Directories /\ stable \in Directories
    /\ run \in Instances
    /\ exitPermit \in BOOLEAN /\ outstanding \in BOOLEAN /\ rotation \in BOOLEAN
    /\ turns \in 0 .. 1
    /\ tg \in Pollings
    /\ who \in [Callers -> Activities]
    /\ exited \in Slots
    /\ withdrawn \subseteq Intents /\ bound \subseteq Updates
    /\ ran \in [Updates -> Nat]
    /\ intents \in 0 .. MaxIntents /\ deaths \in 0 .. MaxDeaths /\ failures \in 0 .. MaxFailures

ReceiptInit ==
    /\ files = [path |-> None, prev |-> None] /\ stable = files
    /\ run = Down
    /\ exitPermit = FALSE /\ outstanding = FALSE /\ turns = 0 /\ rotation = TRUE
    /\ tg = [confirmed |-> 0, tried |-> 0, fetched |-> 0]
    /\ who = [c \in Callers |-> Idle]
    /\ exited = None /\ withdrawn = {} /\ bound = {}
    /\ ran = [u \in Updates |-> 0]
    /\ intents = 0 /\ deaths = 0 /\ failures = 0

(***************************************************************************)
(* The process ends: its memory is gone, Telegram forgets nothing, and the *)
(* parent's permit belonged to the session of this child.                  *)
(***************************************************************************)
Die ==
    /\ run' = Down
    /\ exitPermit' = FALSE /\ outstanding' = FALSE /\ turns' = 0
    /\ who' = [c \in Callers |-> Idle]
    /\ tg' = [tg EXCEPT !.tried = tg.confirmed, !.fetched = tg.confirmed]

Fault == failures < MaxFailures /\ failures' = failures + 1
NoFault == UNCHANGED failures

(***************************************************************************)
(* makeRuntimeRestart at start-up: consumePrevious moves the receipt to    *)
(* ".previous" and reads it; without a receipt it reads the retained one.  *)
(***************************************************************************)
Consumed == [path |-> None, prev |-> files.path]

StartUp(previous, ambiguous) ==
    run' = [Down EXCEPT !.up = TRUE, !.ambiguous = ambiguous,
                        !.previous = previous, !.recovered = previous]

consumePrevious ==
    \/ /\ files.path = None
       /\ StartUp(files.prev, FALSE) /\ UNCHANGED <<files, stable>> /\ NoFault
    \/ /\ files.path # None
       /\ files' = Consumed /\ stable' = Consumed
       /\ StartUp(files.path, FALSE) /\ NoFault
    \/ \* the receipt cannot be read or renamed, or the rollback's fsync fails
       /\ files.path # None /\ Fault
       /\ StartUp(None, TRUE) /\ UNCHANGED <<files, stable>>
    \/ \* the fsync after the rename fails and the rollback succeeds
       /\ files.path # None /\ Fault
       /\ stable' = files
       /\ StartUp(None, FALSE) /\ UNCHANGED files
    \/ \* the fsync after the rename fails and so does the rollback
       /\ files.path # None /\ Fault
       /\ files' = Consumed
       /\ StartUp(None, TRUE) /\ UNCHANGED stable

Start ==
    /\ ~run.up
    /\ consumePrevious
    /\ rotation' = FALSE
    /\ exited' = None
    /\ UNCHANGED <<exitPermit, outstanding, turns, tg, who, withdrawn, bound, ran, intents, deaths>>

(***************************************************************************)
(* publishIntent: a temporary file is synced, renamed over the receipt     *)
(* path and its directory entry synced; a failure after the rename is      *)
(* rolled back, and a rollback that fails leaves the state ambiguous.      *)
(***************************************************************************)
publishIntentUnsynced(intent) ==
    /\ files.path = None
    /\ files' = [files EXCEPT !.path = intent] /\ UNCHANGED stable
    /\ run' = [run EXCEPT !.prepared = intent] /\ NoFault

publishIntent(intent) ==
    LET published == [files EXCEPT !.path = intent] IN
    \/ /\ files.path # None
       /\ run' = [run EXCEPT !.ambiguous = TRUE]
       /\ UNCHANGED <<files, stable>> /\ NoFault
    \/ /\ files.path = None
       /\ files' = published /\ stable' = published
       /\ run' = [run EXCEPT !.prepared = intent] /\ NoFault
    \/ \* nothing renamed, or renamed and durably rolled back
       /\ files.path = None /\ Fault
       /\ stable' \in {stable, files}
       /\ UNCHANGED <<files, run>>
    \/ \* the rollback cannot unlink, or cannot sync the removal
       /\ files.path = None /\ Fault
       /\ \/ files' = published /\ UNCHANGED stable
          \/ UNCHANGED files /\ stable' \in {stable, published}
       /\ run' = [run EXCEPT !.ambiguous = TRUE]

(***************************************************************************)
(* RuntimeRestart.prepare, called by c for update upd (0 for none).  A     *)
(* prepared intent is handed to every caller, whatever its reason.         *)
(***************************************************************************)
prepare(c, upd, then) ==
    \/ /\ ~run.ambiguous /\ run.prepared # None
       /\ who' = [who EXCEPT ![c] = [at |-> then, intent |-> run.prepared]]
       /\ UNCHANGED <<files, stable, run, intents>> /\ NoFault
    \/ /\ run.ambiguous \/ (run.prepared = None /\ turns > 0)
       /\ who' = [who EXCEPT ![c] = Idle]
       /\ UNCHANGED <<files, stable, run, intents>> /\ NoFault
    \/ /\ ~run.ambiguous /\ run.prepared = None /\ turns = 0
       /\ intents < MaxIntents
       /\ LET intent == [id |-> intents + 1, upd |-> upd] IN
          /\ publishIntent(intent)
          /\ who' = [who EXCEPT ![c] =
                        IF run'.prepared = intent THEN [at |-> then, intent |-> intent] ELSE Idle]
       /\ intents' = intents + 1

(***************************************************************************)
(* Telegram long polling (grammY): updates of a fetched batch are handled  *)
(* one after the other; only the next fetch confirms them to the server.   *)
(***************************************************************************)
Fetch ==
    /\ run.up /\ who["telegram"] = Idle /\ tg.tried = tg.fetched
    /\ \E last \in tg.tried .. MaxUpdate :
          tg' = [confirmed |-> tg.tried, tried |-> tg.tried, fetched |-> last]
    /\ tg' # tg
    /\ UNCHANGED <<files, stable, run, exitPermit, outstanding, turns, rotation, who,
                   exited, withdrawn, bound, ran, intents, deaths, failures>>

NextUpdate == tg.tried + 1

\* bot.use: the update named by the recovered receipt is dropped.
Absorb ==
    /\ run.up /\ who["telegram"] = Idle /\ tg.tried < tg.fetched
    /\ run.recovered # None /\ run.recovered.upd = NextUpdate
    /\ tg' = [tg EXCEPT !.tried = NextUpdate]
    /\ UNCHANGED <<files, stable, run, exitPermit, outstanding, turns, rotation, who,
                   exited, withdrawn, bound, ran, intents, deaths, failures>>

PassesReplay == run.up /\ who["telegram"] = Idle /\ tg.tried < tg.fetched

Passes ==
    /\ run.up /\ who["telegram"] = Idle /\ tg.tried < tg.fetched
    /\ run.recovered = None \/ run.recovered.upd # NextUpdate

\* A newer update, or a receipt without update id, ends the evidence.
Acknowledges == run.recovered # None /\ run.recovered.upd < NextUpdate

(***************************************************************************)
(* acknowledgePrevious: the retained receipt is unlinked and the removal   *)
(* synced; a failure marks the instance ambiguous.  The bot forgets the    *)
(* recovered receipt whatever the answer was.                              *)
(***************************************************************************)
acknowledgePrevious ==
    /\ Passes /\ Acknowledges
    /\ \/ /\ files' = [files EXCEPT !.prev = None] /\ stable' = files'
          /\ run' = [run EXCEPT !.previous = None, !.recovered = None] /\ NoFault
       \/ /\ Fault
          /\ files' \in {files, [files EXCEPT !.prev = None]} /\ UNCHANGED stable
          /\ run' = [run EXCEPT !.recovered = None, !.ambiguous = TRUE]
    /\ UNCHANGED <<exitPermit, outstanding, turns, rotation, tg, who, exited, withdrawn, bound,
                   ran, intents, deaths>>

\* The handler of an update that passed: an ordinary one, or runRestart.
Handle ==
    /\ Passes /\ ~Acknowledges
    /\ tg' = [tg EXCEPT !.tried = NextUpdate]
    /\ ran' = [ran EXCEPT ![NextUpdate] = @ + 1]
    /\ \/ /\ NextUpdate \notin RestartUpdates
          /\ UNCHANGED <<files, stable, run, who, intents, failures>>
       \/ /\ NextUpdate \in RestartUpdates
          /\ prepare("telegram", NextUpdate, "saying")
    /\ UNCHANGED <<exitPermit, outstanding, turns, rotation, exited, withdrawn, bound, deaths>>

\* The daily rotation's tick: prepare and straight on to commitExit.
TickNightlyRecovery ==
    /\ run.up /\ rotation /\ who["nightly"] = Idle
    /\ prepare("nightly", 0, "committing")
    /\ UNCHANGED <<exitPermit, outstanding, turns, rotation, tg, exited, withdrawn, bound, ran, deaths>>

RotationAsksForRestart ==
    /\ run.up /\ ~rotation
    /\ rotation' = TRUE
    /\ UNCHANGED <<files, stable, run, exitPermit, outstanding, turns, tg, who, exited, withdrawn,
                   bound, ran, intents, deaths, failures>>

(***************************************************************************)
(* cancelPublishedReceipt: unlink and directory fsync of the receipt.      *)
(***************************************************************************)
cancelPublishedReceipt(intent) ==
    \/ /\ files.path = intent
       /\ files' = [files EXCEPT !.path = None] /\ stable' = files'
       /\ run' = [run EXCEPT !.prepared = None]
       /\ withdrawn' = withdrawn \cup {intent} /\ NoFault
    \/ /\ files.path # intent
       /\ run' = [run EXCEPT !.ambiguous = TRUE]
       /\ UNCHANGED <<files, stable, withdrawn>> /\ NoFault
    \/ /\ files.path = intent /\ Fault
       /\ files' \in {files, [files EXCEPT !.path = None]} /\ UNCHANGED stable
       /\ run' = [run EXCEPT !.ambiguous = TRUE]
       /\ withdrawn' = withdrawn \cup {intent}

(***************************************************************************)
(* runRestart announces the restart.  A reply that fails cancels the       *)
(* intent; cancel leaves an instance that is ambiguous, committed or       *)
(* prepared for something else alone.                                      *)
(***************************************************************************)
SayDelivered ==
    /\ who["telegram"].at = "saying"
    /\ who' = [who EXCEPT !["telegram"].at = "committing"]
    /\ UNCHANGED <<files, stable, run, exitPermit, outstanding, turns, rotation, tg,
                   exited, withdrawn, bound, ran, intents, deaths, failures>>

cancel(intent) ==
    \/ /\ run.ambiguous \/ run.committed \/ run.prepared # intent
       /\ UNCHANGED <<files, stable, run, withdrawn>> /\ NoFault
    \/ /\ ~run.ambiguous /\ ~run.committed /\ run.prepared = intent
       /\ cancelPublishedReceipt(intent)

SayFails ==
    /\ who["telegram"].at = "saying"
    /\ cancel(who["telegram"].intent)
    /\ who' = [who EXCEPT !["telegram"] = Idle]
    /\ UNCHANGED <<exitPermit, outstanding, turns, rotation, tg, exited, bound, ran, intents, deaths>>

(***************************************************************************)
(* commitExit up to its await.  The exchange allows one outstanding        *)
(* request: a second one loses the session, whose listener exits with      *)
(* code 1.                                                                 *)
(***************************************************************************)
cancelPreparedAtCommit(intent) ==
    \/ /\ run.prepared # intent
       /\ run' = [run EXCEPT !.ambiguous = TRUE]
       /\ UNCHANGED <<files, stable, withdrawn>> /\ NoFault
    \/ /\ run.prepared = intent
       /\ cancelPublishedReceipt(intent)

commitExit(c) ==
    /\ who[c].at = "committing"
    /\ LET intent == who[c].intent IN
       \/ /\ run.ambiguous \/ run.prepared # intent \/ run.committed
          /\ who' = [who EXCEPT ![c] = Idle]
          /\ UNCHANGED <<files, stable, run, exitPermit, outstanding, turns, tg, withdrawn>> /\ NoFault
       \/ /\ ~run.ambiguous /\ run.prepared = intent /\ ~run.committed /\ turns > 0
          /\ cancelPreparedAtCommit(intent)
          /\ who' = [who EXCEPT ![c] = Idle]
          /\ UNCHANGED <<exitPermit, outstanding, turns, tg>>
       \/ /\ ~run.ambiguous /\ run.prepared = intent /\ ~run.committed /\ turns = 0 /\ ~outstanding
          /\ outstanding' = TRUE
          /\ who' = [who EXCEPT ![c].at = "authorizing"]
          /\ UNCHANGED <<files, stable, run, exitPermit, turns, tg, withdrawn>> /\ NoFault
       \/ /\ ~run.ambiguous /\ run.prepared = intent /\ ~run.committed /\ turns = 0 /\ outstanding
          /\ Die
          /\ UNCHANGED <<files, stable, withdrawn>> /\ NoFault
    /\ UNCHANGED <<rotation, exited, bound, ran, intents, deaths>>

(***************************************************************************)
(* The parent's answer.  An unexpired permit is refused with               *)
(* AUTHORITY_BUSY, and a refused, late or lost answer loses the session.   *)
(* After the answer only the turns are checked again before the exit.      *)
(***************************************************************************)
PermitRefused ==
    /\ \E c \in Callers : who[c].at = "authorizing"
    /\ \/ exitPermit /\ NoFault
       \/ Fault
    /\ Die
    /\ UNCHANGED <<files, stable, rotation, exited, withdrawn, bound, ran, intents, deaths>>

exitAuthorized(c) ==
    /\ exited' = who[c].intent
    /\ bound' = IF who[c].intent \in withdrawn THEN bound
                ELSE bound \cup ({who[c].intent.upd} \ {0})
    /\ Die
    /\ UNCHANGED <<files, stable, withdrawn>> /\ NoFault

PermitGranted(c) ==
    /\ who[c].at = "authorizing" /\ ~exitPermit
    /\ \/ /\ turns > 0
          /\ exitPermit' = TRUE /\ outstanding' = FALSE
          /\ cancelPreparedAtCommit(who[c].intent)
          /\ who' = [who EXCEPT ![c] = Idle]
          /\ UNCHANGED <<turns, tg, exited, bound>>
       \/ /\ turns = 0
          /\ exitAuthorized(c)
       \/ \* the exit callback throws before the process ends
          /\ turns = 0 /\ Fault
          /\ exitPermit' = TRUE /\ outstanding' = FALSE
          /\ run' = [run EXCEPT !.committed = TRUE, !.ambiguous = TRUE]
          /\ who' = [who EXCEPT ![c] = Idle]
          /\ UNCHANGED <<files, stable, turns, tg, exited, withdrawn, bound>>
    /\ UNCHANGED <<rotation, ran, intents, deaths>>

PermitExpires ==
    /\ exitPermit /\ exitPermit' = FALSE
    /\ UNCHANGED <<files, stable, run, outstanding, turns, rotation, tg, who,
                   exited, withdrawn, bound, ran, intents, deaths, failures>>

TurnStartsOrEnds ==
    /\ run.up /\ turns' = 1 - turns
    /\ UNCHANGED <<files, stable, run, exitPermit, outstanding, rotation, tg, who,
                   exited, withdrawn, bound, ran, intents, deaths, failures>>

\* The process dies between two steps; the directory stays as system calls saw it.
Crash ==
    /\ run.up /\ deaths < MaxDeaths
    /\ Die
    /\ deaths' = deaths + 1
    /\ UNCHANGED <<files, stable, rotation, exited, withdrawn, bound, ran, intents, failures>>

\* The host dies: what was not synced is there or is not.
PowerLoss ==
    /\ deaths < MaxDeaths
    /\ Die
    /\ files' \in {files, stable} /\ stable' = files'
    /\ deaths' = deaths + 1
    /\ UNCHANGED <<rotation, exited, withdrawn, bound, ran, intents, failures>>

ReceiptNext ==
    \/ Start \/ Fetch \/ Absorb \/ acknowledgePrevious \/ Handle
    \/ TickNightlyRecovery \/ RotationAsksForRestart
    \/ SayDelivered \/ SayFails
    \/ \E c \in Callers : commitExit(c) \/ PermitGranted(c)
    \/ PermitRefused \/ PermitExpires \/ TurnStartsOrEnds
    \/ Crash \/ PowerLoss

ReceiptSpec == ReceiptInit /\ [][ReceiptNext]_receiptVars

(***************************************************************************)
(* ReceiptFairness: the event loop runs what is ready, a reply is delivered or    *)
(* fails, and every protocol exchange is answered or times out.            *)
(***************************************************************************)
ReceiptFairness ==
    /\ WF_receiptVars(SayDelivered \/ SayFails)
    /\ \A c \in Callers : WF_receiptVars(commitExit(c))
    /\ WF_receiptVars(PermitRefused \/ \E c \in Callers : PermitGranted(c))

ReceiptFairSpec == ReceiptSpec /\ ReceiptFairness

(***************************************************************************)
(* Properties                                                              *)
(***************************************************************************)

\* A planned exit leaves its receipt on stable storage ("Called only after the
\* intent and directory entry are durable"), whatever fails, crashes or loses
\* power before the next start.
ExitIsBacked == exited # None => stable.path = exited /\ files.path = exited

\* The one way to exit without the receipt: another caller, holding the same
\* shared intent, cancelled it while this one awaited the permit.
ExitIsBackedUnlessWithdrawn == exited \notin withdrawn => ExitIsBacked

\* The update whose own intent ended a process is never handled again, even
\* when Telegram redelivers it and processes crash.
ReplayIsAbsorbed == [][failures = 0 => \A u \in bound : ran'[u] = ran[u]]_receiptVars

\* While a receipt naming an update is on disk, retained or not yet consumed,
\* no process handles that update, across crashes and power losses.
RetainedReceiptBlocksReplay ==
    [][failures = 0 => \A u \in Updates :
         ran'[u] > ran[u] => files.prev.upd # u /\ files.path.upd # u]_receiptVars

\* An instance that does not know what is on disk never writes a receipt again
\* and never asks for the permit to exit.
AmbiguityIsClosed ==
    [][run.up /\ run.ambiguous /\ run'.up =>
         /\ run'.ambiguous
         /\ files'.path # None => files'.path = files.path
         /\ outstanding' => outstanding]_receiptVars

\* A prepared restart is decided: the process ends, the intent is withdrawn, or
\* the instance declares itself ambiguous.
RestartIsDecided ==
    run.prepared # None ~> (run.prepared = None \/ run.ambiguous \/ ~run.up)

\* A restart that ended the process is neither lost nor run again: its receipt
\* absorbs the repeated update, and an instance in doubt writes no more.
RestartHappensOnce == RetainedReceiptBlocksReplay /\ AmbiguityIsClosed
=============================================================================
